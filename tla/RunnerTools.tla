------------------------------ MODULE RunnerTools ------------------------------
(***************************************************************************)
(* Tools the model calls in parallel, on one event loop.  edit_file and    *)
(* write_file work under a lock per path that exists only while somebody   *)
(* uses it; execute_command runs in a thread and, when Google refused its  *)
(* token, has the token refreshed and runs the command once more.          *)
(* Commands that fail together share one refresh.                          *)
(*                                                                         *)
(* Tokens are numbers, 0 when none was ever issued.  The shell, the server *)
(* that refreshes and the expiry of a token are external.                  *)
(***************************************************************************)
EXTENDS Naturals, FiniteSets

CONSTANTS
  Callers,      \* tool calls that may run at a time
  EditedFiles,        \* resolved paths
  MaxExpiries,  \* bound: expired tokens in one behaviour
  MaxEdits      \* bound: edits in one behaviour

ASSUME ToolsAssumption ==
  /\ IsFiniteSet(Callers) /\ EditedFiles # {}
  /\ MaxExpiries \in Nat /\ MaxEdits \in Nat

VARIABLES
  tool,         \* what each call does; its file, the lock it uses and the
                \* version it read; the token its process saw and the one it
                \* wants replaced
  lockOf,       \* _file_mutation_queue._locks: the lock of a path, 0 for none
  onDisk,       \* the version of each file
  lost,         \* ghost: an edit was overwritten unread
  envToken,     \* GOOGLE_WORKSPACE_CLI_TOKEN
  expired,      \* tokens Google refuses
  inflight,     \* inflight_count
  failedFor,    \* recent_failed_stale_token
  askedFor,     \* ghost: tokens asked about in vain in this wave, or replaced
  askedTwice,   \* ghost
  edits

fileVars  == <<lockOf, onDisk, lost, edits>>
googleVars == <<envToken, expired, inflight, failedFor, askedFor, askedTwice>>
toolVars  == <<tool, fileVars, googleVars>>

-----------------------------------------------------------------------------
Locks   == 1..Cardinality(Callers)
NoLock  == 0
AFile   == CHOOSE f \in EditedFiles : TRUE
IdleTool == [step |-> "idle", path |-> AFile, lock |-> NoLock, read |-> 0,
             token |-> 0, stale |-> 0]

ToolsTypeOK ==
  /\ tool \in [Callers -> [step: {"idle", "locking", "editing", "command",
                                  "refreshing", "posting", "again"},
                           path: EditedFiles, lock: Locks \cup {NoLock}, read: Nat,
                           token: Nat, stale: Nat]]
  /\ lockOf \in [EditedFiles -> Locks \cup {NoLock}]
  /\ onDisk \in [EditedFiles -> Nat] /\ lost \in BOOLEAN /\ edits \in 0..MaxEdits
  /\ envToken \in Nat /\ expired \in SUBSET Nat
  /\ inflight \in 0..Cardinality(Callers) /\ failedFor \in Nat
  /\ askedFor \in SUBSET Nat /\ askedTwice \in BOOLEAN
  /\ inflight = Cardinality({c \in Callers : tool[c].step \in {"refreshing", "posting"}})

ToolsInit ==
  /\ tool = [c \in Callers |-> IdleTool]
  /\ lockOf = [f \in EditedFiles |-> NoLock]
  /\ onDisk = [f \in EditedFiles |-> 0] /\ lost = FALSE /\ edits = 0
  /\ envToken = 1 /\ expired = {} /\ inflight = 0 /\ failedFor = 0
  /\ askedFor = {} /\ askedTwice = FALSE

ToolStep(c, s) == tool' = [tool EXCEPT ![c].step = s]

-----------------------------------------------------------------------------
(* File tools                                                              *)

UsersOf(k) == {c \in Callers : tool[c].lock = k}

\* acquire: the lock of the path, made when there is none.
AskLock(c, f) ==
  /\ tool[c].step = "idle"
  /\ edits < MaxEdits /\ edits' = edits + 1
  /\ \E k \in Locks :
       /\ IF lockOf[f] = NoLock THEN UsersOf(k) = {} ELSE k = lockOf[f]
       /\ lockOf' = [lockOf EXCEPT ![f] = k]
       /\ tool' = [tool EXCEPT ![c] = [IdleTool EXCEPT !.step = "locking",
                                       !.path = f, !.lock = k]]
  /\ UNCHANGED <<onDisk, lost, googleVars>>

\* The lock is free: the file is read, in a thread.
TakeLock(c) ==
  /\ tool[c].step = "locking"
  /\ \A q \in UsersOf(tool[c].lock) : tool[q].step # "editing"
  /\ tool' = [tool EXCEPT ![c].step = "editing",
                          ![c].read = onDisk[tool[c].path]]
  /\ UNCHANGED <<fileVars, googleVars>>

\* Wrong: whoever is done removes the lock.
DroppedAtOnce(c) == TRUE
\* users == 0: nobody else uses or awaits it.
LastUser(c) == UsersOf(tool[c].lock) = {c}

\* The file is written, or the edit does not apply; the lock is released and,
\* by its last user, removed.
EndEdit(c) ==
  LET f == tool[c].path IN
  /\ tool[c].step = "editing"
  /\ \/ /\ onDisk' = [onDisk EXCEPT ![f] = @ + 1]
        /\ lost' = (lost \/ onDisk[f] # tool[c].read)
     \/ UNCHANGED <<onDisk, lost>>
  /\ lockOf' = [lockOf EXCEPT ![f] = IF LastUser(c) THEN NoLock ELSE @]
  /\ tool' = [tool EXCEPT ![c] = IdleTool]
  /\ UNCHANGED <<edits, googleVars>>

-----------------------------------------------------------------------------
(* execute_command                                                         *)

\* The token is captured before the process starts.
RunCommand(c) ==
  /\ tool[c].step = "idle"
  /\ tool' = [tool EXCEPT ![c] = [IdleTool EXCEPT !.step = "command",
                                  !.token = envToken]]
  /\ UNCHANGED <<fileVars, googleVars>>

\* Wrong: the helper reads the environment when it is entered.
TokenAtEntry(c) == envToken
StaleToken(c) == tool[c].token

\* The process ends; one that was refused enters the helper and its lock's queue.
CommandEnds(c) ==
  /\ tool[c].step = "command"
  /\ \/ /\ tool[c].token \in expired
        /\ tool' = [tool EXCEPT ![c].step = "refreshing",
                                ![c].stale = StaleToken(c)]
        /\ inflight' = inflight + 1
     \/ /\ tool[c].token \notin expired
        /\ tool' = [tool EXCEPT ![c] = IdleTool]
        /\ UNCHANGED inflight
  /\ UNCHANGED <<fileVars, envToken, expired, failedFor, askedFor, askedTwice>>

\* The finally block: t is the token by now, and flag the failure to remember
\* unless the wave ends.
Leaves(c, s, t, flag) ==
  /\ tool' = [tool EXCEPT ![c] = IF s = "again" THEN [@ EXCEPT !.step = s]
                                                ELSE IdleTool]
  /\ inflight' = inflight - 1
  /\ failedFor' = IF inflight = 1 THEN 0 ELSE flag
  /\ askedFor' = IF inflight = 1 THEN askedFor \cap 1..(t - 1) ELSE askedFor

RefreshLockFree == \A q \in Callers : tool[q].step # "posting"

\* Wrong: a failure is not shared.
NeverFailed(c) == FALSE
FailedAlready(c) == failedFor = tool[c].stale

\* Under the lock: replaced by somebody else, failed for somebody else, or asked
\* for.
EnterRefresh(c) ==
  /\ tool[c].step = "refreshing" /\ RefreshLockFree
  /\ \/ /\ envToken # tool[c].stale
        /\ Leaves(c, "again", envToken, failedFor)
        /\ UNCHANGED askedTwice
     \/ /\ envToken = tool[c].stale /\ FailedAlready(c)
        /\ Leaves(c, "idle", envToken, failedFor)
        /\ UNCHANGED askedTwice
     \/ /\ envToken = tool[c].stale /\ ~FailedAlready(c)
        /\ ToolStep(c, "posting")
        /\ askedTwice' = (askedTwice \/ tool[c].token \in askedFor)
        /\ askedFor' = askedFor \cup {tool[c].token}
        /\ UNCHANGED <<inflight, failedFor>>
  /\ UNCHANGED <<fileVars, envToken, expired>>

\* The server answers with a token, or the call fails in one of its ways.
RefreshAnswered(c) ==
  /\ tool[c].step = "posting"
  /\ \/ /\ envToken' = envToken + 1
        /\ Leaves(c, "again", envToken + 1, 0)
     \/ /\ Leaves(c, "idle", envToken, tool[c].stale)
        /\ UNCHANGED envToken
  /\ UNCHANGED <<fileVars, expired, askedTwice>>

\* The command runs a second time and its output is final.
RunAgain(c) ==
  /\ tool[c].step = "again"
  /\ tool' = [tool EXCEPT ![c] = IdleTool]
  /\ UNCHANGED <<fileVars, googleVars>>

TokenExpires ==
  /\ Cardinality(expired) < MaxExpiries
  /\ envToken \notin expired
  /\ expired' = expired \cup {envToken}
  /\ UNCHANGED <<tool, fileVars, envToken, inflight, failedFor, askedFor,
                 askedTwice>>

ToolsNext ==
  \/ \E c \in Callers :
       \/ \E f \in EditedFiles : AskLock(c, f)
       \/ TakeLock(c) \/ EndEdit(c)
       \/ RunCommand(c) \/ CommandEnds(c) \/ EnterRefresh(c)
       \/ RefreshAnswered(c) \/ RunAgain(c)
  \/ TokenExpires

ToolsSpec == ToolsInit /\ [][ToolsNext]_toolVars

-----------------------------------------------------------------------------
(* Properties                                                              *)

\* Edits of one file run one after the other, though locks come and go: none is
\* made on a version that is not the file's any more.
NoLostEdit == ~lost

\* Commands refused with one token share its refresh: the server is not asked
\* again for a token that was replaced, nor, while any of them waits, for one it
\* refused to refresh.
RefreshedOnce == ~askedTwice

\* Tools that run side by side share files and the token safely.
ToolsShare == NoLostEdit /\ RefreshedOnce
=============================================================================
