------------------------------ MODULE EmailPoller ------------------------------
(***************************************************************************)
(* The loop of every server that turns unread mail into tasks, and the      *)
(* mailbox it shares with its owner and with the loops of other servers.    *)
(* The mailbox is the IMAP server's: fetching "(RFC822)" marks a message    *)
(* seen (RFC 3501, 6.4.5).                                                  *)
(***************************************************************************)
EXTENDS Naturals, FiniteSets

CONSTANTS
  Mails, Pollers,
  MaxUnreads,  \* bound on messages the owner marks unread again
  MaxJams      \* bound on failures and crashes

ASSUME MailAssumption == IsFiniteSet(Mails) /\ MaxUnreads \in Nat /\ MaxJams \in Nat

VARIABLES
  mailbox,     \* every message: not here yet, unseen or seen
  addressed,   \* credentials are stored
  generating,  \* the email generator is enabled
  poller,      \* where each loop is, what it has listed, what it has fetched
  mailed,      \* tasks made of a message by a loop
  unreads,     \* how often the owner has marked it unread
  jams

mailVars == <<mailbox, addressed, generating, poller, mailed, unreads, jams>>

-----------------------------------------------------------------------------
NoMail == "nomail"
Off == [step |-> "off", listed |-> {}, mail |-> NoMail, then |-> "off"]
Jam == jams < MaxJams /\ jams' = jams + 1

Unreads == Cardinality({k \in Mails \X (1..MaxUnreads) : k[2] <= unreads[k[1]]})

MailTypeOK ==
  /\ mailbox \in [Mails -> {"absent", "unseen", "seen"}]
  /\ addressed \in BOOLEAN /\ generating \in BOOLEAN
  /\ poller \in [Pollers ->
       [step : {"off", "checking", "waiting", "listed", "fetched", "created"},
        listed : SUBSET Mails, mail : Mails \cup {NoMail},
        then : {"off", "checking", "waiting"}]]
  /\ mailed \in [Mails \X Pollers -> 0..(MaxUnreads + 1)]
  /\ unreads \in [Mails -> 0..MaxUnreads]
  /\ jams \in 0..MaxJams

MailInit ==
  /\ mailbox = [m \in Mails |-> "absent"]
  /\ addressed = TRUE /\ generating = TRUE
  /\ poller = [p \in Pollers |-> Off]
  /\ mailed = [k \in Mails \X Pollers |-> 0]
  /\ unreads = [m \in Mails |-> 0]
  /\ jams = 0

-----------------------------------------------------------------------------
(* The owner                                                               *)

Arrives(m) ==
  /\ mailbox[m] = "absent" /\ mailbox' = [mailbox EXCEPT ![m] = "unseen"]
  /\ UNCHANGED <<addressed, generating, poller, mailed, unreads, jams>>

OwnerReads(m) ==
  /\ mailbox[m] = "unseen" /\ mailbox' = [mailbox EXCEPT ![m] = "seen"]
  /\ UNCHANGED <<addressed, generating, poller, mailed, unreads, jams>>

OwnerUnreads(m) ==
  /\ mailbox[m] = "seen" /\ Unreads < MaxUnreads
  /\ mailbox' = [mailbox EXCEPT ![m] = "unseen"]
  /\ unreads' = [unreads EXCEPT ![m] = @ + 1]
  /\ UNCHANGED <<addressed, generating, poller, mailed, jams>>

Configures ==
  /\ \/ addressed' = ~addressed /\ UNCHANGED generating
     \/ generating' = ~generating /\ UNCHANGED addressed
  /\ UNCHANGED <<mailbox, poller, mailed, unreads, jams>>

-----------------------------------------------------------------------------
(* The loop                                                                *)

Goes(p, next) == poller' = [poller EXCEPT ![p] = next]
At(p, step) == poller[p].step = step

\* run_email_poller; a connection that fails is tried again after the backoff.
Connects(p) ==
  /\ At(p, "off") /\ addressed /\ generating
  /\ Goes(p, [Off EXCEPT !.step = "checking"])
  /\ UNCHANGED <<mailbox, addressed, generating, mailed, unreads, jams>>

\* SEARCH UNSEEN.
ListsUnseen(p, next) ==
  LET found == {m \in Mails : mailbox[m] = "unseen"} IN
  Goes(p, IF found = {} THEN [Off EXCEPT !.step = next]
          ELSE [step |-> "listed", listed |-> found, mail |-> NoMail, then |-> next])

\* The top of either loop; the one with IDLE looks only every few rounds.
ChecksMail(p) ==
  /\ At(p, "checking")
  /\ \/ ~(generating /\ addressed) /\ Goes(p, Off)
     \/ generating /\ addressed /\ (ListsUnseen(p, "waiting") \/ Goes(p, [Off EXCEPT !.step = "waiting"]))
  /\ UNCHANGED <<mailbox, addressed, generating, mailed, unreads, jams>>

\* After IDLE the generator is read again, the credentials are not; without
\* IDLE the pause is over.
Wakes(p) ==
  /\ At(p, "waiting")
  /\ \/ generating /\ ListsUnseen(p, "checking")
     \/ Goes(p, [Off EXCEPT !.step = "checking"])
  /\ UNCHANGED <<mailbox, addressed, generating, mailed, unreads, jams>>

\* Wrong: with BODY.PEEK[] the message stays unseen.
PeekedAt(m) == mailbox
\* imap.fetch(uid, "(RFC822)"): the server marks what it hands out.
SeenByFetch(m) == [mailbox EXCEPT ![m] = "seen"]

\* The message is marked by the server, whether the answer arrives or not.
FetchesMail(p, m) ==
  /\ At(p, "listed") /\ m \in poller[p].listed
  /\ mailbox' = SeenByFetch(m)
  /\ \/ /\ Goes(p, [poller[p] EXCEPT !.step = "fetched", !.mail = m,
                                     !.listed = @ \ {m}])
        /\ UNCHANGED jams
     \/ /\ Jam /\ Goes(p, [poller[p] EXCEPT !.listed = @ \ {m}])
  /\ UNCHANGED <<addressed, generating, mailed, unreads>>

\* FETCH does not get through.
MissesMail(p, m) ==
  /\ At(p, "listed") /\ m \in poller[p].listed
  /\ Jam /\ Goes(p, [poller[p] EXCEPT !.listed = @ \ {m}])
  /\ UNCHANGED <<mailbox, addressed, generating, mailed, unreads>>

\* create_task_from_email: a title of its own if the model gives one.
CreatesFromMail(p) ==
  /\ At(p, "fetched")
  /\ mailed' = [mailed EXCEPT ![<<poller[p].mail, p>>] = @ + 1]
  /\ Goes(p, [poller[p] EXCEPT !.step = "created"])
  /\ UNCHANGED <<mailbox, addressed, generating, unreads, jams>>

\* The database refuses; the exception is logged and the next message taken.
FailsToCreate(p) ==
  /\ At(p, "fetched") /\ Jam
  /\ Goes(p, [poller[p] EXCEPT !.step = "listed", !.mail = NoMail])
  /\ UNCHANGED <<mailbox, addressed, generating, mailed, unreads>>

\* STORE +FLAGS \Seen, or an exception of it that is logged.
MarksSeen(p) ==
  /\ At(p, "created")
  /\ \/ mailbox' = [mailbox EXCEPT ![poller[p].mail] = "seen"] /\ UNCHANGED jams
     \/ Jam /\ UNCHANGED mailbox
  /\ Goes(p, [poller[p] EXCEPT !.step = "listed", !.mail = NoMail])
  /\ UNCHANGED <<addressed, generating, mailed, unreads>>

EndsListing(p) ==
  /\ At(p, "listed") /\ poller[p].listed = {}
  /\ Goes(p, [Off EXCEPT !.step = poller[p].then])
  /\ UNCHANGED <<mailbox, addressed, generating, mailed, unreads, jams>>

\* The connection or the server goes.
StopsPolling(p) ==
  /\ ~At(p, "off") /\ Jam /\ Goes(p, Off)
  /\ UNCHANGED <<mailbox, addressed, generating, mailed, unreads>>

MailNext ==
  \/ \E m \in Mails : Arrives(m) \/ OwnerReads(m) \/ OwnerUnreads(m)
  \/ Configures
  \/ \E p \in Pollers :
       \/ Connects(p) \/ ChecksMail(p) \/ Wakes(p)
       \/ \E m \in Mails : FetchesMail(p, m) \/ MissesMail(p, m)
       \/ CreatesFromMail(p) \/ FailsToCreate(p) \/ MarksSeen(p)
       \/ EndsListing(p) \/ StopsPolling(p)

-----------------------------------------------------------------------------
\* One loop makes one task of a message each time its owner has left it unread,
\* whatever fails between the task's commit and the flag and however often the
\* loop is broken off (process_messages).
OneTaskPerReading ==
  \A m \in Mails, p \in Pollers : mailed[<<m, p>>] <= 1 + unreads[m]

MailSpec == MailInit /\ [][MailNext]_mailVars
=============================================================================
