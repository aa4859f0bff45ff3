----------------------------- MODULE RemoteAccess -----------------------------
(***************************************************************************)
(* What agents may expect of the tree of CLPs, wherever it keeps a         *)
(* variable and however often it moves it: each message sent to a variable *)
(* is executed there once, and each request executed is answered once.     *)
(* In which order the messages of an agent are executed is left open,      *)
(* because the tree does not keep it when a variable moves.                *)
(***************************************************************************)
EXTENDS Sequences, SequencesExt

CONSTANTS
  Variables,     \* shared state variables
  Requests,      \* requests (reads and writes)
  Antis          \* anti-messages; they are not answered

VARIABLES
  sent,          \* the messages sent
  log,           \* per variable, the messages executed, in order
  answered       \* the requests answered

remoteVars == <<sent, log, answered>>

Executed == UNION {ToSet(log[v]) : v \in Variables}

Init ==
  /\ sent = {}
  /\ log = [v \in Variables |-> <<>>]
  /\ answered = {}

Send(messages) ==
  /\ messages \intersect sent = {}
  /\ sent' = sent \union messages
  /\ UNCHANGED <<log, answered>>

Execute(v, m) ==
  /\ m \in sent \ Executed
  /\ m.var = v
  /\ log' = [log EXCEPT ![v] = Append(@, m)]
  /\ UNCHANGED <<sent, answered>>

Answer(m) ==
  /\ m \in Executed \intersect Requests
  /\ m \notin answered
  /\ answered' = answered \union {m}
  /\ UNCHANGED <<sent, log>>

\* Several anti-messages may leave at once; a request leaves alone.
Next ==
  \/ Send(sent' \ sent) /\ (sent' \ sent \subseteq Antis \/ \E m \in Requests : sent' \ sent = {m})
  \/ \E v \in Variables, m \in sent : Execute(v, m)
  \/ \E m \in sent : Answer(m)

Safety == Init /\ [][Next]_remoteVars

Spec ==
  /\ Safety
  /\ WF_remoteVars(\E v \in Variables, m \in sent : Execute(v, m))
  /\ WF_remoteVars(\E m \in sent : Answer(m))
=============================================================================
