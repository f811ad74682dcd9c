----------------------------- MODULE AtomicStore -----------------------------
(***************************************************************************)
(* What a store that is replaced as a whole promises: a write that is      *)
(* answered with success put its value in place of the old one of that     *)
(* parameter and touched no other, one that is refused changed nothing,    *)
(* and a restart in the middle leaves one or the other.  Of parameters     *)
(* whose writes overlap nothing is promised until the last of these writes *)
(* has been answered.  ParameterStore and Presets implement it.            *)
(***************************************************************************)
CONSTANTS Clients, Parameters, Contents, Initially

VARIABLES
  view,      \* what a read of each parameter returns
  request,   \* the write each client has asked for and has no answer to
  contended  \* the parameters that suffer from writes that overlap; set from outside

storeVars == <<view, request>>

Idle == [pid |-> "none"]
Requests == [pid : Parameters, value : Contents]

StoreInit ==
  /\ view = [p \in Parameters |-> Initially]
  /\ request = [c \in Clients |-> Idle]

Ask(c) ==
  /\ request[c] = Idle
  /\ \E r \in Requests : request' = [request EXCEPT ![c] = r]
  /\ UNCHANGED view

Take(c) ==
  /\ request[c] # Idle
  /\ view' = [view EXCEPT ![request[c].pid] = request[c].value]
  /\ request' = [request EXCEPT ![c] = Idle]

Refuse(c) ==
  /\ request[c] # Idle
  /\ request' = [request EXCEPT ![c] = Idle]
  /\ UNCHANGED view

Stop ==
  /\ request' = [c \in Clients |-> Idle]
  /\ UNCHANGED view

\* A step of client c while writes overlap: whatever becomes of their parameters,
\* the others keep their values.
Disturbed(c) ==
  /\ contended # {}
  /\ request' \in {request, [request EXCEPT ![c] = Idle]}
  /\ view' \in [Parameters -> Contents]
  /\ \A p \in Parameters \ contended : view'[p] = view[p]

StoreNext == Stop \/ \E c \in Clients : Ask(c) \/ Take(c) \/ Refuse(c) \/ Disturbed(c)

StoreSpec == StoreInit /\ [][StoreNext]_storeVars
=============================================================================
