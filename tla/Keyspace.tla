------------------------------ MODULE Keyspace ------------------------------
(***************************************************************************)
(* What a client may expect of commands on single keys, without expiry: a  *)
(* map from keys to values on which each command acts at once, at some     *)
(* instant between its invocation and its reply.                           *)
(***************************************************************************)
EXTENDS Values

CONSTANTS Client, Commands,
          NoCommand            \* the command of an idle client

VARIABLES kv,     \* the value under each key
          call    \* what each client has asked for, and the answer

vars == <<kv, call>>

Idle == [stage |-> "idle", cmd |-> NoCommand, reply |-> NoReply]

(* A collection that loses its last member is no longer there. *)
Normal(v) == IF IsEmpty(v) THEN Absent ELSE v

(* The whole command on the value of its key. *)
Results(c, v) ==
  CASE c.name \in Typed /\ TypeName(v) \notin {"none", c.type} -> {Outcome(v, Error)}
    [] c.name = "SET" ->
         IF (c.cond = "nx" /\ v # Absent) \/ (c.cond = "xx" /\ v = Absent)
         THEN {Outcome(v, Nil)}
         ELSE {Outcome(NewString(c), Ok)}
    [] c.name = "DEL" -> {Outcome(Absent, Count(IF v = Absent THEN 0 ELSE 1))}
    [] OTHER -> Effect(c, v)

Init ==
  /\ kv = [k \in Key |-> Absent]
  /\ call = [p \in Client |-> Idle]

Invoke(p) ==
  /\ call[p].stage = "idle"
  /\ \E c \in Commands :
       call' = [call EXCEPT ![p] = [stage |-> "pending", cmd |-> c, reply |-> NoReply]]
  /\ UNCHANGED kv

Perform(p) ==
  /\ call[p].stage = "pending"
  /\ LET c == call[p].cmd
     IN  \E e \in Results(c, kv[c.key]) :
           /\ kv' = [kv EXCEPT ![c.key] = Normal(e.val)]
           /\ call' = [call EXCEPT ![p].stage = "done", ![p].reply = e.reply]

Respond(p) ==
  /\ call[p].stage = "done"
  /\ call' = [call EXCEPT ![p] = Idle]
  /\ UNCHANGED kv

Next == \E p \in Client : Invoke(p) \/ Perform(p) \/ Respond(p)

Spec == Init /\ [][Next]_vars
=============================================================================
