------------------------------- MODULE Session -------------------------------
(***************************************************************************)
(* What the geometry server promises a client that pipelines its calls:    *)
(* the calls act one at a time, in the order sent, on one map from body    *)
(* ids to bodies, and each reply tells what its call did.  An id is never  *)
(* 0 and never that of a body already there.                               *)
(***************************************************************************)
EXTENDS Naturals, Sequences, FiniteSets

CONSTANT Requests   \* the requests a client may send, each a [n, id, call]

VARIABLES
  pending,  \* calls sent and not yet answered, oldest first
  session,  \* body ids the answers so far account for, each with its body
  reply     \* the last answer

vars == <<pending, session, reply>>

Init ==
  /\ pending = <<>>
  /\ session = [i \in {} |-> <<0, 0>>]
  /\ reply = [id |-> 0, error |-> "none", bodies |-> <<>>, count |-> 0]

Submit(r) == pending' = Append(pending, r) /\ UNCHANGED <<session, reply>>

\* The bodies built for request r join base under the ids the reply lists.  A
\* body is named by the number of the request that built it and by its place
\* among the bodies that request built.
Joined(base, r, ids) ==
  [i \in DOMAIN base \cup {ids[k] : k \in DOMAIN ids} |->
     IF i \in DOMAIN base THEN base[i]
                          ELSE <<r.n, CHOOSE k \in DOMAIN ids : ids[k] = i>>]

FreshFor(base, ids) ==
  /\ \A k \in DOMAIN ids : ids[k] # 0 /\ ids[k] \notin DOMAIN base
  /\ \A j, k \in DOMAIN ids : ids[j] = ids[k] => j = k

\* Answering r with a in the session s leaves the session t.
Effect(s, r, a, t) ==
  LET c == r.call
      empty == [i \in {} |-> <<0, 0>>]
  IN  \/ /\ a.error # "none"
         /\ t = s
      \/ /\ a.error = "none" /\ c.method = "info"
         /\ a.count = Cardinality(DOMAIN s)
         /\ t = s
      \/ /\ a.error = "none" /\ c.method = "query"
         /\ c.id \in DOMAIN s
         /\ t = s
      \/ /\ a.error = "none" /\ c.method = "delete"
         /\ c.id \in DOMAIN s
         /\ t = [i \in DOMAIN s \ {c.id} |-> s[i]]
      \/ /\ a.error = "none" /\ c.method = "clear"
         /\ t = empty
      \/ /\ a.error = "none" /\ c.method = "primitive"
         /\ Len(a.bodies) = 1 /\ FreshFor(s, a.bodies)
         /\ t = Joined(s, r, a.bodies)
      \/ /\ a.error = "none" /\ c.method = "eval"
         /\ Len(a.bodies) = c.built
         /\ LET base == IF c.clear THEN empty ELSE s
            IN  /\ FreshFor(base, a.bodies)
                /\ t = Joined(base, r, a.bodies)

\* Calls on a body fail exactly when the client holds no such body.
Refused(s, r, a) ==
  r.call.method \in {"query", "delete"} =>
    (a.error # "none" <=> r.call.id \notin DOMAIN s)

\* Is a the answer to r in the session s, and t what it leaves?
Answered(s, r, a, t) ==
  /\ a.id = r.id
  /\ Effect(s, r, a, t)
  /\ Refused(s, r, a)

Answer ==
  /\ pending # <<>>
  /\ Answered(session, Head(pending), reply', session')
  /\ pending' = Tail(pending)

Next == (\E r \in Requests : Submit(r)) \/ Answer

Spec == Init /\ [][Next]_vars
==============================================================================
