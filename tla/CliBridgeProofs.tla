--------------------------- MODULE CliBridgeProofs ---------------------------
(***************************************************************************)
(* Proofs about CliBridge, for any number of calls, CLIs, restarts and      *)
(* faults: no call is lost between the manager and a CLI, an engine is only *)
(* busy with a task it serves, a gateway runs one task its CLI waits for,   *)
(* and Stop reaches the task it is meant for.                               *)
(*                                                                         *)
(* Each of these rests on where a call's one request is: in the stdin of    *)
(* one CLI, not yet served, before its cancellation (AskedInv).  Given that,*)
(* a CLI's activeTaskRequestId is the task it serves (ServeInv); a pending  *)
(* request was written to a CLI that is read for as long as it runs         *)
(* (SentInv), and is on its way there (AccountInv); so is its cancellation  *)
(* (StopInv).  The predicates take the state they are about as arguments.   *)
(***************************************************************************)
EXTENDS CliBridge, FiniteSetTheorems, TLAPS

Tasks == {c \in Calls : KindOf[c] = "task"}
Stages == {"none", "health", "waiting", "posted"}
Places == {"idle", "port", "wait", "stranded", "hung", "sent", "stopping", "returned"}
Living == {"booting", "up", "dying"}
\* What a call may not leave but to return: its request was written.
Settled == {"sent", "returned"}

\* The lines the manager writes.
Msgs == {Request(c) : c \in Calls} \cup {Cancel(c) : c \in Calls} \cup {Shutdown}

\* A CLI serves a call from its admission to its answer; its active task is one it serves,
\* and it serves no other; its gateway runs tasks only.
ServeInv(act, st, srv, runs) ==
    /\ act \in [Children -> Calls \cup {NoCall}]
    /\ st \in [Calls -> Stages] /\ srv \in [Calls -> Children \cup {NoChild}]
    /\ \A c \in Calls : (st[c] = "none") <=> (srv[c] = NoChild)
    /\ \A c \in Tasks : st[c] # "none" => act[srv[c]] = c
    /\ \A k \in Children : act[k] # NoCall => act[k] \in Tasks /\ srv[act[k]] = k
    /\ runs \in [Children -> SUBSET Tasks]

\* In one stdin: a request is there once, and before its cancellation.
InOrder(box) ==
    /\ box \in Seq(Msgs)
    /\ \A c \in Calls : \A i, j \in DOMAIN box :
        /\ box[i] = Request(c) /\ box[j] = Request(c) => i = j
        /\ box[i] = Request(c) /\ box[j] = Cancel(c) => i < j
\* A request that is still to be read is in one stdin, and is not served yet; only a
\* call that was sent was asked for, is served or is cancelled.
AskedInv(in, st, where) ==
    /\ in \in [Children -> Seq(Msgs)]
    /\ \A k \in Children : InOrder(in[k])
    /\ \A k \in Children, c \in Calls : Holds(in[k], Request(c)) =>
        /\ st[c] = "none" /\ where[c] \in Settled
        /\ \A l \in Children : Holds(in[l], Request(c)) => l = k
    /\ \A k \in Children, c \in Calls : Holds(in[k], Cancel(c)) => where[c] \in Settled
    /\ \A c \in Calls : st[c] # "none" => where[c] \in Settled

\* The manager reads its CLI, and the CLI a pending request was written to, for as long
\* as they run, and learns of their end.
HeardInv(k, life, reads) == life[k] \in Living /\ (life[k] # "dying" => k \in reads)
SentInv(own, life, reads, where, to) ==
    /\ own \in Children \cup {NoChild}
    /\ own # NoChild => HeardInv(own, life, reads)
    /\ life \in [Children -> Living \cup {"unborn", "dead"}] /\ reads \subseteq Children
    /\ where \in [Callers -> Places] /\ to \in [Calls -> Children \cup {NoChild}]
    /\ \A c \in Calls : where[c] = "sent" => to[c] \in Children /\ HeardInv(to[c], life, reads)
    /\ \A c \in Calls : where[c] # "sent" => to[c] = NoChild

\* A pending request is to be read, served, or answered where it was written to.
Underway(c, k, in, st, srv, out) ==
    \/ Holds(in[k], Request(c)) \/ (srv[c] = k /\ st[c] # "none")
    \/ Holds(out[k], Reply(c)) \/ Holds(in[k], Shutdown)
AccountInv(where, to, life, in, st, srv, out) ==
    \A c \in Calls : where[c] = "sent" /\ life[to[c]] # "dying" =>
        Underway(c, to[c], in, st, srv, out)

\* A cancellation written to the CLI of its call comes after the request, or finds it served.
StopInv(where, to, stopTo, in, st, srv, sig) ==
    /\ stopTo \in [Calls -> Children \cup {NoChild}]
    /\ \A c \in Calls : stopTo[c] # NoChild => where[c] = "sent" /\ c \in Tasks
    /\ \A c \in Calls : stopTo[c] # NoChild /\ stopTo[c] = to[c] =>
        /\ Holds(in[to[c]], Request(c)) => Holds(in[to[c]], Cancel(c))
        /\ srv[c] = to[c] => c \in sig \/ Holds(in[to[c]], Cancel(c))

BridgeInv ==
    /\ ServeInv(activeTask, stage, server, loops)
    /\ AskedInv(inbox, stage, pc)
    /\ SentInv(child, alive, listening, pc, sentTo)
    /\ AccountInv(pc, sentTo, alive, inbox, stage, server, outbox)
    /\ StopInv(pc, sentTo, cancelTo, inbox, stage, server, signalled)
    /\ outbox \in [Children -> Seq(Lines)] /\ timer \subseteq In("wait") \cup In("stranded")
\* The types of what the rest does not mention.
TypeInv ==
    /\ signalled \subseteq Calls
    /\ gateway \in [Children -> {"down", "starting", "up"}] /\ owned \in [Children -> BOOLEAN]
    /\ faults \in Nat /\ ready \in {"none", "pending", "resolved", "rejected"}
    /\ disposed \in BOOLEAN
    /\ stopping \in [Stops -> Children \cup {NoChild}] /\ cancelled \subseteq Calls
----------------------------------------------------------------------------
(* Lines and the boxes they wait in *)

LEMMA LineFacts ==
    /\ \A c, d : /\ Request(c) = Request(d) => c = d
                 /\ Cancel(c) = Cancel(d) => c = d
                 /\ Reply(c) = Reply(d) => c = d
                 /\ Request(c) # Cancel(d)
    /\ \A c : /\ Request(c) # Shutdown /\ Cancel(c) # Shutdown /\ Reply(c) # Ready
              /\ Request(c).type = "request" /\ Request(c).call = c
              /\ Cancel(c).type = "cancel" /\ Cancel(c).call = c
              /\ Reply(c).call = c
    /\ Shutdown.type = "shutdown"
  BY DEF Request, Cancel, Shutdown, Reply, Ready

LEMMA MsgFacts ==
    /\ \A c \in Calls : Request(c) \in Msgs /\ Cancel(c) \in Msgs
    /\ Shutdown \in Msgs
    /\ \A m \in Msgs : /\ m.type = "request" => m.call \in Calls /\ m = Request(m.call)
                       /\ m.type = "cancel" => m.call \in Calls /\ m = Cancel(m.call)
                       /\ m.type = "shutdown" => m = Shutdown
  BY LineFacts DEF Msgs

LEMMA HoldsAppend ==
    ASSUME NEW S, NEW box \in Seq(S), NEW x \in S
    PROVE  /\ Append(box, x) \in Seq(S)
           /\ \A y : Holds(Append(box, x), y) <=> Holds(box, y) \/ y = x
<1>1. /\ Append(box, x) \in Seq(S) /\ Len(box) \in Nat
      /\ DOMAIN Append(box, x) = 1..(Len(box) + 1) /\ DOMAIN box = 1..Len(box)
      /\ \A i \in 1..Len(box) : Append(box, x)[i] = box[i]
      /\ Append(box, x)[Len(box) + 1] = x
  OBVIOUS
<1>2. Len(box) + 1 \in 1..(Len(box) + 1)
  BY <1>1
<1>3. \A i \in 1..(Len(box) + 1) : i \in 1..Len(box) \/ i = Len(box) + 1
  BY <1>1
<1>4. \A i \in 1..Len(box) : i \in 1..(Len(box) + 1)
  BY <1>1
<1> QED BY <1>1, <1>2, <1>3, <1>4 DEF Holds

LEMMA TailFacts ==
    ASSUME NEW S, NEW box \in Seq(S), box # <<>>
    PROVE  /\ Tail(box) \in Seq(S) /\ Head(box) \in S /\ Head(box) = box[1]
           /\ 1 \in DOMAIN box
           /\ \A i \in DOMAIN Tail(box) : i + 1 \in DOMAIN box /\ Tail(box)[i] = box[i + 1]
           /\ \A i \in DOMAIN box : i # 1 => i - 1 \in DOMAIN Tail(box) /\ Tail(box)[i - 1] = box[i]
<1>1. /\ Tail(box) \in Seq(S) /\ Head(box) \in S /\ Head(box) = box[1]
      /\ Len(box) \in Nat /\ Len(box) > 0 /\ Len(Tail(box)) = Len(box) - 1
      /\ DOMAIN box = 1..Len(box) /\ DOMAIN Tail(box) = 1..(Len(box) - 1)
  OBVIOUS
<1>2. \A i \in 1..(Len(box) - 1) : i + 1 \in 1..Len(box) /\ Tail(box)[i] = box[i + 1]
  BY <1>1
<1>3. \A i \in 1..Len(box) : i # 1 => i - 1 \in 1..(Len(box) - 1) /\ Tail(box)[i - 1] = box[i]
  BY <1>1
<1> QED BY <1>1, <1>2, <1>3

LEMMA HoldsTail ==
    ASSUME NEW S, NEW box \in Seq(S), box # <<>>
    PROVE  /\ Holds(box, Head(box))
           /\ \A y : Holds(Tail(box), y) => Holds(box, y)
           /\ \A y : Holds(box, y) /\ y # Head(box) => Holds(Tail(box), y)
  BY TailFacts DEF Holds

LEMMA TakenInOrder ==
    ASSUME NEW box, InOrder(box), box # <<>>
    PROVE  /\ InOrder(Tail(box)) /\ Head(box) \in Msgs
           /\ \A c \in Calls : /\ Head(box) = Request(c) => ~Holds(Tail(box), Request(c))
                               /\ Head(box) = Cancel(c) => ~Holds(box, Request(c))
<1>1. box \in Seq(Msgs)
  BY DEF InOrder
<1>2. /\ Tail(box) \in Seq(Msgs) /\ Head(box) \in Msgs /\ Head(box) = box[1] /\ 1 \in DOMAIN box
      /\ \A i \in DOMAIN Tail(box) : i + 1 \in DOMAIN box /\ Tail(box)[i] = box[i + 1]
      /\ DOMAIN Tail(box) \subseteq Nat \ {0} /\ DOMAIN box \subseteq Nat \ {0}
  <2>1. DOMAIN Tail(box) = 1..Len(Tail(box)) /\ DOMAIN box = 1..Len(box)
    BY <1>1, TailFacts
  <2> QED BY <1>1, <2>1, TailFacts
<1>3. ASSUME NEW c \in Calls, NEW i \in DOMAIN Tail(box), NEW j \in DOMAIN Tail(box)
      PROVE  /\ Tail(box)[i] = Request(c) /\ Tail(box)[j] = Request(c) => i = j
             /\ Tail(box)[i] = Request(c) /\ Tail(box)[j] = Cancel(c) => i < j
  <2>1. /\ i + 1 \in DOMAIN box /\ j + 1 \in DOMAIN box
        /\ Tail(box)[i] = box[i + 1] /\ Tail(box)[j] = box[j + 1]
        /\ i \in Nat /\ j \in Nat
    BY <1>2
  <2>2. /\ box[i + 1] = Request(c) /\ box[j + 1] = Request(c) => i + 1 = j + 1
        /\ box[i + 1] = Request(c) /\ box[j + 1] = Cancel(c) => i + 1 < j + 1
    BY <2>1 DEF InOrder
  <2> QED BY <2>1, <2>2
<1>4. ASSUME NEW c \in Calls, Head(box) = Request(c), NEW i \in DOMAIN Tail(box)
      PROVE  Tail(box)[i] # Request(c)
  <2>1. i + 1 \in DOMAIN box /\ Tail(box)[i] = box[i + 1] /\ i \in Nat \ {0} /\ i + 1 # 1
    BY <1>2
  <2> QED BY <1>2, <1>4, <2>1 DEF InOrder
<1>5. ASSUME NEW c \in Calls, Head(box) = Cancel(c), NEW i \in DOMAIN box
      PROVE  box[i] # Request(c)
  <2>1. i \in Nat \ {0} /\ ~(i < 1)
    BY <1>2
  <2> QED BY <1>2, <1>5, <2>1 DEF InOrder
<1> QED BY <1>2, <1>3, <1>4, <1>5 DEF InOrder, Holds

\* A line that asks for nothing new may be written at any time.
LEMMA PutInOrder ==
    ASSUME NEW box, InOrder(box), NEW m \in Msgs, m = Shutdown \/ \E c \in Calls : m = Cancel(c)
    PROVE  InOrder(Append(box, m))
<1> DEFINE new == Append(box, m)
<1>1. /\ new \in Seq(Msgs) /\ Len(box) \in Nat
      /\ DOMAIN new = 1..(Len(box) + 1) /\ DOMAIN box = 1..Len(box)
      /\ \A i \in 1..Len(box) : new[i] = box[i]
      /\ new[Len(box) + 1] = m
  BY DEF InOrder
<1>2. \A c \in Calls : m # Request(c)
  BY LineFacts
<1> HIDE DEF new
<1>3. ASSUME NEW c \in Calls, NEW i \in DOMAIN new, NEW j \in DOMAIN new, new[i] = Request(c)
      PROVE  (new[j] = Request(c) => i = j) /\ (new[j] = Cancel(c) => i < j)
  <2>1. i \in 1..Len(box) /\ (j \in 1..Len(box) \/ j = Len(box) + 1)
    <3>1. i # Len(box) + 1
      BY <1>1, <1>2, <1>3
    <3> QED BY <1>1, <3>1
  <2>2. CASE j \in 1..Len(box)
    <3>1. new[i] = box[i] /\ new[j] = box[j] /\ i \in DOMAIN box /\ j \in DOMAIN box
      BY <1>1, <2>1, <2>2
    <3> QED BY <1>3, <3>1 DEF InOrder
  <2>3. CASE j = Len(box) + 1
    <3>1. new[j] # Request(c) /\ i < j
      BY <1>1, <1>2, <2>1, <2>3
    <3> QED BY <3>1
  <2> QED BY <2>1, <2>2, <2>3
<1> QED BY <1>1, <1>3 DEF InOrder, new

LEMMA OrderCovers ==
    ASSUME NEW S, IsFiniteSet(S), NEW order \in SetToSeqs(S)
    PROVE  /\ order \in Seq(S)
           /\ \A i, j \in DOMAIN order : i # j => order[i] # order[j]
           /\ \A c \in S : \E i \in DOMAIN order : order[i] = c
<1> DEFINE n == Cardinality(S)
<1>1. n \in Nat
  BY FS_CardinalityType
<1>2. order \in [1..n -> S] /\ \A i, j \in 1..n : i # j => order[i] # order[j]
  BY DEF SetToSeqs
<1>3. order \in Injection(1..n, S)
  BY <1>2 DEF Injection, IsInjective
<1>4. Cardinality(1..n) = n
  BY <1>1, FS_Interval
<1>5. order \in Surjection(1..n, S)
  BY <1>3, <1>4, FS_Injection
<1> QED BY <1>1, <1>2, <1>5 DEF Surjection

\* Requests of calls that were not asked for yet are written in some order.
LEMMA SentInOrder ==
    ASSUME NEW box, InOrder(box), NEW cs \in SUBSET Calls, NEW order \in SetToSeqs(cs),
           \A c \in cs : ~Holds(box, Request(c)) /\ ~Holds(box, Cancel(c))
    PROVE  LET new == box \o [i \in DOMAIN order |-> Request(order[i])]
           IN  /\ InOrder(new)
               /\ \A c \in cs : Holds(new, Request(c))
               /\ \A y : Holds(box, y) => Holds(new, y)
               /\ \A y : Holds(new, y) => Holds(box, y) \/ \E c \in cs : y = Request(c)
<1> DEFINE more == [i \in DOMAIN order |-> Request(order[i])]
           new == box \o more
           n == Len(box)
           m == Len(order)
<1>1. IsFiniteSet(cs)
  BY CliAssumption, FS_Subset
<1>2. /\ order \in Seq(cs) /\ \A i, j \in DOMAIN order : i # j => order[i] # order[j]
      /\ \A c \in cs : \E i \in DOMAIN order : order[i] = c
  BY <1>1, OrderCovers
<1>3. more \in Seq(Msgs) /\ Len(more) = m /\ DOMAIN order = 1..m /\ m \in Nat
  BY <1>2, MsgFacts
<1>4. box \in Seq(Msgs) /\ n \in Nat /\ DOMAIN box = 1..n
  BY DEF InOrder
<1>5. /\ new \in Seq(Msgs) /\ DOMAIN new = 1..(n + m)
      /\ \A i \in 1..n : new[i] = box[i]
      /\ \A i \in 1..m : new[n + i] = more[i]
  <2> HIDE DEF more
  <2> QED BY <1>3, <1>4
<1>6. \A i \in 1..m : more[i] = Request(order[i])
  BY <1>3
<1> HIDE DEF more, new
<1>7. \A i \in 1..(n + m) : \/ i \in 1..n /\ new[i] = box[i]
                            \/ /\ i - n \in 1..m /\ new[i] = Request(order[i - n])
                               /\ order[i - n] \in cs
  <2> SUFFICES ASSUME NEW i \in 1..(n + m), i \notin 1..n
               PROVE  /\ i - n \in 1..m /\ new[i] = Request(order[i - n])
                      /\ order[i - n] \in cs
    BY <1>5
  <2>1. i - n \in 1..m /\ n + (i - n) = i
    BY <1>3, <1>4
  <2>2. new[i] = more[i - n]
    BY <1>5, <2>1
  <2>3. more[i - n] = Request(order[i - n])
    BY <1>6, <2>1
  <2>4. order[i - n] \in cs
    <3>1. i - n \in DOMAIN order
      BY <1>3, <2>1
    <3> QED BY <1>2, <3>1
  <2> QED BY <2>1, <2>2, <2>3, <2>4
<1>8. \A c \in cs : Holds(new, Request(c))
  <2> SUFFICES ASSUME NEW c \in cs PROVE \E i \in DOMAIN new : new[i] = Request(c)
    BY DEF Holds
  <2>1. PICK i \in 1..m : order[i] = c
    BY <1>2, <1>3
  <2>2. n + i \in 1..(n + m)
    BY <1>3, <1>4
  <2>3. new[n + i] = Request(c)
    BY <1>5, <1>6, <2>1
  <2> QED BY <1>5, <2>2, <2>3
<1>9. \A y : Holds(box, y) => Holds(new, y)
  <2> SUFFICES ASSUME NEW y, NEW i \in DOMAIN box, box[i] = y PROVE Holds(new, y)
    BY DEF Holds
  <2>1. i \in DOMAIN new /\ new[i] = y
    BY <1>3, <1>4, <1>5
  <2> QED BY <2>1 DEF Holds
<1>10. \A y : Holds(new, y) => Holds(box, y) \/ \E c \in cs : y = Request(c)
  BY <1>4, <1>5, <1>7 DEF Holds
<1>11. ASSUME NEW c \in Calls, NEW i \in DOMAIN new, NEW j \in DOMAIN new, new[i] = Request(c)
       PROVE  (new[j] = Request(c) => i = j) /\ (new[j] = Cancel(c) => i < j)
  <2>1. CASE c \in cs
    <3>1. \A l \in 1..n : new[l] # Request(c) /\ new[l] # Cancel(c)
      BY <1>4, <1>5, <2>1 DEF Holds
    <3>2. i - n \in 1..m /\ order[i - n] = c
      BY <1>5, <1>7, <1>11, <3>1, LineFacts
    <3>3. new[j] = Request(c) => j - n \in 1..m /\ order[j - n] = c
      BY <1>5, <1>7, <3>1, LineFacts
    <3>4. new[j] # Cancel(c)
      BY <1>5, <1>7, <3>1, LineFacts
    <3>5. new[j] = Request(c) => i - n = j - n
      BY <1>2, <1>3, <3>2, <3>3
    <3>6. i \in Int /\ j \in Int
      BY <1>3, <1>4, <1>5
    <3> QED BY <1>4, <3>4, <3>5, <3>6
  <2>2. CASE c \notin cs
    <3>1. \A l \in 1..(n + m) : new[l] = Request(c) \/ new[l] = Cancel(c) => l \in 1..n /\ new[l] = box[l]
      BY <1>7, <2>2, LineFacts
    <3>2. i \in DOMAIN box /\ box[i] = Request(c)
      BY <1>4, <1>5, <1>11, <3>1
    <3>3. new[j] = Request(c) => j \in DOMAIN box /\ box[j] = Request(c)
      BY <1>4, <1>5, <3>1
    <3>4. new[j] = Cancel(c) => j \in DOMAIN box /\ box[j] = Cancel(c)
      BY <1>4, <1>5, <3>1
    <3> QED BY <3>2, <3>3, <3>4 DEF InOrder
  <2> QED BY <2>1, <2>2
<1>12. InOrder(new)
  BY <1>5, <1>11 DEF InOrder
<1> QED BY <1>8, <1>9, <1>10, <1>12 DEF new, more
----------------------------------------------------------------------------
(* What keeps each part *)

\* The calls a CLI serves.
LEMMA ServedIs ==
    ASSUME ServeInv(activeTask, stage, server, loops), NEW k \in Children
    PROVE  /\ ServedBy(k) = {c \in Calls : server[c] = k}
           /\ \A c \in Calls : server[c] = k => stage[c] # "none"
           /\ NoChild \notin Children /\ NoCall \notin Calls
  BY CliAssumption DEF ServeInv, ServedBy, Stages

\* Boxes that only lost all their lines, and calls of which fewer are served.
LEMMA AskedLess ==
    ASSUME NEW in, NEW st, NEW where, AskedInv(in, st, where),
           NEW in1 \in [Children -> Seq(Msgs)], \A k \in Children : in1[k] = in[k] \/ in1[k] = <<>>,
           NEW st1, \A c \in Calls : st1[c] # "none" => st[c] # "none"
    PROVE  AskedInv(in1, st1, where)
<1>1. \A y : ~Holds(<<>>, y)
  BY DEF Holds
<1>2. InOrder(<<>>)
  BY DEF InOrder
<1>3. \A k \in Children : \A y : Holds(in1[k], y) => Holds(in[k], y)
  BY <1>1
<1>4. \A k \in Children : InOrder(in1[k])
  BY <1>2 DEF AskedInv
<1> QED BY <1>3, <1>4 DEF AskedInv

\* One line was taken: when it is a request, that call has no other.
LEMMA AskedTaken ==
    ASSUME NEW in, NEW st, NEW where, AskedInv(in, st, where), NEW k \in Children, in[k] # <<>>,
           NEW in1, in1 = [in EXCEPT ![k] = Tail(@)]
    PROVE  /\ AskedInv(in1, st, where)
           /\ \A c \in Calls : Head(in[k]) = Request(c) =>
                st[c] = "none" /\ where[c] \in Settled /\ \A l \in Children : ~Holds(in1[l], Request(c))
<1> DEFINE tail == Tail(in[k])
<1>1. /\ in[k] \in Seq(Msgs) /\ InOrder(in[k]) /\ in \in [Children -> Seq(Msgs)]
  BY DEF AskedInv
<1>2. /\ tail \in Seq(Msgs) /\ InOrder(tail) /\ Holds(in[k], Head(in[k]))
      /\ \A y : Holds(tail, y) => Holds(in[k], y)
      /\ \A c \in Calls : Head(in[k]) = Request(c) => ~Holds(tail, Request(c))
  BY <1>1, TailFacts, HoldsTail, TakenInOrder
<1>3. in1 \in [Children -> Seq(Msgs)] /\ in1[k] = tail /\ \A l \in Children \ {k} : in1[l] = in[l]
  BY <1>1, <1>2
<1> HIDE DEF tail
<1>4. \A l \in Children : \A y : Holds(in1[l], y) => Holds(in[l], y)
  BY <1>2, <1>3
<1>5. \A l \in Children : InOrder(in1[l])
  BY <1>2, <1>3 DEF AskedInv
<1>6. ASSUME NEW c \in Calls, Head(in[k]) = Request(c)
      PROVE  /\ st[c] = "none" /\ where[c] \in Settled
             /\ \A l \in Children : ~Holds(in1[l], Request(c))
  <2>1. st[c] = "none" /\ where[c] \in Settled /\ \A l \in Children : Holds(in[l], Request(c)) => l = k
    BY <1>2, <1>6 DEF AskedInv
  <2> QED BY <1>2, <1>3, <1>4, <1>6, <2>1
<1>7. AskedInv(in1, st, where)
  <2>1. \A l \in Children, c \in Calls : Holds(in1[l], Request(c)) =>
            /\ st[c] = "none" /\ where[c] \in Settled
            /\ \A m \in Children : Holds(in1[m], Request(c)) => m = l
    BY <1>4 DEF AskedInv
  <2>2. \A l \in Children, c \in Calls : Holds(in1[l], Cancel(c)) => where[c] \in Settled
    BY <1>4 DEF AskedInv
  <2> QED BY <1>3, <1>5, <2>1, <2>2 DEF AskedInv
<1> QED BY <1>6, <1>7

\* A call that was asked for is served.
LEMMA AskedServed ==
    ASSUME NEW in, NEW st, NEW where, AskedInv(in, st, where), NEW c \in Calls,
           where[c] \in Settled, \A l \in Children : ~Holds(in[l], Request(c)),
           NEW st1, \A d \in Calls \ {c} : st1[d] = st[d]
    PROVE  AskedInv(in, st1, where)
<1>1. \A l \in Children, d \in Calls : Holds(in[l], Request(d)) => st1[d] = st[d]
  OBVIOUS
<1>2. \A d \in Calls : st1[d] # "none" => where[d] \in Settled
  BY DEF AskedInv
<1> QED BY <1>1, <1>2 DEF AskedInv

\* A cancellation or a shutdown was written.
Adds(m, where) == m = Shutdown \/ \E c \in Calls : m = Cancel(c) /\ where[c] \in Settled

LEMMA AskedPut ==
    ASSUME NEW in, NEW st, NEW where, AskedInv(in, st, where), NEW k \in Children,
           NEW m \in Msgs,
           Adds(m, where),
           NEW in1, in1 = Put(in, k, m)
    PROVE  /\ AskedInv(in1, st, where)
           /\ \A l \in Children : \A y : Holds(in1[l], y) <=> Holds(in[l], y) \/ (l = k /\ y = m)
<1>1. in \in [Children -> Seq(Msgs)] /\ InOrder(in[k]) /\ in[k] \in Seq(Msgs)
  BY DEF AskedInv
<1>2. InOrder(Append(in[k], m)) /\ Append(in[k], m) \in Seq(Msgs)
  BY <1>1, PutInOrder, HoldsAppend DEF Adds
<1>3. /\ in1 \in [Children -> Seq(Msgs)] /\ in1[k] = Append(in[k], m)
      /\ \A l \in Children \ {k} : in1[l] = in[l]
  BY <1>1, <1>2 DEF Put
<1>4. \A l \in Children : \A y : Holds(in1[l], y) <=> Holds(in[l], y) \/ (l = k /\ y = m)
  <2> DEFINE box == Append(in[k], m)
  <2>1. \A y : Holds(box, y) <=> Holds(in[k], y) \/ y = m
    BY <1>1, HoldsAppend
  <2> HIDE DEF box
  <2> QED BY <1>3, <2>1 DEF box
<1>5. \A l \in Children, c \in Calls : Holds(in1[l], Request(c)) => Holds(in[l], Request(c))
  BY <1>4, LineFacts DEF Adds
<1>6. \A l \in Children, c \in Calls : Holds(in1[l], Cancel(c)) => where[c] \in Settled
  BY <1>4, LineFacts DEF AskedInv, Adds
<1>7. \A l \in Children : InOrder(in1[l])
  BY <1>2, <1>3 DEF AskedInv
<1> QED BY <1>3, <1>4, <1>5, <1>6, <1>7 DEF AskedInv

\* The callers moved on.
LEMMA AskedMoved ==
    ASSUME NEW in, NEW st, NEW where, AskedInv(in, st, where), NEW where1,
           \A c \in Calls : where[c] \in Settled => where1[c] \in Settled
    PROVE  AskedInv(in, st, where1)
  BY DEF AskedInv

\* A CLI boots or is about to end.
LEMMA SentLives ==
    ASSUME NEW own, NEW life, NEW reads, NEW where, NEW to, SentInv(own, life, reads, where, to),
           NEW k \in Children, life[k] \in {"booting", "up"}, NEW state \in {"up", "dying"},
           NEW life1, life1 = [life EXCEPT ![k] = state]
    PROVE  SentInv(own, life1, reads, where, to)
<1>1. /\ life1 \in [Children -> Living \cup {"unborn", "dead"}]
      /\ life1[k] = state /\ \A l \in Children \ {k} : life1[l] = life[l]
  BY DEF SentInv, Living
<1>2. \A l \in Children : HeardInv(l, life, reads) => HeardInv(l, life1, reads)
  BY <1>1 DEF HeardInv, Living
<1> QED BY <1>1, <1>2 DEF SentInv

\* A step of the CLIs, after which whoever was underway still is.
LEMMA AccountKeeps ==
    ASSUME NEW where, NEW to \in [Calls -> Children \cup {NoChild}],
           NEW life, NEW in, NEW st, NEW srv, NEW out,
           AccountInv(where, to, life, in, st, srv, out),
           NEW life1, NEW in1, NEW st1, NEW srv1, NEW out1,
           \A c \in Calls : where[c] = "sent" /\ life1[to[c]] # "dying" =>
                /\ life[to[c]] # "dying"
                /\ Underway(c, to[c], in, st, srv, out) => Underway(c, to[c], in1, st1, srv1, out1)
    PROVE  AccountInv(where, to, life1, in1, st1, srv1, out1)
  BY DEF AccountInv
----------------------------------------------------------------------------
(* Steps of the CLIs *)

\* A step the manager has no part in.
LEMMA CliKeeps ==
    ASSUME BridgeInv, UNCHANGED managerVars,
           ServeInv(activeTask', stage', server', loops'), AskedInv(inbox', stage', pc),
           SentInv(child, alive', listening, pc, sentTo),
           AccountInv(pc, sentTo, alive', inbox', stage', server', outbox'),
           StopInv(pc, sentTo, cancelTo, inbox', stage', server', signalled'),
           outbox' \in [Children -> Seq(Lines)]
    PROVE  BridgeInv'
  BY DEF BridgeInv, managerVars, In

LEMMA BridgeFacts ==
    ASSUME BridgeInv
    PROVE  /\ ServeInv(activeTask, stage, server, loops) /\ AskedInv(inbox, stage, pc)
           /\ SentInv(child, alive, listening, pc, sentTo)
           /\ AccountInv(pc, sentTo, alive, inbox, stage, server, outbox)
           /\ StopInv(pc, sentTo, cancelTo, inbox, stage, server, signalled)
           /\ outbox \in [Children -> Seq(Lines)] /\ inbox \in [Children -> Seq(Msgs)]
           /\ alive \in [Children -> Living \cup {"unborn", "dead"}]
           /\ stage \in [Calls -> Stages] /\ server \in [Calls -> Children \cup {NoChild}]
           /\ sentTo \in [Calls -> Children \cup {NoChild}] /\ pc \in [Callers -> Places]
           /\ activeTask \in [Children -> Calls \cup {NoCall}] /\ loops \in [Children -> SUBSET Tasks]
           /\ Calls \subseteq Callers
  BY DEF BridgeInv, ServeInv, AskedInv, SentInv, Callers

\* An answer in the stdout of k.
LEMMA AnswerWritten ==
    ASSUME BridgeInv, NEW k \in Children, NEW c \in Calls, Answer(k, c)
    PROVE  /\ outbox' \in [Children -> Seq(Lines)] /\ Holds(outbox'[k], Reply(c))
           /\ \A l \in Children : \A y : Holds(outbox[l], y) => Holds(outbox'[l], y)
<1> DEFINE box == Append(outbox[k], Reply(c))
<1>1. Reply(c) \in Lines /\ outbox[k] \in Seq(Lines)
  BY BridgeFacts DEF Reply, Lines
<1>2. box \in Seq(Lines) /\ \A y : Holds(box, y) <=> Holds(outbox[k], y) \/ y = Reply(c)
  BY <1>1, HoldsAppend
<1>3. outbox' = [outbox EXCEPT ![k] = box]
  BY DEF Answer, Put
<1> HIDE DEF box
<1> QED BY <1>2, <1>3, BridgeFacts

LEMMA AnswerKeeps ==
    ASSUME BridgeInv, NEW k \in Children, NEW c \in Calls, Answer(k, c), server[c] \in {k, NoChild},
           AskedInv(inbox', stage', pc), UNCHANGED <<managerVars, alive>>,
           \A l \in Children : \A y : Holds(inbox'[l], y) => Holds(inbox[l], y),
           \A l \in Children : \A y : Holds(inbox[l], y) =>
                Holds(inbox'[l], y) \/ (l = k /\ y = Request(c)),
           loops' \in [Children -> SUBSET Tasks]
    PROVE  BridgeInv'
<1>1. /\ stage' = [stage EXCEPT ![c] = "none"] /\ server' = [server EXCEPT ![c] = NoChild]
      /\ signalled' = signalled \ {c}
      /\ activeTask' = [activeTask EXCEPT ![k] = IF activeTask[k] = c THEN NoCall ELSE activeTask[k]]
      /\ NoChild \notin Children /\ NoCall \notin Calls
  BY CliAssumption DEF Answer, Freed
<1>2. ServeInv(activeTask', stage', server', loops')
  <2>1. /\ activeTask' \in [Children -> Calls \cup {NoCall}] /\ stage' \in [Calls -> Stages]
        /\ server' \in [Calls -> Children \cup {NoChild}]
    BY <1>1, BridgeFacts DEF Stages
  <2>2. \A d \in Calls : /\ d # c => stage'[d] = stage[d] /\ server'[d] = server[d]
                         /\ d = c => stage'[d] = "none" /\ server'[d] = NoChild
    BY <1>1, BridgeFacts
  <2>3. \A l \in Children : activeTask'[l] = activeTask[l] \/ (l = k /\ activeTask[k] = c /\ activeTask'[l] = NoCall)
    BY <1>1, BridgeFacts
  <2>4. \A d \in Calls : (stage'[d] = "none") <=> (server'[d] = NoChild)
    BY <2>2, BridgeFacts DEF ServeInv
  <2>5. ASSUME NEW d \in Tasks, stage'[d] # "none" PROVE activeTask'[server'[d]] = d
    <3>1. d \in Calls /\ d # c
      BY <2>2, <2>5 DEF Tasks
    <3>2. activeTask[server[d]] = d /\ server[d] \in Children
      BY <2>2, <2>5, <3>1, BridgeFacts DEF ServeInv
    <3> QED BY <2>2, <2>3, <3>1, <3>2
  <2>6. ASSUME NEW l \in Children, activeTask'[l] # NoCall
        PROVE  activeTask'[l] \in Tasks /\ server'[activeTask'[l]] = l
    <3>1. activeTask'[l] = activeTask[l] /\ (l = k => activeTask[l] # c)
      BY <1>1, <2>3, <2>6, BridgeFacts
    <3>2. activeTask[l] \in Tasks /\ server[activeTask[l]] = l
      BY <2>6, <3>1, BridgeFacts DEF ServeInv
    <3>3. activeTask[l] # c
      BY <1>1, <3>1, <3>2
    <3> QED BY <2>2, <3>1, <3>2, <3>3 DEF Tasks
  <2> QED BY <2>1, <2>4, <2>5, <2>6 DEF ServeInv
<1>3. SentInv(child, alive', listening, pc, sentTo)
  BY BridgeFacts
<1>4. AccountInv(pc, sentTo, alive', inbox', stage', server', outbox')
  <2> SUFFICES ASSUME NEW d \in Calls, pc[d] = "sent", alive[sentTo[d]] # "dying",
                      Underway(d, sentTo[d], inbox, stage, server, outbox)
               PROVE  Underway(d, sentTo[d], inbox', stage', server', outbox')
    BY BridgeFacts, AccountKeeps
  <2>1. sentTo[d] \in Children
    BY BridgeFacts DEF SentInv
  <2>2. CASE d = c /\ sentTo[d] = k
    BY <2>2, AnswerWritten DEF Underway
  <2>3. CASE d = c /\ sentTo[d] # k
    <3>1. server[d] # sentTo[d]
      BY <1>1, <2>1, <2>3
    <3> QED BY <2>1, <2>3, <3>1, AnswerWritten, LineFacts DEF Underway
  <2>4. CASE d # c
    <3>1. stage'[d] = stage[d] /\ server'[d] = server[d]
      BY <1>1, <2>4, BridgeFacts
    <3>2. Request(d) # Request(c) /\ Shutdown # Request(c)
      BY <2>4, LineFacts
    <3>3. /\ Holds(inbox[sentTo[d]], Request(d)) => Holds(inbox'[sentTo[d]], Request(d))
          /\ Holds(inbox[sentTo[d]], Shutdown) => Holds(inbox'[sentTo[d]], Shutdown)
      BY <2>1, <3>2
    <3>4. Holds(outbox[sentTo[d]], Reply(d)) => Holds(outbox'[sentTo[d]], Reply(d))
      BY <2>1, AnswerWritten
    <3> QED BY <3>1, <3>3, <3>4 DEF Underway
  <2> QED BY <2>2, <2>3, <2>4
<1>5. StopInv(pc, sentTo, cancelTo, inbox', stage', server', signalled')
  <2>1. ASSUME NEW d \in Calls, cancelTo[d] # NoChild, cancelTo[d] = sentTo[d]
        PROVE  /\ Holds(inbox'[sentTo[d]], Request(d)) => Holds(inbox'[sentTo[d]], Cancel(d))
               /\ server'[d] = sentTo[d] => d \in signalled' \/ Holds(inbox'[sentTo[d]], Cancel(d))
    <3>1. sentTo[d] \in Children
      BY <2>1, BridgeFacts DEF StopInv
    <3>2. /\ Holds(inbox[sentTo[d]], Request(d)) => Holds(inbox[sentTo[d]], Cancel(d))
          /\ server[d] = sentTo[d] => d \in signalled \/ Holds(inbox[sentTo[d]], Cancel(d))
      BY <2>1, BridgeFacts DEF StopInv
    <3>3. Holds(inbox[sentTo[d]], Cancel(d)) => Holds(inbox'[sentTo[d]], Cancel(d))
      BY <3>1, LineFacts
    <3>4. server'[d] = sentTo[d] => d # c /\ server[d] = sentTo[d]
      BY <1>1, <3>1, BridgeFacts
    <3> QED BY <1>1, <3>1, <3>2, <3>3, <3>4
  <2> QED BY <2>1, BridgeFacts DEF StopInv
<1> QED BY <1>2, <1>3, <1>4, <1>5, AnswerWritten, CliKeeps

\* A line k has handled, and what else waits in the boxes then.
LEMMA TakenFacts ==
    ASSUME BridgeInv, NEW k \in Children, inbox[k] # <<>>, Taken(k)
    PROVE  /\ inbox' = [inbox EXCEPT ![k] = Tail(inbox[k])] /\ inbox' \in [Children -> Seq(Msgs)]
           /\ Line(k) \in Msgs /\ Line(k) = Head(inbox[k]) /\ Holds(inbox[k], Line(k))
           /\ \A c \in Calls : Line(k) = Cancel(c) => ~Holds(inbox[k], Request(c))
           /\ \A l \in Children : \A y : Holds(inbox'[l], y) => Holds(inbox[l], y)
           /\ \A l \in Children : \A y : Holds(inbox[l], y) =>
                Holds(inbox'[l], y) \/ (l = k /\ y = Line(k))
<1> DEFINE tail == Tail(inbox[k])
<1>1. inbox[k] \in Seq(Msgs) /\ InOrder(inbox[k]) /\ inbox' = [inbox EXCEPT ![k] = tail]
  BY BridgeFacts DEF Taken, AskedInv
<1>2. /\ tail \in Seq(Msgs) /\ Line(k) \in Msgs /\ Holds(inbox[k], Line(k))
      /\ \A y : Holds(tail, y) => Holds(inbox[k], y)
      /\ \A y : Holds(inbox[k], y) /\ y # Line(k) => Holds(tail, y)
      /\ \A c \in Calls : Line(k) = Cancel(c) => ~Holds(inbox[k], Request(c))
  BY <1>1, TailFacts, HoldsTail, TakenInOrder DEF Line
<1> HIDE DEF tail
<1>3. inbox' \in [Children -> Seq(Msgs)]
  BY <1>1, <1>2, BridgeFacts
<1>4. inbox'[k] = tail /\ \A l \in Children \ {k} : inbox'[l] = inbox[l]
  BY <1>1, BridgeFacts
<1> QED BY <1>1, <1>2, <1>3, <1>4 DEF tail, Line

LEMMA TakeRequestKeeps ==
    ASSUME BridgeInv, NEW k \in Children, TakeRequest(k), UNCHANGED managerVars
    PROVE  BridgeInv'
<1> DEFINE c == Line(k).call
<1>1. inbox[k] # <<>> /\ Taken(k) /\ Line(k).type = "request" /\ UNCHANGED <<alive, loops>>
  BY DEF TakeRequest, Has, gatewayVars
<1>2. c \in Calls /\ Line(k) = Request(c)
  BY <1>1, TakenFacts, MsgFacts
<1>3. IF Busy(k, c) THEN Answer(k, c)
      ELSE /\ stage' = [stage EXCEPT ![c] = "health"] /\ server' = [server EXCEPT ![c] = k]
           /\ activeTask' = [activeTask EXCEPT ![k] = IF KindOf[c] = "task" THEN c ELSE activeTask[k]]
           /\ UNCHANGED <<outbox, signalled>>
  BY DEF TakeRequest
<1> HIDE DEF c
<1>4. \A d \in Calls \ {c} : stage'[d] = stage[d]
  BY <1>3, BridgeFacts DEF Answer
<1>5. /\ AskedInv(inbox', stage', pc) /\ stage[c] = "none" /\ pc[c] \in Settled
      /\ \A l \in Children : ~Holds(inbox'[l], Request(c))
  <2>1. inbox' = [inbox EXCEPT ![k] = Tail(inbox[k])] /\ Line(k) = Head(inbox[k])
    BY <1>1, TakenFacts
  <2>2. AskedInv(inbox, stage, pc)
    BY BridgeFacts
  <2>3. AskedInv(inbox', stage, pc)
    BY <1>1, <2>1, <2>2, AskedTaken
  <2>4. /\ stage[c] = "none" /\ pc[c] \in Settled
        /\ \A l \in Children : ~Holds(inbox'[l], Request(c))
    <3>1. inbox[k] # <<>> /\ Head(inbox[k]) = Request(c)
      BY <1>1, <1>2, <2>1
    <3>2. \A d \in Calls : Head(inbox[k]) = Request(d) =>
            stage[d] = "none" /\ pc[d] \in Settled /\ \A l \in Children : ~Holds(inbox'[l], Request(d))
      BY ZenonT(30), <2>1, <2>2, <3>1, AskedTaken
    <3> QED BY <1>2, <3>1, <3>2
  <2> QED BY <1>2, <1>4, <2>3, <2>4, AskedServed
<1>6. server[c] = NoChild
  BY <1>2, <1>5, BridgeFacts DEF ServeInv
<1>7. CASE Busy(k, c)
  <2>1. Answer(k, c)
    BY <1>3, <1>7
  <2>2. /\ \A l \in Children : \A y : Holds(inbox'[l], y) => Holds(inbox[l], y)
        /\ \A l \in Children : \A y : Holds(inbox[l], y) =>
              Holds(inbox'[l], y) \/ (l = k /\ y = Request(c))
    BY <1>1, <1>2, TakenFacts
  <2>3. AskedInv(inbox', stage', pc) /\ UNCHANGED <<managerVars, alive>> /\ server[c] \in {k, NoChild}
    BY <1>1, <1>5, <1>6
  <2>4. loops' \in [Children -> SUBSET Tasks]
    BY <1>1, BridgeFacts
  <2> QED BY <1>2, <2>1, <2>2, <2>3, <2>4, AnswerKeeps
<1>8. CASE ~Busy(k, c)
  <2>1. /\ stage' = [stage EXCEPT ![c] = "health"] /\ server' = [server EXCEPT ![c] = k]
        /\ activeTask' = [activeTask EXCEPT ![k] = IF KindOf[c] = "task" THEN c ELSE activeTask[k]]
        /\ UNCHANGED <<outbox, signalled>>
        /\ c \in Tasks => activeTask[k] = NoCall
        /\ NoChild \notin Children /\ NoCall \notin Calls
    BY <1>3, <1>8, CliAssumption DEF Busy, Tasks
  <2>2. /\ activeTask' \in [Children -> Calls \cup {NoCall}] /\ stage' \in [Calls -> Stages]
        /\ server' \in [Calls -> Children \cup {NoChild}]
    BY <1>2, <2>1, BridgeFacts DEF Stages
  <2>3. /\ stage'[c] = "health" /\ server'[c] = k
        /\ \A d \in Calls \ {c} : stage'[d] = stage[d] /\ server'[d] = server[d]
        /\ activeTask'[k] = IF c \in Tasks THEN c ELSE activeTask[k]
        /\ \A l \in Children \ {k} : activeTask'[l] = activeTask[l]
    BY <1>2, <2>1, BridgeFacts DEF Tasks
  <2>4. ServeInv(activeTask', stage', server', loops')
    <3>1. \A d \in Calls : (stage'[d] = "none") <=> (server'[d] = NoChild)
      BY <2>1, <2>3, BridgeFacts DEF ServeInv
    <3>2. ASSUME NEW d \in Tasks, stage'[d] # "none" PROVE activeTask'[server'[d]] = d
      <4>1. CASE d = c
        BY <2>3, <3>2, <4>1
      <4>2. CASE d # c
        <5>1. d \in Calls /\ activeTask[server[d]] = d /\ server[d] \in Children /\ server'[d] = server[d]
          BY <2>3, <3>2, <4>2, BridgeFacts DEF ServeInv, Tasks
        <5>2. server[d] = k => c \notin Tasks
          BY <2>1, <5>1
        <5> QED BY <2>3, <5>1, <5>2
      <4> QED BY <4>1, <4>2
    <3>3. ASSUME NEW l \in Children, activeTask'[l] # NoCall
          PROVE  activeTask'[l] \in Tasks /\ server'[activeTask'[l]] = l
      <4>1. CASE l = k /\ c \in Tasks
        BY <2>3, <4>1
      <4>2. CASE ~(l = k /\ c \in Tasks)
        <5>1. activeTask'[l] = activeTask[l]
          BY <2>3, <4>2
        <5>2. activeTask[l] \in Tasks /\ server[activeTask[l]] = l
          BY <3>3, <5>1, BridgeFacts DEF ServeInv
        <5>3. activeTask[l] # c /\ activeTask[l] \in Calls
          BY <1>6, <2>1, <5>2 DEF Tasks
        <5> QED BY <2>3, <5>1, <5>2, <5>3
      <4> QED BY <4>1, <4>2
    <3> QED BY <1>1, <2>2, <3>1, <3>2, <3>3, BridgeFacts DEF ServeInv
  <2>5. AccountInv(pc, sentTo, alive', inbox', stage', server', outbox')
    <3> SUFFICES ASSUME NEW d \in Calls, pc[d] = "sent", alive[sentTo[d]] # "dying",
                        Underway(d, sentTo[d], inbox, stage, server, outbox)
                 PROVE  Underway(d, sentTo[d], inbox', stage', server', outbox')
      BY <1>1, BridgeFacts, AccountKeeps
    <3>1. sentTo[d] \in Children
      BY BridgeFacts DEF SentInv
    <3>2. CASE d = c
      <4>1. ASSUME Holds(inbox[sentTo[d]], Request(d)) PROVE sentTo[d] = k
        BY <1>1, <1>2, <3>1, <3>2, <4>1, TakenFacts, BridgeFacts DEF AskedInv
      <4>2. ~(server[d] = sentTo[d])
        BY <1>6, <2>1, <3>1, <3>2
      <4>3. Holds(inbox[sentTo[d]], Shutdown) => Holds(inbox'[sentTo[d]], Shutdown)
        BY <1>1, <1>2, <3>1, LineFacts, TakenFacts
      <4> QED BY <2>1, <2>3, <3>2, <4>1, <4>2, <4>3 DEF Underway
    <3>3. CASE d # c
      <4>1. Line(k) # Request(d) /\ Line(k) # Shutdown
        BY <1>2, <3>3, LineFacts
      <4>2. /\ Holds(inbox[sentTo[d]], Request(d)) => Holds(inbox'[sentTo[d]], Request(d))
            /\ Holds(inbox[sentTo[d]], Shutdown) => Holds(inbox'[sentTo[d]], Shutdown)
        BY <1>1, <3>1, <4>1, TakenFacts
      <4> QED BY <2>1, <2>3, <3>3, <4>2 DEF Underway
    <3> QED BY <3>2, <3>3
  <2>6. StopInv(pc, sentTo, cancelTo, inbox', stage', server', signalled')
    <3>1. ASSUME NEW d \in Calls, cancelTo[d] # NoChild, cancelTo[d] = sentTo[d]
          PROVE  /\ Holds(inbox'[sentTo[d]], Request(d)) => Holds(inbox'[sentTo[d]], Cancel(d))
                 /\ server'[d] = sentTo[d] => d \in signalled \/ Holds(inbox'[sentTo[d]], Cancel(d))
      <4>1. sentTo[d] \in Children
        BY <3>1, BridgeFacts DEF StopInv
      <4>2. /\ Holds(inbox[sentTo[d]], Request(d)) => Holds(inbox[sentTo[d]], Cancel(d))
            /\ server[d] = sentTo[d] => d \in signalled \/ Holds(inbox[sentTo[d]], Cancel(d))
        BY <3>1, BridgeFacts DEF StopInv
      <4>3. Holds(inbox[sentTo[d]], Cancel(d)) => Holds(inbox'[sentTo[d]], Cancel(d))
        <5>1. Line(k) # Cancel(d)
          BY <1>2, LineFacts
        <5> QED BY <1>1, <4>1, <5>1, TakenFacts
      <4>4. Holds(inbox'[sentTo[d]], Request(d)) => Holds(inbox[sentTo[d]], Request(d))
        BY <1>1, <4>1, TakenFacts
      <4>5. d # c => server'[d] = server[d]
        BY <2>3
      <4>6. d = c /\ server'[d] = sentTo[d] => Holds(inbox[sentTo[d]], Request(d))
        BY <1>1, <1>2, <2>3, TakenFacts
      <4> QED BY <4>2, <4>3, <4>4, <4>5, <4>6
    <3> QED BY <2>1, <3>1, BridgeFacts DEF StopInv
  <2> QED BY <1>1, <1>5, <2>1, <2>4, <2>5, <2>6, BridgeFacts, CliKeeps
<1> QED BY <1>7, <1>8

LEMMA TakeCancelKeeps ==
    ASSUME BridgeInv, NEW k \in Children, TakeCancel(k), UNCHANGED managerVars
    PROVE  BridgeInv'
<1> DEFINE c == Line(k).call
<1>1. /\ inbox[k] # <<>> /\ Taken(k) /\ Line(k).type = "cancel"
      /\ UNCHANGED <<alive, outbox, activeTask, stage, server, loops>>
      /\ signalled' = signalled \cup ({c} \cap Cancellable(k))
  BY DEF TakeCancel, Has, gatewayVars
<1>2. c \in Calls /\ Line(k) = Cancel(c)
  BY <1>1, TakenFacts, MsgFacts
<1> HIDE DEF c
<1>3. AskedInv(inbox', stage', pc)
  <2>1. inbox' = [inbox EXCEPT ![k] = Tail(inbox[k])]
    BY <1>1, TakenFacts
  <2>2. AskedInv(inbox, stage, pc) /\ UNCHANGED stage
    BY <1>1, BridgeFacts
  <2> QED BY <1>1, <2>1, <2>2, AskedTaken
<1>4. AccountInv(pc, sentTo, alive', inbox', stage', server', outbox')
  <2>1. \A d \in Calls, l \in Children :
            /\ Holds(inbox[l], Request(d)) => Holds(inbox'[l], Request(d))
            /\ Holds(inbox[l], Shutdown) => Holds(inbox'[l], Shutdown)
    BY <1>1, <1>2, LineFacts, TakenFacts
  <2>2. \A d \in Calls, l \in Children :
            Underway(d, l, inbox, stage, server, outbox) => Underway(d, l, inbox', stage', server', outbox')
    BY <1>1, <2>1 DEF Underway
  <2>3. \A d \in Calls : pc[d] = "sent" => sentTo[d] \in Children
    BY BridgeFacts DEF SentInv
  <2> QED BY <1>1, <2>2, <2>3, BridgeFacts, AccountKeeps
<1>5. StopInv(pc, sentTo, cancelTo, inbox', stage', server', signalled')
  <2>1. ASSUME NEW d \in Calls, cancelTo[d] # NoChild, cancelTo[d] = sentTo[d]
        PROVE  /\ Holds(inbox'[sentTo[d]], Request(d)) => Holds(inbox'[sentTo[d]], Cancel(d))
               /\ server[d] = sentTo[d] => d \in signalled' \/ Holds(inbox'[sentTo[d]], Cancel(d))
    <3>1. sentTo[d] \in Children /\ d \in Tasks
      BY <2>1, BridgeFacts DEF StopInv
    <3>2. /\ Holds(inbox[sentTo[d]], Request(d)) => Holds(inbox[sentTo[d]], Cancel(d))
          /\ server[d] = sentTo[d] => d \in signalled \/ Holds(inbox[sentTo[d]], Cancel(d))
      BY <2>1, BridgeFacts DEF StopInv
    <3>3. Holds(inbox[sentTo[d]], Cancel(d)) =>
            Holds(inbox'[sentTo[d]], Cancel(d)) \/ (sentTo[d] = k /\ d = c)
      <4>1. Line(k) = Cancel(d) => d = c
        BY <1>2, LineFacts
      <4> QED BY <1>1, <3>1, <4>1, TakenFacts
    <3>4. Holds(inbox'[sentTo[d]], Request(d)) => Holds(inbox[sentTo[d]], Request(d))
      BY <1>1, <3>1, TakenFacts
    <3>5. d = c /\ sentTo[d] = k => ~Holds(inbox[sentTo[d]], Request(d))
      BY <1>1, <1>2, TakenFacts
    <3>6. d = c /\ sentTo[d] = k /\ server[d] = k => d \in signalled'
      <4>1. server[d] = k => d \in ServedBy(k)
        BY BridgeFacts, ServedIs
      <4> QED BY <1>1, <3>1, <4>1 DEF Cancellable, Tasks
    <3>7. signalled \subseteq signalled'
      BY <1>1
    <3> QED BY <3>2, <3>3, <3>4, <3>5, <3>6, <3>7
  <2> QED BY <1>1, <2>1, BridgeFacts DEF StopInv
<1> QED BY <1>1, <1>3, <1>4, <1>5, BridgeFacts, CliKeeps

\* A CLI ends: its stdin is lost and what it served is forgotten.
LEMMA EndsFacts ==
    ASSUME BridgeInv, NEW k \in Children, alive[k] \in {"booting", "up"}, Ends(k),
           loops' \in [Children -> SUBSET Tasks], UNCHANGED outbox
    PROVE  /\ ServeInv(activeTask', stage', server', loops')
           /\ AskedInv(inbox', stage', pc)
           /\ SentInv(child, alive', listening, pc, sentTo)
           /\ AccountInv(pc, sentTo, alive', inbox', stage', server', outbox')
           /\ StopInv(pc, sentTo, cancelTo, inbox', stage', server', signalled')
           /\ signalled' \subseteq signalled
<1>1. /\ alive' = [alive EXCEPT ![k] = "dying"] /\ inbox' = [inbox EXCEPT ![k] = <<>>]
      /\ activeTask' = [activeTask EXCEPT ![k] = NoCall]
      /\ stage' = [c \in Calls |-> IF server[c] = k THEN "none" ELSE stage[c]]
      /\ server' = [c \in Calls |-> IF server[c] = k THEN NoChild ELSE server[c]]
      /\ signalled' = signalled \ {c \in Calls : server[c] = k}
      /\ NoChild \notin Children /\ NoCall \notin Calls
  <2>1. /\ ServedBy(k) = {c \in Calls : server[c] = k}
        /\ NoChild \notin Children /\ NoCall \notin Calls
    BY BridgeFacts, ServedIs
  <2> QED BY <2>1 DEF Ends, Forgotten
<1>2. /\ activeTask' \in [Children -> Calls \cup {NoCall}] /\ stage' \in [Calls -> Stages]
      /\ server' \in [Calls -> Children \cup {NoChild}]
  BY <1>1, BridgeFacts DEF Stages
<1>3. /\ \A c \in Calls : server[c] = k => stage'[c] = "none" /\ server'[c] = NoChild
      /\ \A c \in Calls : server[c] # k => stage'[c] = stage[c] /\ server'[c] = server[c]
      /\ activeTask'[k] = NoCall /\ \A l \in Children \ {k} : activeTask'[l] = activeTask[l]
      /\ alive'[k] = "dying" /\ \A l \in Children \ {k} : alive'[l] = alive[l]
      /\ inbox'[k] = <<>> /\ \A l \in Children \ {k} : inbox'[l] = inbox[l]
  BY <1>1, BridgeFacts
<1>4. ServeInv(activeTask', stage', server', loops')
  <2>1. \A c \in Calls : (stage'[c] = "none") <=> (server'[c] = NoChild)
    BY <1>3, BridgeFacts DEF ServeInv
  <2>2. ASSUME NEW c \in Tasks, stage'[c] # "none" PROVE activeTask'[server'[c]] = c
    <3>1. c \in Calls /\ server[c] # k /\ stage'[c] = stage[c] /\ server'[c] = server[c]
      BY <1>3, <2>2 DEF Tasks
    <3>2. activeTask[server[c]] = c /\ server[c] \in Children
      BY <2>2, <3>1, BridgeFacts DEF ServeInv
    <3> QED BY <1>3, <3>1, <3>2
  <2>3. ASSUME NEW l \in Children, activeTask'[l] # NoCall
        PROVE  activeTask'[l] \in Tasks /\ server'[activeTask'[l]] = l
    <3>1. l # k /\ activeTask'[l] = activeTask[l]
      BY <1>3, <2>3
    <3>2. activeTask[l] \in Tasks /\ server[activeTask[l]] = l
      BY <2>3, <3>1, BridgeFacts DEF ServeInv
    <3> QED BY <1>3, <3>1, <3>2 DEF Tasks
  <2> QED BY <1>2, <2>1, <2>2, <2>3 DEF ServeInv
<1>5. AskedInv(inbox', stage', pc)
  <2>1. inbox' \in [Children -> Seq(Msgs)] /\ \A l \in Children : inbox'[l] = inbox[l] \/ inbox'[l] = <<>>
    BY <1>1, <1>3, BridgeFacts
  <2>2. \A c \in Calls : stage'[c] # "none" => stage[c] # "none"
    BY <1>3
  <2>3. AskedInv(inbox, stage, pc)
    BY BridgeFacts
  <2> QED BY <2>1, <2>2, <2>3, AskedLess
<1>6. SentInv(child, alive', listening, pc, sentTo)
  BY <1>1, SentLives, BridgeFacts
<1>7. AccountInv(pc, sentTo, alive', inbox', stage', server', outbox')
  <2> SUFFICES ASSUME NEW c \in Calls, pc[c] = "sent", alive'[sentTo[c]] # "dying"
               PROVE  Underway(c, sentTo[c], inbox', stage', server', outbox')
    BY DEF AccountInv
  <2>1. sentTo[c] \in Children /\ sentTo[c] # k
    BY <1>3, BridgeFacts DEF SentInv
  <2>2. server[c] = sentTo[c] => server'[c] = server[c] /\ stage'[c] = stage[c]
    BY <1>3, <2>1
  <2>3. Underway(c, sentTo[c], inbox, stage, server, outbox)
    <3>1. alive[sentTo[c]] # "dying"
      BY <1>3, <2>1
    <3> QED BY <3>1, BridgeFacts DEF AccountInv
  <2> QED BY <1>3, <2>1, <2>2, <2>3 DEF Underway
<1>8. StopInv(pc, sentTo, cancelTo, inbox', stage', server', signalled')
  <2>1. ASSUME NEW c \in Calls, cancelTo[c] # NoChild, cancelTo[c] = sentTo[c]
        PROVE  /\ Holds(inbox'[sentTo[c]], Request(c)) => Holds(inbox'[sentTo[c]], Cancel(c))
               /\ server'[c] = sentTo[c] => c \in signalled' \/ Holds(inbox'[sentTo[c]], Cancel(c))
    <3>1. sentTo[c] \in Children
      BY <2>1, BridgeFacts DEF StopInv
    <3>2. /\ Holds(inbox[sentTo[c]], Request(c)) => Holds(inbox[sentTo[c]], Cancel(c))
          /\ server[c] = sentTo[c] => c \in signalled \/ Holds(inbox[sentTo[c]], Cancel(c))
      BY <2>1, BridgeFacts DEF StopInv
    <3>3. CASE sentTo[c] = k
      <4>1. ~Holds(inbox'[k], Request(c)) /\ server'[c] # k
        BY <1>1, <1>3 DEF Holds
      <4> QED BY <3>3, <4>1
    <3>4. CASE sentTo[c] # k
      <4>1. server'[c] = sentTo[c] => server[c] = sentTo[c]
        BY <1>1, <1>3, <3>1
      <4>2. server[c] = sentTo[c] /\ c \in signalled => c \in signalled'
        BY <1>1, <3>4
      <4>3. inbox'[sentTo[c]] = inbox[sentTo[c]]
        BY <1>3, <3>1, <3>4
      <4> QED BY <3>2, <4>1, <4>2, <4>3
    <3> QED BY <3>3, <3>4
  <2> QED BY <2>1, BridgeFacts DEF StopInv
<1> QED BY <1>1, <1>4, <1>5, <1>6, <1>7, <1>8

LEMMA EndsKeeps ==
    ASSUME BridgeInv, NEW k \in Children, ChildCrashes(k) \/ TakeShutdown(k), UNCHANGED managerVars
    PROVE  BridgeInv'
<1>1. alive[k] \in {"booting", "up"} /\ Ends(k) /\ UNCHANGED outbox
  BY DEF ChildCrashes, TakeShutdown, Has, Up
<1>2. loops' \in [Children -> SUBSET Tasks]
  <2>1. CASE ChildCrashes(k)
    BY <2>1, BridgeFacts DEF ChildCrashes, gatewayVars
  <2>2. CASE TakeShutdown(k)
    <3>1. loops' = [loops EXCEPT ![k] = IF owned[k] THEN {} ELSE loops[k]]
      BY <2>2 DEF TakeShutdown
    <3> QED BY <3>1, BridgeFacts
  <2> QED BY <2>1, <2>2
<1>3. outbox' \in [Children -> Seq(Lines)]
  BY <1>1, BridgeFacts
<1> QED BY <1>1, <1>2, <1>3, EndsFacts, CliKeeps

LEMMA BootKeeps ==
    ASSUME BridgeInv, NEW k \in Children, Boot(k), UNCHANGED managerVars
    PROVE  BridgeInv'
<1>1. /\ alive[k] = "booting" /\ alive' = [alive EXCEPT ![k] = "up"]
      /\ outbox' = [outbox EXCEPT ![k] = Append(outbox[k], Ready)]
      /\ UNCHANGED <<inbox, activeTask, stage, server, signalled, loops>>
  BY DEF Boot, Put, serviceVars, gatewayVars
<1>2. /\ outbox' \in [Children -> Seq(Lines)]
      /\ \A l \in Children : \A y : Holds(outbox[l], y) => Holds(outbox'[l], y)
  <2> DEFINE box == Append(outbox[k], Ready)
  <2>1. Ready \in Lines /\ outbox[k] \in Seq(Lines)
    BY BridgeFacts DEF Ready, Lines
  <2>2. box \in Seq(Lines) /\ \A y : Holds(outbox[k], y) => Holds(box, y)
    BY <2>1, HoldsAppend
  <2>3. outbox' = [outbox EXCEPT ![k] = box]
    BY <1>1
  <2> HIDE DEF box
  <2> QED BY <2>2, <2>3, BridgeFacts
<1>3. SentInv(child, alive', listening, pc, sentTo)
  BY <1>1, SentLives, BridgeFacts
<1>4. AccountInv(pc, sentTo, alive', inbox', stage', server', outbox')
  <2> SUFFICES ASSUME NEW c \in Calls, pc[c] = "sent", alive'[sentTo[c]] # "dying"
               PROVE  Underway(c, sentTo[c], inbox', stage', server', outbox')
    BY DEF AccountInv
  <2>1. sentTo[c] \in Children
    BY BridgeFacts DEF SentInv
  <2>2. alive[sentTo[c]] # "dying"
    BY <1>1, <2>1, BridgeFacts
  <2>3. Underway(c, sentTo[c], inbox, stage, server, outbox)
    BY <2>2, BridgeFacts DEF AccountInv
  <2> QED BY <1>1, <1>2, <2>1, <2>3 DEF Underway
<1>5. /\ ServeInv(activeTask', stage', server', loops') /\ AskedInv(inbox', stage', pc)
      /\ StopInv(pc, sentTo, cancelTo, inbox', stage', server', signalled')
  BY <1>1, BridgeFacts
<1> QED BY <1>2, <1>3, <1>4, <1>5, CliKeeps

\* A step in which one call is served further and chat requests begin or end.
LEMMA ProgressKeeps ==
    ASSUME BridgeInv, UNCHANGED <<managerVars, alive, inbox, outbox, activeTask, server, signalled>>,
           NEW c \in Calls, stage[c] # "none", NEW where \in Stages \ {"none"},
           stage' \in {stage, [stage EXCEPT ![c] = where]},
           loops' \in [Children -> SUBSET Tasks]
    PROVE  BridgeInv'
<1>1. stage' \in [Calls -> Stages] /\ \A d \in Calls : (stage'[d] = "none") <=> (stage[d] = "none")
  BY BridgeFacts
<1>2. ServeInv(activeTask', stage', server', loops')
  BY <1>1, BridgeFacts DEF ServeInv, Tasks
<1>3. AskedInv(inbox', stage', pc)
  BY <1>1, BridgeFacts DEF AskedInv
<1>4. AccountInv(pc, sentTo, alive', inbox', stage', server', outbox')
  BY <1>1, BridgeFacts DEF AccountInv, Underway
<1>5. StopInv(pc, sentTo, cancelTo, inbox', stage', server', signalled')
  BY BridgeFacts DEF StopInv
<1> QED BY <1>2, <1>3, <1>4, <1>5, BridgeFacts, CliKeeps

LEMMA PostsTasks ==
    ASSUME BridgeInv, NEW k \in Children, NEW c \in Calls, Posts(k, c)
    PROVE  stage' = [stage EXCEPT ![c] = "posted"] /\ loops' \in [Children -> SUBSET Tasks]
<1>1. loops' = [loops EXCEPT ![k] = IF KindOf[c] = "task" THEN loops[k] \cup {c} ELSE loops[k]]
  BY DEF Posts
<1>2. (IF KindOf[c] = "task" THEN loops[k] \cup {c} ELSE loops[k]) \in SUBSET Tasks
  BY BridgeFacts DEF Tasks
<1>3. stage' = [stage EXCEPT ![c] = "posted"]
  BY DEF Posts, AtStage
<1> HIDE DEF Tasks
<1> QED BY <1>1, <1>2, <1>3, BridgeFacts

\* The answer to a call that was served.
LEMMA ServedAnswered ==
    ASSUME BridgeInv, NEW k \in Children, NEW c \in Calls, Answer(k, c), server[c] = k,
           UNCHANGED <<managerVars, alive, inbox>>, loops' \in [Children -> SUBSET Tasks]
    PROVE  BridgeInv'
<1>1. stage' = [stage EXCEPT ![c] = "none"]
  BY DEF Answer
<1>2. \A d \in Calls : stage'[d] # "none" => stage[d] # "none"
  BY <1>1, BridgeFacts
<1>3. AskedInv(inbox', stage', pc)
  BY <1>2, BridgeFacts, AskedLess
<1> QED BY <1>3, AnswerKeeps

LEMMA ServeKeeps ==
    ASSUME BridgeInv, NEW k \in Children, NEW c \in Calls, Serve(k, c), UNCHANGED managerVars
    PROVE  BridgeInv'
<1>1. server[c] = k /\ stage[c] # "none"
  BY DEF Serve, Health, AwaitGateway, Returns, Cancelled, Serving
<1>2. CASE Health(k, c)
  <2>1. UNCHANGED <<alive, inbox, outbox, activeTask, server, signalled>>
    BY <1>2 DEF Health
  <2>2. CASE Posts(k, c)
    BY <1>1, <2>1, <2>2, PostsTasks, ProgressKeeps DEF Stages
  <2>3. CASE AtStage(c, "waiting") /\ UNCHANGED loops
    <3>1. stage' = [stage EXCEPT ![c] = "waiting"] /\ loops' \in [Children -> SUBSET Tasks]
      BY <2>3, BridgeFacts DEF AtStage
    <3> QED BY <1>1, <2>1, <3>1, ProgressKeeps DEF Stages
  <2> QED BY <1>2, <2>2, <2>3 DEF Health
<1>3. CASE AwaitGateway(k, c)
  <2>1. UNCHANGED <<alive, inbox>>
    BY <1>3 DEF AwaitGateway
  <2>2. CASE Posts(k, c) /\ UNCHANGED <<outbox, activeTask, server, signalled>>
    BY <1>1, <2>1, <2>2, PostsTasks, ProgressKeeps DEF Stages
  <2>3. CASE Answer(k, c) /\ UNCHANGED loops
    BY <1>1, <2>1, <2>3, ServedAnswered, BridgeFacts
  <2> QED BY <1>3, <2>2, <2>3 DEF AwaitGateway
<1>4. CASE Returns(k, c)
  <2>1. UNCHANGED <<alive, inbox>> /\ Answer(k, c)
    BY <1>4 DEF Returns
  <2>2. loops' = [loops EXCEPT ![k] = loops[k] \ {c}] \/ UNCHANGED loops
    BY <1>4 DEF Returns
  <2>3. loops' \in [Children -> SUBSET Tasks]
    BY <2>2, BridgeFacts
  <2> QED BY <1>1, <2>1, <2>3, ServedAnswered
<1>5. CASE Cancelled(k, c)
  BY <1>1, <1>5, ServedAnswered, BridgeFacts DEF Cancelled, gatewayVars
<1> QED BY <1>2, <1>3, <1>4, <1>5 DEF Serve

LEMMA GatewayKeeps ==
    ASSUME BridgeInv, NEW k \in Children, UNCHANGED managerVars,
           GatewayListens(k) \/ GatewayDies(k) \/ \E c \in Calls : LoopNotices(k, c)
    PROVE  BridgeInv'
<1>1. UNCHANGED <<alive, inbox, outbox, activeTask, stage, server, signalled>>
  BY DEF GatewayListens, GatewayDies, LoopNotices, serviceVars
<1>2. \E runs \in SUBSET loops[k] : loops' = [loops EXCEPT ![k] = runs]
  <2>1. CASE GatewayListens(k)
    <3>1. loops' = [loops EXCEPT ![k] = loops[k]]
      BY <2>1, BridgeFacts DEF GatewayListens
    <3> QED BY <3>1
  <2>2. CASE GatewayDies(k)
    BY <2>2 DEF GatewayDies
  <2>3. CASE \E c \in Calls : LoopNotices(k, c)
    BY <2>3 DEF LoopNotices
  <2> QED BY <2>1, <2>2, <2>3
<1>3. loops' \in [Children -> SUBSET Tasks]
  BY <1>2, BridgeFacts
<1>4. ServeInv(activeTask', stage', server', loops')
  BY <1>1, <1>3, BridgeFacts DEF ServeInv
<1>5. /\ AskedInv(inbox', stage', pc) /\ SentInv(child, alive', listening, pc, sentTo)
      /\ AccountInv(pc, sentTo, alive', inbox', stage', server', outbox')
      /\ StopInv(pc, sentTo, cancelTo, inbox', stage', server', signalled')
      /\ outbox' \in [Children -> Seq(Lines)]
  BY <1>1, BridgeFacts
<1> QED BY <1>4, <1>5, CliKeeps
----------------------------------------------------------------------------
(* Callers that move *)

LEMMA MoveFacts ==
    ASSUME BridgeInv, NEW ms \in SUBSET Callers, NEW moves \in [ms -> Places], Move(moves)
    PROVE  /\ pc' \in [Callers -> Places]
           /\ \A x \in ms : pc'[x] = moves[x]
           /\ \A x \in Callers \ ms : pc'[x] = pc[x]
           /\ timer' \subseteq In("wait")' \cup In("stranded")'
           /\ cancelTo' = [c \in Calls |-> IF pc'[c] = "sent" THEN cancelTo[c] ELSE NoChild]
           /\ cancelled' \subseteq cancelled
<1>1. pc' = Over(moves, pc) /\ ms \cup Callers = Callers
  BY DEF Move
<1>2. /\ pc' \in [Callers -> Places] /\ \A x \in ms : pc'[x] = moves[x]
      /\ \A x \in Callers \ ms : pc'[x] = pc[x]
  <2>1. pc \in [Callers -> Places]
    BY BridgeFacts
  <2>2. pc' = [x \in Callers |-> IF x \in ms THEN moves[x] ELSE pc[x]]
    BY <1>1, <2>1 DEF Over
  <2> QED BY <2>1, <2>2
<1>3. timer \subseteq Callers
  BY DEF BridgeInv, In
<1>4. timer' = {x \in timer : pc'[x] \in {"wait", "stranded"}}
  BY DEF Move
<1>5. timer' \subseteq In("wait")' \cup In("stranded")'
  BY <1>3, <1>4 DEF In
<1> QED BY <1>2, <1>5 DEF Move

\* Nothing is sent and no settled call but returns.
Quiet ==
    \A c \in Calls : /\ pc'[c] = "sent" => pc[c] = "sent"
                     /\ pc[c] \in Settled => pc'[c] \in Settled

LEMMA QuietKeeps ==
    ASSUME NEW own, NEW life, NEW reads, NEW in, NEW st, NEW srv, NEW out, NEW sig,
           AskedInv(in, st, pc), SentInv(own, life, reads, pc, sentTo),
           AccountInv(pc, sentTo, life, in, st, srv, out),
           StopInv(pc, sentTo, cancelTo, in, st, srv, sig),
           pc' \in [Callers -> Places], Quiet, NothingSent,
           cancelTo' = [c \in Calls |-> IF pc'[c] = "sent" THEN cancelTo[c] ELSE NoChild]
    PROVE  /\ AskedInv(in, st, pc') /\ SentInv(own, life, reads, pc', sentTo')
           /\ AccountInv(pc', sentTo', life, in, st, srv, out)
           /\ StopInv(pc', sentTo', cancelTo', in, st, srv, sig)
<1>1. sentTo' = [c \in Calls |-> IF pc'[c] = "sent" THEN sentTo[c] ELSE NoChild]
  BY DEF NothingSent
<1>2. sentTo \in [Calls -> Children \cup {NoChild}] /\ cancelTo \in [Calls -> Children \cup {NoChild}]
  BY DEF SentInv, StopInv
<1>3. sentTo' \in [Calls -> Children \cup {NoChild}] /\ cancelTo' \in [Calls -> Children \cup {NoChild}]
  BY <1>1, <1>2
<1>4. \A c \in Calls : /\ pc'[c] = "sent" => sentTo'[c] = sentTo[c] /\ cancelTo'[c] = cancelTo[c]
                       /\ pc'[c] # "sent" => sentTo'[c] = NoChild /\ cancelTo'[c] = NoChild
  BY <1>1
<1>5. AskedInv(in, st, pc')
  BY AskedMoved DEF Quiet
<1>6. SentInv(own, life, reads, pc', sentTo')
  BY <1>3, <1>4 DEF Quiet, SentInv
<1>7. AccountInv(pc', sentTo', life, in, st, srv, out)
  BY <1>4 DEF Quiet, AccountInv
<1>8. StopInv(pc', sentTo', cancelTo', in, st, srv, sig)
  <2>1. \A c \in Calls : cancelTo'[c] # NoChild =>
            pc'[c] = "sent" /\ cancelTo[c] # NoChild /\ cancelTo'[c] = cancelTo[c] /\ sentTo'[c] = sentTo[c]
    BY <1>4
  <2> QED BY <1>3, <2>1 DEF StopInv
<1> QED BY <1>5, <1>6, <1>7, <1>8

\* The callers xs are told that their start is over: their requests are written to `to'.
LEMMA SendKeeps ==
    ASSUME NEW life, NEW reads, NEW st, NEW srv, NEW out, NEW sig,
           AskedInv(inbox, st, pc), NEW own, SentInv(own, life, reads, pc, sentTo),
           AccountInv(pc, sentTo, life, inbox, st, srv, out),
           StopInv(pc, sentTo, cancelTo, inbox, st, srv, sig),
           NEW xs \in SUBSET Callers, \A x \in xs : pc[x] \notin Settled,
           NEW to \in Children \cup {NoChild}, to # NoChild => HeardInv(to, life, reads),
           NEW writable \in BOOLEAN,
           writable <=> to # NoChild /\ life[to] # "dying",
           NoChild \notin Children,
           pc' \in [Callers -> Places], \A x \in xs : pc'[x] = Started(xs, to)[x],
           \A x \in Callers \ xs : pc'[x] = pc[x],
           Send(xs, to, writable),
           cancelTo' = [c \in Calls |-> IF pc'[c] = "sent" THEN cancelTo[c] ELSE NoChild]
    PROVE  /\ AskedInv(inbox', st, pc') /\ SentInv(own, life, reads, pc', sentTo')
           /\ AccountInv(pc', sentTo', life, inbox', st, srv, out)
           /\ StopInv(pc', sentTo', cancelTo', inbox', st, srv, sig)
<1> DEFINE cs == (xs \cap Calls) \ cancelled
<1>1. /\ sentTo' = [c \in Calls |-> IF c \in cs THEN to
                                    ELSE IF pc'[c] = "sent" THEN sentTo[c] ELSE NoChild]
      /\ IF writable
         THEN \E order \in SetToSeqs(cs) :
                 inbox' = [inbox EXCEPT ![to] = inbox[to] \o [i \in DOMAIN order |-> Request(order[i])]]
         ELSE UNCHANGED inbox
  BY DEF Send
<1>2. /\ cs \in SUBSET Calls /\ Calls \subseteq Callers
      /\ \A c \in cs : pc[c] \notin Settled /\ pc'[c] = (IF to # NoChild THEN "sent" ELSE "returned")
      /\ \A c \in Calls \ cs : pc'[c] = pc[c] \/ (pc'[c] = "returned" /\ pc[c] \notin Settled)
  <2>1. \A x \in xs : pc'[x] = IF x \in Calls \ cancelled /\ to # NoChild THEN "sent" ELSE "returned"
    BY DEF Started
  <2> QED BY <2>1 DEF Callers
<1> HIDE DEF cs
<1>3. sentTo \in [Calls -> Children \cup {NoChild}] /\ cancelTo \in [Calls -> Children \cup {NoChild}]
  BY DEF SentInv, StopInv
<1>4. /\ sentTo' \in [Calls -> Children \cup {NoChild}] /\ cancelTo' \in [Calls -> Children \cup {NoChild}]
      /\ \A c \in cs : sentTo'[c] = to
      /\ \A c \in Calls \ cs : /\ pc'[c] = "sent" => sentTo'[c] = sentTo[c]
                               /\ pc'[c] # "sent" => sentTo'[c] = NoChild
  <2>1. sentTo' \in [Calls -> Children \cup {NoChild}] /\ cancelTo' \in [Calls -> Children \cup {NoChild}]
    BY <1>1, <1>3
  <2> QED BY <1>1, <1>2, <2>1
<1>5. \A c \in cs : cancelTo[c] = NoChild
  BY <1>2 DEF StopInv, Settled
<1>6. \A c \in Calls : cancelTo'[c] # NoChild =>
        c \notin cs /\ pc'[c] = "sent" /\ cancelTo'[c] = cancelTo[c] /\ sentTo'[c] = sentTo[c]
  BY <1>2, <1>4, <1>5
<1>7. /\ inbox' \in [Children -> Seq(Msgs)] /\ \A l \in Children : InOrder(inbox'[l])
      /\ writable => \A c \in cs : Holds(inbox'[to], Request(c))
      /\ \A l \in Children : \A y : Holds(inbox[l], y) => Holds(inbox'[l], y)
      /\ \A l \in Children : \A y : Holds(inbox'[l], y) =>
            Holds(inbox[l], y) \/ (l = to /\ \E c \in cs : y = Request(c))
  <2>1. CASE ~writable
    BY <1>1, <2>1 DEF AskedInv
  <2>2. CASE writable
    <3>1. PICK order \in SetToSeqs(cs) :
              inbox' = [inbox EXCEPT ![to] = inbox[to] \o [i \in DOMAIN order |-> Request(order[i])]]
      BY <1>1, <2>2
    <3> DEFINE box == inbox[to] \o [i \in DOMAIN order |-> Request(order[i])]
    <3>2. to \in Children /\ InOrder(inbox[to])
      BY <2>2 DEF AskedInv
    <3>3. \A c \in cs : ~Holds(inbox[to], Request(c)) /\ ~Holds(inbox[to], Cancel(c))
      BY <1>2, <3>2 DEF AskedInv
    <3>4. /\ InOrder(box) /\ \A c \in cs : Holds(box, Request(c))
          /\ \A y : Holds(inbox[to], y) => Holds(box, y)
          /\ \A y : Holds(box, y) => Holds(inbox[to], y) \/ \E c \in cs : y = Request(c)
      BY <1>2, <3>2, <3>3, SentInOrder
    <3>5. inbox' = [inbox EXCEPT ![to] = box] /\ inbox \in [Children -> Seq(Msgs)]
      BY <3>1 DEF AskedInv
    <3> HIDE DEF box
    <3>6. box \in Seq(Msgs)
      BY <3>4 DEF InOrder
    <3>7. inbox' \in [Children -> Seq(Msgs)] /\ inbox'[to] = box /\ \A l \in Children \ {to} : inbox'[l] = inbox[l]
      BY <3>2, <3>5, <3>6
    <3>8. \A l \in Children : InOrder(inbox'[l])
      BY <3>4, <3>7 DEF AskedInv
    <3> QED BY <3>4, <3>7, <3>8
  <2> QED BY <2>1, <2>2
<1>8. AskedInv(inbox', st, pc')
  <2>1. \A c \in cs : /\ st[c] = "none" /\ pc'[c] \in Settled
                      /\ \A l \in Children : ~Holds(inbox[l], Request(c)) /\ ~Holds(inbox[l], Cancel(c))
    BY <1>2 DEF AskedInv, Settled
  <2>2. \A c \in Calls : pc[c] \in Settled => pc'[c] \in Settled
    BY <1>2 DEF Settled
  <2>3. ASSUME NEW l \in Children, NEW c \in Calls, Holds(inbox'[l], Request(c))
        PROVE  /\ st[c] = "none" /\ pc'[c] \in Settled
               /\ \A m \in Children : Holds(inbox'[m], Request(c)) => m = l
    <3>1. CASE c \in cs
      <4>1. \A m \in Children : Holds(inbox'[m], Request(c)) => m = to
        BY <1>7, <2>1, <3>1
      <4> QED BY <2>1, <2>3, <3>1, <4>1
    <3>2. CASE c \notin cs
      <4>1. \A d \in cs : Request(c) # Request(d)
        BY <3>2, LineFacts
      <4>2. \A m \in Children : Holds(inbox'[m], Request(c)) => Holds(inbox[m], Request(c))
        BY <1>7, <4>1
      <4> QED BY <2>2, <2>3, <4>2 DEF AskedInv
    <3> QED BY <3>1, <3>2
  <2>4. ASSUME NEW l \in Children, NEW c \in Calls, Holds(inbox'[l], Cancel(c)) PROVE pc'[c] \in Settled
    <3>1. \A d \in cs : Cancel(c) # Request(d)
      BY LineFacts
    <3>2. Holds(inbox[l], Cancel(c))
      BY <1>7, <2>4, <3>1
    <3> QED BY <2>2, <3>2 DEF AskedInv
  <2>5. \A c \in Calls : st[c] # "none" => pc'[c] \in Settled
    BY <2>2 DEF AskedInv
  <2> QED BY <1>7, <2>3, <2>4, <2>5 DEF AskedInv
<1>9. SentInv(own, life, reads, pc', sentTo')
  <2>1. ASSUME NEW c \in Calls, pc'[c] = "sent"
        PROVE  sentTo'[c] \in Children /\ HeardInv(sentTo'[c], life, reads)
    <3>1. CASE c \in cs
      BY <1>2, <1>4, <2>1, <3>1
    <3>2. CASE c \notin cs
      BY <1>2, <1>4, <2>1, <3>2 DEF SentInv
    <3> QED BY <3>1, <3>2
  <2>2. \A c \in Calls : pc'[c] # "sent" => sentTo'[c] = NoChild
    BY <1>2, <1>4
  <2> QED BY <1>4, <2>1, <2>2 DEF SentInv
<1>10. AccountInv(pc', sentTo', life, inbox', st, srv, out)
  <2> SUFFICES ASSUME NEW c \in Calls, pc'[c] = "sent", life[sentTo'[c]] # "dying"
               PROVE  Underway(c, sentTo'[c], inbox', st, srv, out)
    BY DEF AccountInv
  <2>1. CASE c \in cs
    <3>1. to # NoChild /\ sentTo'[c] = to
      BY <1>2, <1>4, <2>1
    <3> QED BY <1>7, <2>1, <3>1 DEF Underway
  <2>2. CASE c \notin cs
    <3>1. pc[c] = "sent" /\ sentTo'[c] = sentTo[c]
      BY <1>2, <1>4, <2>2
    <3>2. Underway(c, sentTo[c], inbox, st, srv, out) /\ sentTo[c] \in Children
      BY <3>1 DEF AccountInv, SentInv
    <3> QED BY <1>7, <3>1, <3>2 DEF Underway
  <2> QED BY <2>1, <2>2
<1>11. StopInv(pc', sentTo', cancelTo', inbox', st, srv, sig)
  <2>1. ASSUME NEW c \in Calls, cancelTo'[c] # NoChild, cancelTo'[c] = sentTo'[c]
        PROVE  /\ Holds(inbox'[sentTo'[c]], Request(c)) => Holds(inbox'[sentTo'[c]], Cancel(c))
               /\ srv[c] = sentTo'[c] => c \in sig \/ Holds(inbox'[sentTo'[c]], Cancel(c))
    <3>1. c \notin cs /\ sentTo'[c] = sentTo[c] /\ cancelTo[c] = sentTo[c] /\ sentTo[c] \in Children
      BY <1>3, <1>6, <2>1
    <3>2. \A d \in cs : Request(c) # Request(d)
      BY <3>1, LineFacts
    <3>3. /\ Holds(inbox'[sentTo[c]], Request(c)) => Holds(inbox[sentTo[c]], Request(c))
          /\ Holds(inbox[sentTo[c]], Cancel(c)) => Holds(inbox'[sentTo[c]], Cancel(c))
      BY <1>7, <3>1, <3>2
    <3>4. /\ Holds(inbox[sentTo[c]], Request(c)) => Holds(inbox[sentTo[c]], Cancel(c))
          /\ srv[c] = sentTo[c] => c \in sig \/ Holds(inbox[sentTo[c]], Cancel(c))
      BY <1>3, <1>6, <2>1, <3>1 DEF StopInv
    <3> QED BY <3>1, <3>3, <3>4
  <2> QED BY <1>4, <1>6, <2>1 DEF StopInv
<1> QED BY <1>8, <1>9, <1>10, <1>11

\* Moves that send nothing.
LEMMA MovesQuiet ==
    ASSUME BridgeInv, NEW ms \in SUBSET Callers, NEW moves \in [ms -> Places], Move(moves),
           \A c \in ms \cap Calls : /\ moves[c] # "sent"
                                    /\ pc[c] \in Settled => moves[c] = "returned"
    PROVE  Quiet
<1> SUFFICES ASSUME NEW c \in Calls
             PROVE  (pc'[c] = "sent" => pc[c] = "sent") /\ (pc[c] \in Settled => pc'[c] \in Settled)
  BY DEF Quiet
<1>1. c \in Callers
  BY BridgeFacts
<1>2. CASE c \in ms
  <2>1. pc'[c] = moves[c]
    BY <1>2, MoveFacts
  <2> QED BY <1>2, <2>1 DEF Settled
<1>3. CASE c \notin ms
  <2>1. pc'[c] = pc[c]
    BY <1>1, <1>3, MoveFacts
  <2> QED BY <2>1
<1> QED BY <1>2, <1>3

LEMMA ManagerQuiet ==
    ASSUME BridgeInv, NEW ms \in SUBSET Callers, NEW moves \in [ms -> Places], Move(moves),
           \A c \in ms \cap Calls : /\ moves[c] # "sent"
                                    /\ pc[c] \in Settled => moves[c] = "returned",
           NothingSent,
           UNCHANGED <<alive, inbox, outbox, serviceVars, gatewayVars, child, listening>>
    PROVE  BridgeInv'
<1>1. UNCHANGED <<alive, inbox, outbox, activeTask, stage, server, signalled, loops, child, listening>>
  BY DEF serviceVars, gatewayVars
<1>2. /\ Quiet /\ pc' \in [Callers -> Places] /\ timer' \subseteq In("wait")' \cup In("stranded")'
      /\ cancelTo' = [c \in Calls |-> IF pc'[c] = "sent" THEN cancelTo[c] ELSE NoChild]
  BY MoveFacts, MovesQuiet
<1>3. /\ AskedInv(inbox, stage, pc') /\ SentInv(child, alive, listening, pc', sentTo')
      /\ AccountInv(pc', sentTo', alive, inbox, stage, server, outbox)
      /\ StopInv(pc', sentTo', cancelTo', inbox, stage, server, signalled)
  BY <1>2, BridgeFacts, QuietKeeps
<1> QED BY <1>1, <1>2, <1>3, BridgeFacts DEF BridgeInv

LEMMA ToTyped ==
    ASSUME NEW xs, NEW where \in Places
    PROVE  To(xs, where) \in [xs -> Places] /\ \A x \in xs : To(xs, where)[x] = where
  BY DEF To

\* The manager's own CLI, when it asks whether it can write to it.
LEMMA ChildFacts ==
    ASSUME BridgeInv
    PROVE  /\ child \in Children \cup {NoChild} /\ NoChild \notin Children
           /\ child # NoChild => HeardInv(child, alive, listening)
           /\ Writable(child) <=> child # NoChild /\ alive[child] # "dying"
           /\ Writable(child) => alive[child] \in {"booting", "up"} /\ child \in Children
  BY CliAssumption, BridgeFacts DEF SentInv, HeardInv, Living, Writable

LEMMA CallKeeps ==
    ASSUME BridgeInv, NEW c \in Calls, Call(c)
    PROVE  BridgeInv'
<1>1. /\ pc[c] = "idle" /\ c \in Callers /\ pc[c] \notin Settled
      /\ UNCHANGED <<alive, outbox, activeTask, stage, server, signalled, loops, child, listening>>
      /\ UNCHANGED <<serviceVars, gatewayVars>>
  BY BridgeFacts DEF Call, Settled, serviceVars, gatewayVars
<1>2. ASSUME NEW where \in {"returned", "wait"}, Move(To({c}, where)), NothingSent, UNCHANGED inbox
      PROVE  BridgeInv'
  <2>1. /\ To({c}, where) \in [{c} -> Places] /\ To({c}, where)[c] = where
    BY <1>2, ToTyped DEF Places
  <2> QED BY <1>1, <1>2, <2>1, ManagerQuiet
<1>3. CASE BeginsStart(c) /\ NothingSent /\ UNCHANGED inbox
  <2> DEFINE moves == Over(To(In("wait"), "stranded"), To({c}, "port"))
             ms == In("wait") \cup {c}
  <2>1. Move(moves) /\ ms \in SUBSET Callers
    BY <1>1, <1>3 DEF BeginsStart, In
  <2>2. /\ moves \in [ms -> Places] /\ moves[c] = "port"
        /\ \A y \in In("wait") : moves[y] = "stranded" /\ pc[y] = "wait"
    <3>1. "stranded" \in Places /\ "port" \in Places /\ c \in {c} \ In("wait")
      BY <1>1 DEF Places, In
    <3>2. \A y \in In("wait") : pc[y] = "wait"
      BY DEF In
    <3>3. /\ moves \in [ms -> Places] /\ moves[c] = "port"
          /\ \A y \in In("wait") : moves[y] = "stranded"
      BY <3>1 DEF Over, To
    <3> QED BY <3>2, <3>3
  <2> HIDE DEF moves
  <2>3. \A d \in ms \cap Calls : moves[d] # "sent" /\ pc[d] \notin Settled
    BY <1>1, <2>2 DEF Settled
  <2> QED BY <1>1, <1>3, <2>1, <2>2, <2>3, ManagerQuiet
<1>4. CASE Move(Started({c}, child)) /\ Send({c}, child, Writable(child))
  <2>1. Started({c}, child) \in [{c} -> Places]
    BY DEF Started, Places
  <2>2. /\ pc' \in [Callers -> Places] /\ timer' \subseteq In("wait")' \cup In("stranded")'
        /\ cancelTo' = [d \in Calls |-> IF pc'[d] = "sent" THEN cancelTo[d] ELSE NoChild]
        /\ \A x \in {c} : pc'[x] = Started({c}, child)[x]
        /\ \A x \in Callers \ {c} : pc'[x] = pc[x]
    BY <1>1, <1>4, <2>1, MoveFacts
  <2>3. /\ AskedInv(inbox', stage, pc') /\ SentInv(child, alive, listening, pc', sentTo')
        /\ AccountInv(pc', sentTo', alive, inbox', stage, server, outbox)
        /\ StopInv(pc', sentTo', cancelTo', inbox', stage, server, signalled)
    <3>1. Writable(child) \in BOOLEAN
      BY DEF Writable
    <3>2. /\ AskedInv(inbox, stage, pc) /\ SentInv(child, alive, listening, pc, sentTo)
          /\ AccountInv(pc, sentTo, alive, inbox, stage, server, outbox)
          /\ StopInv(pc, sentTo, cancelTo, inbox, stage, server, signalled)
      BY BridgeFacts
    <3>3. {c} \in SUBSET Callers /\ \A x \in {c} : pc[x] \notin Settled
      BY <1>1
    <3> QED BY <1>4, <2>2, <3>1, <3>2, <3>3, ChildFacts, SendKeeps
  <2> QED BY <1>1, <2>2, <2>3, BridgeFacts DEF BridgeInv
<1> QED BY <1>2, <1>3, <1>4 DEF Call, Joins

LEMMA TimeoutKeeps ==
    ASSUME BridgeInv, NEW x \in Callers, StartTimeout(x)
    PROVE  BridgeInv'
<1> DEFINE moves == Over(To(In("wait"), "returned"), To({x}, "hung"))
           ms == In("wait") \cup {x}
<1>1. /\ UNCHANGED <<alive, inbox, outbox, serviceVars, gatewayVars, child, listening>>
      /\ Move(moves) /\ NothingSent /\ x \in timer
  BY DEF StartTimeout
<1>2. pc[x] \in {"wait", "stranded"} /\ ms \in SUBSET Callers /\ \A y \in In("wait") : pc[y] = "wait"
  BY <1>1 DEF BridgeInv, In
<1>3. moves \in [ms -> Places] /\ \A y \in ms : moves[y] \in {"returned", "hung"}
  <2>1. "returned" \in Places /\ "hung" \in Places
    BY DEF Places
  <2>2. /\ moves \in [ms -> Places] /\ \A y \in In("wait") : moves[y] = "returned"
        /\ \A y \in {x} \ In("wait") : moves[y] = "hung"
    BY <2>1 DEF Over, To
  <2> QED BY <2>2
<1> HIDE DEF moves
<1>4. \A d \in ms \cap Calls : moves[d] # "sent" /\ pc[d] \notin Settled
  BY <1>2, <1>3 DEF Settled
<1> QED BY <1>1, <1>2, <1>3, <1>4, ManagerQuiet

\* A CLI is spawned: nothing was written to it before.
LEMMA SpawnedFacts ==
    ASSUME BridgeInv, NEW k \in Children, alive[k] = "unborn",
           alive' = [alive EXCEPT ![k] = "booting"], listening' = listening \cup {k}
    PROVE  /\ SentInv(k, alive', listening', pc, sentTo)
           /\ AccountInv(pc, sentTo, alive', inbox, stage, server, outbox)
           /\ HeardInv(k, alive', listening')
<1>1. /\ alive' \in [Children -> Living \cup {"unborn", "dead"}] /\ alive'[k] = "booting"
      /\ \A l \in Children \ {k} : alive'[l] = alive[l]
  BY BridgeFacts DEF Living
<1>2. listening' \subseteq Children
  BY BridgeFacts DEF SentInv
<1>3. \A l \in Children : HeardInv(l, alive, listening) => l # k /\ HeardInv(l, alive', listening')
  BY <1>1 DEF HeardInv, Living
<1>4. HeardInv(k, alive', listening')
  BY <1>1 DEF HeardInv, Living
<1>5. SentInv(k, alive', listening', pc, sentTo)
  BY <1>1, <1>2, <1>3, <1>4, BridgeFacts DEF SentInv
<1>6. AccountInv(pc, sentTo, alive', inbox, stage, server, outbox)
  <2>1. \A c \in Calls : pc[c] = "sent" => sentTo[c] \in Children /\ sentTo[c] # k
    BY <1>3, BridgeFacts DEF SentInv
  <2> QED BY <1>1, <2>1, BridgeFacts DEF AccountInv
<1> QED BY <1>4, <1>5, <1>6

LEMMA SpawnKeeps ==
    ASSUME BridgeInv, NEW x \in Callers, NEW k \in Children, Spawn(x, k)
    PROVE  BridgeInv'
<1>1. /\ pc[x] = "port" /\ pc[x] \notin Settled
      /\ alive' = [alive EXCEPT ![k] = "booting"] /\ child' = k /\ listening' = listening \cup {k}
      /\ UNCHANGED <<outbox, activeTask, stage, server, signalled, loops>>
      /\ alive[k] = "unborn" /\ NoChild \notin Children
  <2>1. ~(k < k)
    BY CliAssumption
  <2> QED BY <2>1, CliAssumption DEF Spawn, Settled, serviceVars, gatewayVars
<1>2. /\ SentInv(k, alive', listening', pc, sentTo)
      /\ AccountInv(pc, sentTo, alive', inbox, stage, server, outbox)
      /\ HeardInv(k, alive', listening') /\ alive'[k] # "dying"
  <2>1. alive'[k] # "dying"
    BY <1>1, BridgeFacts
  <2> QED BY <1>1, <2>1, SpawnedFacts
<1>3. /\ AskedInv(inbox, stage, pc) /\ StopInv(pc, sentTo, cancelTo, inbox, stage, server, signalled)
      /\ x \in Callers /\ ServeInv(activeTask, stage, server, loops)
      /\ outbox \in [Children -> Seq(Lines)]
  BY BridgeFacts
<1>4. ASSUME Quiet, NothingSent, UNCHANGED inbox, pc' \in [Callers -> Places],
             timer' \subseteq In("wait")' \cup In("stranded")',
             cancelTo' = [c \in Calls |-> IF pc'[c] = "sent" THEN cancelTo[c] ELSE NoChild]
      PROVE  BridgeInv'
  <2>1. /\ AskedInv(inbox, stage, pc') /\ SentInv(k, alive', listening', pc', sentTo')
        /\ AccountInv(pc', sentTo', alive', inbox, stage, server, outbox)
        /\ StopInv(pc', sentTo', cancelTo', inbox, stage, server, signalled)
    BY <1>2, <1>3, <1>4, QuietKeeps
  <2> QED BY <1>1, <1>3, <1>4, <2>1 DEF BridgeInv
<1>5. CASE ready = "pending"
  <2>1. /\ pc' = [pc EXCEPT ![x] = "wait"] /\ timer' = timer \cup {x}
        /\ UNCHANGED <<sentTo, inbox, cancelTo>>
    BY <1>5 DEF Spawn
  <2>2. /\ pc' \in [Callers -> Places] /\ pc'[x] = "wait" /\ \A y \in Callers \ {x} : pc'[y] = pc[y]
    BY <2>1, BridgeFacts DEF Places
  <2>3. timer' \subseteq In("wait")' \cup In("stranded")'
    BY <2>1, <2>2 DEF BridgeInv, In
  <2>4. Quiet /\ \A c \in Calls : pc'[c] = "sent" <=> pc[c] = "sent"
    BY <1>1, <2>2, BridgeFacts DEF Quiet
  <2>5. NothingSent
    <3>1. \A c \in Calls : pc'[c] # "sent" => sentTo[c] = NoChild
      BY <2>4, BridgeFacts DEF SentInv
    <3> QED BY <2>1, <3>1, BridgeFacts DEF NothingSent
  <2>6. cancelTo' = [c \in Calls |-> IF pc'[c] = "sent" THEN cancelTo[c] ELSE NoChild]
    <3>1. \A c \in Calls : pc'[c] # "sent" => cancelTo[c] = NoChild
      BY <1>3, <2>4 DEF StopInv
    <3>2. cancelTo \in [Calls -> Children \cup {NoChild}]
      BY <1>3 DEF StopInv
    <3> QED BY <2>1, <3>1, <3>2
  <2> QED BY <1>4, <2>1, <2>2, <2>3, <2>4, <2>5, <2>6
<1>6. CASE ready = "rejected"
  <2>1. Move(To({x}, "returned")) /\ NothingSent /\ UNCHANGED inbox
    BY <1>6 DEF Spawn
  <2>2. To({x}, "returned") \in [{x} -> Places] /\ To({x}, "returned")[x] = "returned"
    BY ToTyped DEF Places
  <2>3. {x} \in SUBSET Callers /\ \A c \in {x} \cap Calls : To({x}, "returned")[c] = "returned"
    BY <2>2
  <2>4. Quiet
    BY <2>1, <2>2, <2>3, MovesQuiet
  <2> QED BY <1>4, <2>1, <2>2, <2>3, <2>4, MoveFacts
<1>7. CASE ready \notin {"pending", "rejected"}
  <2>1. Move(Started({x}, k)) /\ Send({x}, k, TRUE)
    BY <1>7 DEF Spawn
  <2>2. Started({x}, k) \in [{x} -> Places] /\ {x} \in SUBSET Callers
    BY DEF Started, Places
  <2>3. /\ pc' \in [Callers -> Places] /\ timer' \subseteq In("wait")' \cup In("stranded")'
        /\ cancelTo' = [d \in Calls |-> IF pc'[d] = "sent" THEN cancelTo[d] ELSE NoChild]
        /\ \A y \in {x} : pc'[y] = Started({x}, k)[y]
        /\ \A y \in Callers \ {x} : pc'[y] = pc[y]
    BY <2>1, <2>2, MoveFacts
  <2> DEFINE writable == TRUE
  <2>4. /\ k \in Children \cup {NoChild} /\ writable \in BOOLEAN
        /\ writable <=> k # NoChild /\ alive'[k] # "dying"
        /\ Send({x}, k, writable) /\ \A y \in {x} : pc[y] \notin Settled
    BY <1>1, <1>2, <2>1
  <2> HIDE DEF writable
  <2>5. /\ AskedInv(inbox', stage, pc') /\ SentInv(k, alive', listening', pc', sentTo')
        /\ AccountInv(pc', sentTo', alive', inbox', stage, server, outbox)
        /\ StopInv(pc', sentTo', cancelTo', inbox', stage, server, signalled)
    <3>1. /\ AskedInv(inbox, stage, pc) /\ SentInv(k, alive', listening', pc, sentTo)
          /\ AccountInv(pc, sentTo, alive', inbox, stage, server, outbox)
          /\ StopInv(pc, sentTo, cancelTo, inbox, stage, server, signalled)
          /\ k # NoChild => HeardInv(k, alive', listening')
          /\ NoChild \notin Children /\ {x} \in SUBSET Callers
      BY <1>1, <1>2, <1>3
    <3> QED BY <2>3, <2>4, <3>1, SendKeeps
  <2> QED BY <1>1, <1>3, <2>3, <2>5 DEF BridgeInv
<1> QED BY <1>5, <1>6, <1>7

\* A line was read: an answer to a call that is not pending is of no account.
LEMMA ReadAccount ==
    ASSUME BridgeInv, NEW k \in Children, outbox[k] # <<>>,
           outbox' = [outbox EXCEPT ![k] = Tail(outbox[k])],
           NEW where, NEW to, NEW in, NEW own, SentInv(own, alive, listening, where, to),
           AccountInv(where, to, alive, in, stage, server, outbox),
           \A c \in Calls : where[c] = "sent" => Head(outbox[k]) # Reply(c)
    PROVE  AccountInv(where, to, alive, in, stage, server, outbox')
<1>1. \A y : Holds(outbox[k], y) /\ y # Head(outbox[k]) => Holds(outbox'[k], y)
  BY BridgeFacts, HoldsTail
<1>2. \A l \in Children \ {k} : outbox'[l] = outbox[l]
  BY BridgeFacts
<1>3. \A c \in Calls : where[c] = "sent" => to[c] \in Children
  BY DEF SentInv
<1>4. \A c \in Calls : where[c] = "sent" /\ Holds(outbox[to[c]], Reply(c)) => Holds(outbox'[to[c]], Reply(c))
  BY <1>1, <1>2, <1>3
<1> QED BY <1>4 DEF AccountInv, Underway

LEMMA ReadKeeps ==
    ASSUME BridgeInv, NEW k \in Children, Read(k)
    PROVE  BridgeInv'
<1> DEFINE line == Head(outbox[k])
<1>1. /\ outbox[k] # <<>> /\ outbox' = [outbox EXCEPT ![k] = Tail(outbox[k])]
      /\ UNCHANGED <<alive, activeTask, stage, server, signalled, loops, child, listening>>
      /\ IF line = Ready THEN ReadReady ELSE ReadAnswer(line.call)
  BY DEF Read, serviceVars, gatewayVars
<1>2. outbox' \in [Children -> Seq(Lines)] /\ line \in Lines
  <2>1. outbox[k] \in Seq(Lines)
    BY BridgeFacts
  <2>2. Tail(outbox[k]) \in Seq(Lines) /\ line \in Lines
    BY <1>1, <2>1, TailFacts
  <2> QED BY <1>1, <2>2, BridgeFacts
<1> HIDE DEF line
<1>3. CASE line = Ready
  <2>1. \A c : line # Reply(c)
    BY <1>3, LineFacts
  <2>2. CASE ready = "pending"
    <3> DEFINE xs == In("wait")
    <3>1. Move(Started(xs, child)) /\ Send(xs, child, Writable(child))
      BY <1>1, <1>3, <2>2 DEF ReadReady
    <3>2. /\ xs \in SUBSET Callers /\ Started(xs, child) \in [xs -> Places]
          /\ \A x \in xs : pc[x] \notin Settled
      BY DEF Started, Places, In, Settled
    <3> HIDE DEF xs
    <3>3. /\ pc' \in [Callers -> Places] /\ timer' \subseteq In("wait")' \cup In("stranded")'
          /\ cancelTo' = [d \in Calls |-> IF pc'[d] = "sent" THEN cancelTo[d] ELSE NoChild]
          /\ \A x \in xs : pc'[x] = Started(xs, child)[x]
          /\ \A x \in Callers \ xs : pc'[x] = pc[x]
      BY <3>1, <3>2, MoveFacts
    <3>4. Writable(child) \in BOOLEAN
      BY DEF Writable
    <3>5. /\ AskedInv(inbox, stage, pc) /\ SentInv(child, alive, listening, pc, sentTo)
          /\ AccountInv(pc, sentTo, alive, inbox, stage, server, outbox)
          /\ StopInv(pc, sentTo, cancelTo, inbox, stage, server, signalled)
      BY BridgeFacts
    <3>6. /\ AskedInv(inbox', stage, pc') /\ SentInv(child, alive, listening, pc', sentTo')
          /\ AccountInv(pc', sentTo', alive, inbox', stage, server, outbox)
          /\ StopInv(pc', sentTo', cancelTo', inbox', stage, server, signalled)
      BY <3>1, <3>2, <3>3, <3>4, <3>5, ChildFacts, SendKeeps
    <3>7. AccountInv(pc', sentTo', alive, inbox', stage, server, outbox')
      BY <1>1, <2>1, <3>6, ReadAccount DEF line
    <3> QED BY <1>1, <1>2, <3>3, <3>6, <3>7, BridgeFacts DEF BridgeInv
  <2>3. CASE ready # "pending"
    <3>1. UNCHANGED <<pc, timer, cancelTo, sentTo, inbox>>
      BY <1>1, <1>3, <2>3 DEF ReadReady
    <3>2. AccountInv(pc, sentTo, alive, inbox, stage, server, outbox')
      BY <1>1, <2>1, ReadAccount, BridgeFacts DEF line
    <3> QED BY <1>1, <1>2, <3>1, <3>2, BridgeFacts DEF BridgeInv, In
  <2> QED BY <2>2, <2>3
<1>4. CASE line # Ready
  <2> DEFINE ms == {line.call} \cap Pending
             moves == To(ms, "returned")
  <2>1. Move(moves) /\ NothingSent /\ UNCHANGED inbox
    BY <1>1, <1>4 DEF ReadAnswer
  <2>2. /\ ms \in SUBSET Callers /\ moves \in [ms -> Places] /\ \A x \in ms : moves[x] = "returned"
        /\ \A x \in Callers \ ms : x = line.call => pc[x] # "sent"
    BY ToTyped DEF Places, Pending, In
  <2> HIDE DEF ms, moves
  <2>3. Quiet
    BY <2>1, <2>2, MovesQuiet
  <2>4. /\ pc' \in [Callers -> Places] /\ timer' \subseteq In("wait")' \cup In("stranded")'
        /\ cancelTo' = [d \in Calls |-> IF pc'[d] = "sent" THEN cancelTo[d] ELSE NoChild]
        /\ \A x \in ms : pc'[x] = "returned"
        /\ \A x \in Callers \ ms : pc'[x] = pc[x]
    BY <2>1, <2>2, MoveFacts
  <2>5. /\ AskedInv(inbox, stage, pc') /\ SentInv(child, alive, listening, pc', sentTo')
        /\ AccountInv(pc', sentTo', alive, inbox, stage, server, outbox)
        /\ StopInv(pc', sentTo', cancelTo', inbox, stage, server, signalled)
    BY <2>1, <2>3, <2>4, BridgeFacts, QuietKeeps
  <2>6. \A c \in Calls : pc'[c] = "sent" => line # Reply(c)
    <3>1. \A c \in Calls : line = Reply(c) => c = line.call /\ c \in Callers
      BY LineFacts, BridgeFacts
    <3> QED BY <2>2, <2>4, <3>1
  <2>7. AccountInv(pc', sentTo', alive, inbox, stage, server, outbox')
    BY <1>1, <2>5, <2>6, ReadAccount DEF line
  <2> QED BY <1>1, <1>2, <2>1, <2>4, <2>5, <2>7, BridgeFacts DEF BridgeInv
<1> QED BY <1>3, <1>4

LEMMA AfterStopTyped ==
    ASSUME NEW rs \in SUBSET Stops
    PROVE  /\ AfterStop(rs) \in [rs -> Places] /\ rs \cap Calls = {} /\ rs \subseteq Callers
  BY BridgeAssumption DEF AfterStop, Places, Callers

\* The exit of any CLI of the manager's fails all that is pending.
LEMMA ExitKeeps ==
    ASSUME BridgeInv, NEW k \in Children, Exit(k)
    PROVE  BridgeInv'
<1> DEFINE rs == {r \in Stops : stopping[r] = k}
           moves == Over(To(Fails, "returned"), AfterStop(rs))
           ms == Fails \cup rs
<1>1. /\ alive' = [alive EXCEPT ![k] = "dead"] /\ child' = NoChild
      /\ Move(moves) /\ NothingSent
      /\ UNCHANGED <<inbox, outbox, activeTask, stage, server, signalled, loops, listening>>
  BY DEF Exit, Resume, serviceVars, gatewayVars
<1>2. /\ ms \in SUBSET Callers /\ moves \in [ms -> Places]
      /\ \A x \in Fails : moves[x] = "returned"
      /\ \A x \in Callers \ ms : pc[x] # "sent"
      /\ \A c \in ms \cap Calls : c \in Fails
  <2>1. /\ AfterStop(rs) \in [rs -> Places] /\ rs \cap Calls = {} /\ rs \subseteq Callers
    BY AfterStopTyped
  <2>2. To(Fails, "returned") \in [Fails -> Places] /\ \A x \in Fails : To(Fails, "returned")[x] = "returned"
    BY ToTyped DEF Places
  <2>3. Fails \subseteq Callers /\ \A x \in Callers \ Fails : pc[x] # "sent"
    BY DEF Fails, Pending, In
  <2> HIDE DEF rs
  <2>4. moves \in [ms -> Places] /\ \A x \in Fails : moves[x] = To(Fails, "returned")[x]
    BY <2>1, <2>2 DEF Over
  <2> QED BY <2>1, <2>2, <2>3, <2>4
<1> HIDE DEF ms, moves
<1>3. /\ Quiet /\ pc' \in [Callers -> Places] /\ timer' \subseteq In("wait")' \cup In("stranded")'
      /\ cancelTo' = [c \in Calls |-> IF pc'[c] = "sent" THEN cancelTo[c] ELSE NoChild]
  <2>1. \A c \in ms \cap Calls : moves[c] = "returned"
    BY <1>2
  <2> QED BY <1>1, <1>2, <2>1, MoveFacts, MovesQuiet
<1>4. \A c \in Calls : pc'[c] # "sent"
  <2>1. \A c \in Calls : c \notin ms => pc'[c] = pc[c] /\ pc[c] # "sent"
    BY <1>1, <1>2, MoveFacts, BridgeFacts
  <2>2. \A c \in Calls : c \in ms => pc'[c] = "returned"
    BY <1>1, <1>2, MoveFacts
  <2> QED BY <2>1, <2>2
<1>5. \A c \in Calls : sentTo'[c] = NoChild /\ cancelTo'[c] = NoChild
  BY <1>1, <1>3, <1>4 DEF NothingSent
<1>6. sentTo' \in [Calls -> Children \cup {NoChild}] /\ cancelTo' \in [Calls -> Children \cup {NoChild}]
  BY <1>1, <1>3, <1>4 DEF NothingSent
<1>7. AskedInv(inbox, stage, pc')
  BY <1>3, BridgeFacts, AskedMoved DEF Quiet
<1>8. SentInv(NoChild, alive', listening, pc', sentTo')
  <2>1. alive' \in [Children -> Living \cup {"unborn", "dead"}]
    BY <1>1, BridgeFacts
  <2>2. listening \subseteq Children
    BY BridgeFacts DEF SentInv
  <2> QED BY <1>3, <1>4, <1>5, <1>6, <2>1, <2>2 DEF SentInv
<1>9. /\ AccountInv(pc', sentTo', alive', inbox, stage, server, outbox)
      /\ StopInv(pc', sentTo', cancelTo', inbox, stage, server, signalled)
  BY <1>4, <1>5, <1>6 DEF AccountInv, StopInv
<1> QED BY <1>1, <1>3, <1>7, <1>8, <1>9, BridgeFacts DEF BridgeInv

\* What a stop leaves behind: waiters stranded and, when it disposes, requests failed.
LEMMA LeftTyped ==
    ASSUME BridgeInv, NEW r \in Stops, pc[r] \in {"idle", "stopping"}
    PROVE  \E ms \in SUBSET Callers :
             /\ Over(AfterStop({r}), LeftBy(r)) \in [ms -> Places]
             /\ \A c \in ms \cap Calls :
                    /\ Over(AfterStop({r}), LeftBy(r))[c] # "sent"
                    /\ pc[c] \in Settled => Over(AfterStop({r}), LeftBy(r))[c] = "returned"
<1> DEFINE waits == In("wait")
           fails == IF r \in Disposes THEN Pending ELSE {}
           left == Over(To(waits, "stranded"), To(fails, "returned"))
           after == AfterStop({r})
           ms == {r} \cup (waits \cup fails)
<1>1. /\ after \in [{r} -> Places] /\ r \notin Calls /\ r \in Callers
  BY AfterStopTyped
<1>2. /\ To(waits, "stranded") \in [waits -> Places] /\ To(fails, "returned") \in [fails -> Places]
      /\ \A x \in waits : To(waits, "stranded")[x] = "stranded"
      /\ \A x \in fails : To(fails, "returned")[x] = "returned"
  BY ToTyped DEF Places
<1>3. /\ waits \subseteq Callers /\ fails \subseteq Callers
      /\ \A x \in waits : pc[x] = "wait"
  BY DEF In, Pending
<1> HIDE DEF waits, fails, after
<1>4. /\ left \in [waits \cup fails -> Places]
      /\ \A x \in waits : left[x] = "stranded"
      /\ \A x \in fails \ waits : left[x] = "returned"
  BY <1>2 DEF Over
<1> HIDE DEF left
<1>5. /\ Over(after, left) \in [ms -> Places]
      /\ \A x \in (waits \cup fails) \ {r} : Over(after, left)[x] = left[x]
  BY <1>1, <1>4 DEF Over
<1>6. \A c \in ms \cap Calls :
            /\ Over(after, left)[c] # "sent"
            /\ pc[c] \in Settled => Over(after, left)[c] = "returned"
  <2> SUFFICES ASSUME NEW c \in ms \cap Calls
               PROVE  /\ Over(after, left)[c] # "sent"
                      /\ pc[c] \in Settled => Over(after, left)[c] = "returned"
    OBVIOUS
  <2>1. c \in (waits \cup fails) \ {r} /\ Over(after, left)[c] = left[c]
    BY <1>1, <1>5
  <2>2. c \in waits => left[c] = "stranded" /\ pc[c] \notin Settled
    BY <1>3, <1>4 DEF Settled
  <2>3. c \notin waits => left[c] = "returned"
    BY <1>4, <2>1
  <2> QED BY <2>1, <2>2, <2>3
<1>7. Over(AfterStop({r}), LeftBy(r)) = Over(after, left)
  BY DEF after, left, waits, fails, LeftBy
<1>8. ms \in SUBSET Callers
  BY <1>1, <1>3
<1> QED BY <1>5, <1>6, <1>7, <1>8

\* The manager's CLI has ended: it is no longer the manager's, nor read.
LEMMA DroppedFacts ==
    ASSUME NEW life, NEW where, NEW to, SentInv(child, life, listening, where, to),
           child # NoChild => life[child] = "dying"
    PROVE  SentInv(NoChild, life, listening \ {child}, where, to)
<1>1. \A l \in Children : HeardInv(l, life, listening) => HeardInv(l, life, listening \ {child})
  BY CliAssumption DEF HeardInv
<1> QED BY <1>1 DEF SentInv

LEMMA StopTimerKeeps ==
    ASSUME BridgeInv, NEW r \in Stops, StopTimer(r)
    PROVE  BridgeInv'
<1>1. /\ pc[r] = "stopping" /\ Move(Over(AfterStop({r}), LeftBy(r))) /\ NothingSent
      /\ child' = NoChild /\ listening' = listening \ {child}
      /\ IF Writable(child) THEN Ends(child) ELSE UNCHANGED <<alive, inbox, serviceVars>>
      /\ UNCHANGED <<outbox, loops>>
  BY DEF StopTimer, Resume, gatewayVars
<1>2. /\ ServeInv(activeTask', stage', server', loops')
      /\ AskedInv(inbox', stage', pc)
      /\ SentInv(child, alive', listening, pc, sentTo)
      /\ AccountInv(pc, sentTo, alive', inbox', stage', server', outbox')
      /\ StopInv(pc, sentTo, cancelTo, inbox', stage', server', signalled')
      /\ child # NoChild => alive'[child] = "dying"
  <2>1. CASE Writable(child)
    <3>1. /\ child \in Children /\ alive[child] \in {"booting", "up"} /\ Ends(child)
      BY <1>1, <2>1, ChildFacts
    <3>2. loops' \in [Children -> SUBSET Tasks]
      BY <1>1, BridgeFacts
    <3>3. alive'[child] = "dying"
      BY <3>1, BridgeFacts DEF Ends
    <3> QED BY <1>1, <3>1, <3>2, <3>3, EndsFacts
  <2>2. CASE ~Writable(child)
    <3>1. UNCHANGED <<alive, inbox, activeTask, stage, server, signalled, outbox, loops>>
      BY <1>1, <2>2 DEF serviceVars
    <3>2. child # NoChild => alive'[child] = "dying"
      BY <2>2, <3>1, ChildFacts
    <3> QED BY <3>1, <3>2, BridgeFacts
  <2> QED BY <2>1, <2>2
<1>3. SentInv(NoChild, alive', listening', pc, sentTo)
  BY <1>1, <1>2, DroppedFacts
<1>4. PICK ms \in SUBSET Callers :
        /\ Over(AfterStop({r}), LeftBy(r)) \in [ms -> Places]
        /\ \A c \in ms \cap Calls :
               /\ Over(AfterStop({r}), LeftBy(r))[c] # "sent"
               /\ pc[c] \in Settled => Over(AfterStop({r}), LeftBy(r))[c] = "returned"
  BY <1>1, LeftTyped
<1>5. /\ Quiet /\ pc' \in [Callers -> Places] /\ timer' \subseteq In("wait")' \cup In("stranded")'
      /\ cancelTo' = [c \in Calls |-> IF pc'[c] = "sent" THEN cancelTo[c] ELSE NoChild]
  BY <1>1, <1>4, MoveFacts, MovesQuiet
<1>6. /\ AskedInv(inbox', stage', pc') /\ SentInv(NoChild, alive', listening', pc', sentTo')
      /\ AccountInv(pc', sentTo', alive', inbox', stage', server', outbox')
      /\ StopInv(pc', sentTo', cancelTo', inbox', stage', server', signalled')
  BY <1>1, <1>2, <1>3, <1>5, QuietKeeps
<1> QED BY <1>1, <1>2, <1>5, <1>6, BridgeFacts DEF BridgeInv
----------------------------------------------------------------------------
(* Lines the manager writes besides requests *)

LEMMA PutKeeps ==
    ASSUME NEW in, NEW st, NEW where, AskedInv(in, st, where), NEW k \in Children, NEW m \in Msgs,
           Adds(m, where),
           NEW in1, in1 = Put(in, k, m),
           NEW to, NEW own, NEW reads, NEW life, NEW srv, NEW out, NEW sig, NEW stopTo,
           SentInv(own, life, reads, where, to), AccountInv(where, to, life, in, st, srv, out),
           StopInv(where, to, stopTo, in, st, srv, sig)
    PROVE  /\ AskedInv(in1, st, where) /\ AccountInv(where, to, life, in1, st, srv, out)
           /\ StopInv(where, to, stopTo, in1, st, srv, sig)
           /\ Holds(in1[k], m)
<1>1. /\ AskedInv(in1, st, where)
      /\ \A l \in Children : \A y : Holds(in1[l], y) <=> Holds(in[l], y) \/ (l = k /\ y = m)
  <2>1. AskedInv(in1, st, where)
    BY AskedPut
  <2>2. \A l \in Children : \A y : Holds(in1[l], y) <=> Holds(in[l], y) \/ (l = k /\ y = m)
    BY SMTT(20), AskedPut
  <2> QED BY <2>1, <2>2
<1>2. \A l \in Children, c \in Calls : Holds(in1[l], Request(c)) <=> Holds(in[l], Request(c))
  BY <1>1, LineFacts DEF Adds
<1>3. \A c \in Calls : where[c] = "sent" => to[c] \in Children
  BY DEF SentInv
<1>4. AccountInv(where, to, life, in1, st, srv, out)
  BY <1>1, <1>3 DEF AccountInv, Underway
<1>5. \A c \in Calls : stopTo[c] # NoChild => to[c] \in Children
  BY <1>3 DEF StopInv
<1>6. StopInv(where, to, stopTo, in1, st, srv, sig)
  BY <1>1, <1>2, <1>5 DEF StopInv
<1> QED BY <1>1, <1>4, <1>6

LEMMA StopKeeps ==
    ASSUME BridgeInv, NEW r \in Stops, Stop(r)
    PROVE  BridgeInv'
<1>1. /\ pc[r] = "idle" /\ r \in Callers /\ r \notin Calls
      /\ UNCHANGED <<alive, outbox, serviceVars, gatewayVars, child, listening>>
      /\ UNCHANGED <<activeTask, stage, server, signalled, loops>>
  BY BridgeAssumption DEF Stop, Callers, serviceVars, gatewayVars
<1>2. CASE child # NoChild
  <2>1. /\ Move(To({r}, "stopping")) /\ NothingSent
        /\ inbox' = IF Writable(child) THEN Put(inbox, child, Shutdown) ELSE inbox
    BY <1>2 DEF Stop
  <2>2. To({r}, "stopping") \in [{r} -> Places] /\ {r} \in SUBSET Callers /\ {r} \cap Calls = {}
    BY <1>1, ToTyped DEF Places
  <2>3. /\ Quiet /\ pc' \in [Callers -> Places] /\ timer' \subseteq In("wait")' \cup In("stranded")'
        /\ cancelTo' = [c \in Calls |-> IF pc'[c] = "sent" THEN cancelTo[c] ELSE NoChild]
    BY <2>1, <2>2, MoveFacts, MovesQuiet
  <2>4. /\ AskedInv(inbox, stage, pc') /\ SentInv(child, alive, listening, pc', sentTo')
        /\ AccountInv(pc', sentTo', alive, inbox, stage, server, outbox)
        /\ StopInv(pc', sentTo', cancelTo', inbox, stage, server, signalled)
    BY <2>1, <2>3, BridgeFacts, QuietKeeps
  <2>5. /\ AskedInv(inbox', stage, pc')
        /\ AccountInv(pc', sentTo', alive, inbox', stage, server, outbox)
        /\ StopInv(pc', sentTo', cancelTo', inbox', stage, server, signalled)
    <3>1. CASE Writable(child)
      <4>1. child \in Children /\ inbox' = Put(inbox, child, Shutdown) /\ Shutdown \in Msgs
        BY <2>1, <3>1, ChildFacts, MsgFacts
      <4>2. Adds(Shutdown, pc')
        BY DEF Adds
      <4> QED BY <2>4, <4>1, <4>2, PutKeeps
    <3>2. CASE ~Writable(child)
      BY <2>1, <2>4, <3>2
    <3> QED BY <3>1, <3>2
  <2> QED BY <1>1, <2>3, <2>4, <2>5, BridgeFacts DEF BridgeInv
<1>3. CASE child = NoChild
  <2>1. Move(Over(AfterStop({r}), LeftBy(r))) /\ NothingSent /\ UNCHANGED inbox
    BY <1>3 DEF Stop
  <2>2. PICK ms \in SUBSET Callers :
          /\ Over(AfterStop({r}), LeftBy(r)) \in [ms -> Places]
          /\ \A c \in ms \cap Calls :
                 /\ Over(AfterStop({r}), LeftBy(r))[c] # "sent"
                 /\ pc[c] \in Settled => Over(AfterStop({r}), LeftBy(r))[c] = "returned"
    BY <1>1, LeftTyped
  <2> QED BY <1>1, <2>1, <2>2, ManagerQuiet
<1> QED BY <1>2, <1>3

LEMMA CancelKeeps ==
    ASSUME BridgeInv, NEW c \in Calls, UserCancels(c)
    PROVE  BridgeInv'
<1>1. /\ c \in Tasks /\ UNCHANGED <<alive, outbox, activeTask, stage, server, signalled, loops>>
      /\ UNCHANGED <<child, pc, timer, sentTo, listening>>
  BY DEF UserCancels, Tasks, serviceVars, gatewayVars
<1>2. CASE pc[c] = "sent" /\ Writable(child)
  <2>1. /\ cancelTo' = [cancelTo EXCEPT ![c] = child] /\ inbox' = Put(inbox, child, Cancel(c))
    BY <1>2 DEF UserCancels
  <2>2. child \in Children /\ Cancel(c) \in Msgs /\ Adds(Cancel(c), pc)
    BY <1>2, ChildFacts, MsgFacts DEF Settled, Adds
  <2>3. /\ AskedInv(inbox', stage, pc)
        /\ AccountInv(pc, sentTo, alive, inbox', stage, server, outbox)
        /\ StopInv(pc, sentTo, cancelTo, inbox', stage, server, signalled)
        /\ Holds(inbox'[child], Cancel(c))
    BY <2>1, <2>2, BridgeFacts, PutKeeps
  <2>4. StopInv(pc, sentTo, cancelTo', inbox', stage, server, signalled)
    <3>1. /\ cancelTo' \in [Calls -> Children \cup {NoChild}] /\ cancelTo'[c] = child
          /\ \A d \in Calls \ {c} : cancelTo'[d] = cancelTo[d]
      BY <2>1, <2>2, <2>3 DEF StopInv
    <3>2. \A d \in Calls : cancelTo'[d] # NoChild => pc[d] = "sent" /\ d \in Tasks
      BY <1>1, <1>2, <2>3, <3>1 DEF StopInv
    <3>3. ASSUME NEW d \in Calls, cancelTo'[d] # NoChild, cancelTo'[d] = sentTo[d]
          PROVE  /\ Holds(inbox'[sentTo[d]], Request(d)) => Holds(inbox'[sentTo[d]], Cancel(d))
                 /\ server[d] = sentTo[d] => d \in signalled \/ Holds(inbox'[sentTo[d]], Cancel(d))
      <4>1. CASE d = c
        BY <2>3, <3>1, <3>3, <4>1
      <4>2. CASE d # c
        BY <2>3, <3>1, <3>3, <4>2 DEF StopInv
      <4> QED BY <4>1, <4>2
    <3> QED BY <3>1, <3>2, <3>3 DEF StopInv
  <2> QED BY <1>1, <2>3, <2>4, BridgeFacts DEF BridgeInv, In
<1>3. CASE ~(pc[c] = "sent" /\ Writable(child))
  <2>1. UNCHANGED <<cancelTo, inbox>>
    BY <1>3 DEF UserCancels
  <2> QED BY <1>1, <2>1, BridgeFacts DEF BridgeInv, In
<1> QED BY <1>2, <1>3
----------------------------------------------------------------------------
(* The invariant of the specification *)

LEMMA InitHolds == Init => BridgeInv /\ TypeInv
<1> SUFFICES ASSUME Init PROVE BridgeInv /\ TypeInv
  OBVIOUS
<1>1. /\ alive = [k \in Children |-> "unborn"] /\ inbox = [k \in Children |-> <<>>]
      /\ outbox = [k \in Children |-> <<>>] /\ activeTask = [k \in Children |-> NoCall]
      /\ stage = [c \in Calls |-> "none"] /\ server = [c \in Calls |-> NoChild]
      /\ signalled = {} /\ gateway = [k \in Children |-> "down"]
      /\ owned = [k \in Children |-> FALSE] /\ loops = [k \in Children |-> {}] /\ faults = 0
      /\ child = NoChild /\ ready = "none" /\ disposed = FALSE
      /\ pc = [x \in Callers |-> "idle"] /\ timer = {} /\ sentTo = [c \in Calls |-> NoChild]
      /\ listening = {} /\ stopping = [r \in Stops |-> NoChild] /\ cancelled = {}
      /\ cancelTo = [c \in Calls |-> NoChild]
  BY DEF Init, StdioInit
<1>2. ServeInv(activeTask, stage, server, loops)
  BY <1>1 DEF ServeInv, Stages, Tasks
<1>3. AskedInv(inbox, stage, pc)
  <2>1. InOrder(<<>>) /\ \A y : ~Holds(<<>>, y)
    BY DEF InOrder, Holds
  <2>2. inbox \in [Children -> Seq(Msgs)] /\ \A k \in Children : inbox[k] = <<>>
    BY <1>1
  <2> QED BY <1>1, <2>1, <2>2 DEF AskedInv
<1>4. Calls \subseteq Callers /\ \A c \in Calls : pc[c] # "sent"
  BY <1>1 DEF Callers
<1>5. SentInv(child, alive, listening, pc, sentTo)
  <2>1. pc \in [Callers -> Places]
    BY <1>1 DEF Places
  <2> QED BY <1>1, <1>4, <2>1 DEF SentInv
<1>6. /\ AccountInv(pc, sentTo, alive, inbox, stage, server, outbox)
      /\ StopInv(pc, sentTo, cancelTo, inbox, stage, server, signalled)
  BY <1>1, <1>4 DEF AccountInv, StopInv
<1>7. outbox \in [Children -> Seq(Lines)] /\ timer \subseteq In("wait") \cup In("stranded")
  BY <1>1
<1>8. TypeInv
  BY <1>1 DEF TypeInv
<1> QED BY <1>2, <1>3, <1>5, <1>6, <1>7, <1>8 DEF BridgeInv

\* Every step of the manager and of the CLIs keeps it.
LEMMA StepKeeps == BridgeInv /\ [Next]_vars => BridgeInv'
<1> SUFFICES ASSUME BridgeInv, [Next]_vars PROVE BridgeInv'
  OBVIOUS
<1>1. CASE UNCHANGED vars
  BY <1>1 DEF vars, stdioVars, serviceVars, gatewayVars, managerVars, BridgeInv, In
<1>2. ASSUME StdioNext, UNCHANGED managerVars PROVE BridgeInv'
  <2> PICK k \in Children :
        \/ Handle(k) \/ ChildCrashes(k) \/ GatewayListens(k) \/ GatewayDies(k)
        \/ \E c \in Calls : Serve(k, c) \/ LoopNotices(k, c)
    BY <1>2 DEF StdioNext
  <2>1. CASE Handle(k) \/ ChildCrashes(k)
    BY <1>2, <2>1, BootKeeps, TakeRequestKeeps, TakeCancelKeeps, EndsKeeps DEF Handle
  <2>2. CASE GatewayListens(k) \/ GatewayDies(k) \/ \E c \in Calls : LoopNotices(k, c)
    BY <1>2, <2>2, GatewayKeeps
  <2>3. CASE \E c \in Calls : Serve(k, c)
    BY <1>2, <2>3, ServeKeeps
  <2> QED BY <2>1, <2>2, <2>3
<1>3. CASE \E c \in Calls : Call(c) \/ UserCancels(c)
  BY <1>3, CallKeeps, CancelKeeps
<1>4. CASE \E x \in Callers, k \in Children : Spawn(x, k)
  BY <1>4, SpawnKeeps
<1>5. CASE \E x \in Callers : StartTimeout(x)
  BY <1>5, TimeoutKeeps
<1>6. CASE \E k \in Children : Read(k) \/ Exit(k)
  BY <1>6, ReadKeeps, ExitKeeps
<1>7. CASE \E r \in Stops : Stop(r) \/ StopTimer(r)
  BY <1>7, StopKeeps, StopTimerKeeps
<1> QED BY <1>1, <1>2, <1>3, <1>4, <1>5, <1>6, <1>7 DEF Next

\* Faults are counted, and nothing but a step of a CLI changes its gateway.
LEMMA StdioTyped ==
    ASSUME BridgeInv, TypeInv, StdioNext, UNCHANGED managerVars
    PROVE  TypeInv'
<1>1. /\ signalled \subseteq Calls /\ gateway \in [Children -> {"down", "starting", "up"}]
      /\ owned \in [Children -> BOOLEAN] /\ faults \in Nat
  BY DEF TypeInv
<1> PICK k \in Children :
      \/ Handle(k) \/ ChildCrashes(k) \/ GatewayListens(k) \/ GatewayDies(k)
      \/ \E c \in Calls : Serve(k, c) \/ LoopNotices(k, c)
  BY DEF StdioNext
<1>2. faults' \in Nat
  <2>1. UNCHANGED faults \/ Fault
    BY DEF Handle, Boot, TakeRequest, TakeCancel, TakeShutdown, ChildCrashes, GatewayListens,
           GatewayDies, Serve, Health, AwaitGateway, Returns, Cancelled, LoopNotices
  <2> QED BY <1>1, <2>1 DEF Fault
<1>3. signalled' \subseteq Calls
  <2>1. CASE TakeRequest(k)
    <3>1. signalled' \subseteq signalled
      BY <2>1 DEF TakeRequest, Answer
    <3> QED BY <1>1, <3>1
  <2>2. CASE TakeCancel(k)
    BY <1>1, <2>2 DEF TakeCancel, Cancellable, ServedBy
  <2>3. CASE ChildCrashes(k) \/ TakeShutdown(k)
    BY <1>1, <2>3 DEF ChildCrashes, TakeShutdown, Ends, Forgotten
  <2>4. CASE \E c \in Calls : Serve(k, c)
    <3>1. signalled' \subseteq signalled
      BY <2>4 DEF Serve, Health, AwaitGateway, Returns, Cancelled, Answer
    <3> QED BY <1>1, <3>1
  <2>5. CASE Boot(k) \/ GatewayListens(k) \/ GatewayDies(k) \/ \E c \in Calls : LoopNotices(k, c)
    BY <1>1, <2>5 DEF Boot, GatewayListens, GatewayDies, LoopNotices, serviceVars
  <2> QED BY <2>1, <2>2, <2>3, <2>4, <2>5 DEF Handle
<1>4. gateway' \in [Children -> {"down", "starting", "up"}] /\ owned' \in [Children -> BOOLEAN]
  <2>1. CASE UNCHANGED <<gateway, owned>>
    BY <1>1, <2>1
  <2>2. CASE StartGateway(k)
    <3>1. /\ gateway' = [gateway EXCEPT ![k] = IF gateway[k] = "down" THEN "starting" ELSE gateway[k]]
          /\ \E mine \in BOOLEAN : owned' = [owned EXCEPT ![k] = mine]
      BY <2>2 DEF StartGateway
    <3> QED BY <1>1, <3>1
  <2>3. CASE TakeShutdown(k)
    <3>1. /\ gateway' = [gateway EXCEPT ![k] = IF owned[k] THEN "down" ELSE gateway[k]]
          /\ owned' = [owned EXCEPT ![k] = FALSE]
      BY <2>3 DEF TakeShutdown
    <3> QED BY <1>1, <3>1
  <2>4. CASE GatewayListens(k)
    BY <1>1, <2>4 DEF GatewayListens
  <2>5. CASE GatewayDies(k)
    BY <1>1, <2>5 DEF GatewayDies
  <2>6. CASE Boot(k) \/ TakeRequest(k) \/ TakeCancel(k) \/ ChildCrashes(k)
    BY <2>1, <2>6 DEF Boot, TakeRequest, TakeCancel, ChildCrashes, gatewayVars
  <2>7. CASE \E c \in Calls : Serve(k, c) \/ LoopNotices(k, c)
    BY <2>1, <2>2, <2>7 DEF Serve, Health, AwaitGateway, Returns, Cancelled, LoopNotices, gatewayVars
  <2> QED BY <2>3, <2>4, <2>5, <2>6, <2>7 DEF Handle
<1> QED BY <1>2, <1>3, <1>4 DEF TypeInv, managerVars

LEMMA ManagerTyped ==
    ASSUME BridgeInv, TypeInv, UNCHANGED <<gateway, owned>>, signalled' \subseteq signalled,
           UNCHANGED faults \/ Fault,
           ready' \in {"none", "pending", "resolved", "rejected"}, disposed' \in BOOLEAN,
           stopping' \in [Stops -> Children \cup {NoChild}], cancelled' \subseteq Calls
    PROVE  TypeInv'
  BY DEF TypeInv, Fault

LEMMA TypeKeeps == BridgeInv /\ TypeInv /\ [Next]_vars => TypeInv'
<1> SUFFICES ASSUME BridgeInv, TypeInv, [Next]_vars PROVE TypeInv'
  OBVIOUS
<1> DEFINE Ready4 == {"none", "pending", "resolved", "rejected"}
<1>1. /\ ready \in Ready4 /\ disposed \in BOOLEAN /\ cancelled \subseteq Calls
      /\ stopping \in [Stops -> Children \cup {NoChild}]
  BY DEF TypeInv
<1>2. CASE UNCHANGED vars
  BY <1>2 DEF vars, stdioVars, serviceVars, gatewayVars, managerVars, TypeInv
<1>3. CASE StdioNext /\ UNCHANGED managerVars
  BY <1>3, StdioTyped
<1>4. ASSUME NEW c \in Calls, Call(c) PROVE TypeInv'
  <2>1. cancelled' \subseteq cancelled
    BY <1>4 DEF Call, Joins, BeginsStart, Move
  <2>2. ready' \in Ready4
    BY <1>1, <1>4 DEF Call, BeginsStart
  <2> QED BY <1>1, <1>4, <2>1, <2>2, ManagerTyped DEF Call, gatewayVars, serviceVars
<1>5. ASSUME NEW c \in Calls, UserCancels(c) PROVE TypeInv'
  BY <1>1, <1>5, ManagerTyped DEF UserCancels, gatewayVars, serviceVars
<1>6. ASSUME NEW x \in Callers, NEW k \in Children, Spawn(x, k) PROVE TypeInv'
  <2>1. cancelled' \subseteq cancelled
    BY <1>6 DEF Spawn, Move
  <2> QED BY <1>1, <1>6, <2>1, ManagerTyped DEF Spawn, gatewayVars, serviceVars
<1>7. ASSUME NEW x \in Callers, StartTimeout(x) PROVE TypeInv'
  <2>1. cancelled' \subseteq cancelled
    BY <1>7 DEF StartTimeout, Move
  <2> QED BY <1>1, <1>7, <2>1, ManagerTyped DEF StartTimeout, gatewayVars, serviceVars
<1>8. ASSUME NEW k \in Children, Read(k) PROVE TypeInv'
  <2>1. cancelled' \subseteq cancelled
    BY <1>8 DEF Read, ReadReady, ReadAnswer, Move
  <2>2. ready' \in Ready4
    BY <1>1, <1>8 DEF Read, ReadReady, ReadAnswer
  <2> QED BY <1>1, <1>8, <2>1, <2>2, ManagerTyped DEF Read, gatewayVars, serviceVars
<1>9. ASSUME NEW rs, rs \subseteq Stops, Resume(rs)
      PROVE  /\ ready' \in Ready4 /\ disposed' \in BOOLEAN
             /\ stopping' \in [Stops -> Children \cup {NoChild}]
  BY <1>1, <1>9 DEF Resume
<1>10. ASSUME NEW k \in Children, Exit(k) PROVE TypeInv'
  <2> DEFINE rs == {r \in Stops : stopping[r] = k}
  <2>1. /\ cancelled' \subseteq cancelled
        /\ UNCHANGED <<gateway, owned, signalled, faults>>
        /\ IF rs # {} THEN Resume(rs)
           ELSE ready' = (IF ready = "pending" THEN "rejected" ELSE ready) /\ UNCHANGED <<disposed, stopping>>
    BY <1>10 DEF Exit, Move, gatewayVars, serviceVars
  <2>2. rs \subseteq Stops
    OBVIOUS
  <2> HIDE DEF rs
  <2>3. /\ ready' \in Ready4 /\ disposed' \in BOOLEAN
        /\ stopping' \in [Stops -> Children \cup {NoChild}]
    BY <1>1, <1>9, <2>1, <2>2
  <2> QED BY <1>1, <2>1, <2>3, ManagerTyped
<1>11. ASSUME NEW r \in Stops, Stop(r) PROVE TypeInv'
  <2>1. cancelled' \subseteq cancelled
    BY <1>11 DEF Stop, Move
  <2>2. child \in Children \cup {NoChild}
    BY ChildFacts
  <2>3. /\ ready' \in Ready4 /\ disposed' \in BOOLEAN
        /\ stopping' \in [Stops -> Children \cup {NoChild}]
    <3>1. CASE child # NoChild
      <4>1. /\ stopping' = [stopping EXCEPT ![r] = child] /\ ready' = ready
            /\ disposed' = (disposed \/ r \in Disposes)
        BY <1>11, <3>1 DEF Stop
      <4>2. disposed' \in BOOLEAN
        BY <4>1
      <4> QED BY <1>1, <2>2, <4>1, <4>2
    <3>2. CASE child = NoChild
      <4>1. /\ ready' \in {"none", "pending"} /\ stopping' = stopping
            /\ disposed' = (r \in Disposes)
        BY <1>11, <3>2 DEF Stop
      <4>2. disposed' \in BOOLEAN
        BY <4>1
      <4> QED BY <1>1, <4>1, <4>2
    <3> QED BY <3>1, <3>2
  <2> QED BY <1>1, <1>11, <2>1, <2>3, ManagerTyped DEF Stop, gatewayVars, serviceVars
<1>12. ASSUME NEW r \in Stops, StopTimer(r) PROVE TypeInv'
  <2>1. cancelled' \subseteq cancelled /\ Resume({r}) /\ Fault /\ UNCHANGED <<gateway, owned>>
    BY <1>12 DEF StopTimer, Move, gatewayVars
  <2>2. signalled' \subseteq signalled
    BY <1>12 DEF StopTimer, Ends, Forgotten, serviceVars
  <2>3. {r} \subseteq Stops
    BY <1>12
  <2> QED BY <1>1, <1>9, <2>1, <2>2, <2>3, ManagerTyped
<1> QED BY <1>2, <1>3, <1>4, <1>5, <1>6, <1>7, <1>8, <1>10, <1>11, <1>12 DEF Next

LEMMA BridgeHolds == Spec => [](BridgeInv /\ TypeInv)
<1>1. Init => BridgeInv /\ TypeInv
  BY InitHolds
<1>2. BridgeInv /\ TypeInv /\ [Next]_vars => (BridgeInv /\ TypeInv)'
  BY StepKeeps, TypeKeeps
<1> QED BY <1>1, <1>2, PTL DEF Spec
----------------------------------------------------------------------------
(* Theorems *)

\* Every variable keeps its type, and a pending request names the CLI it was written to.
THEOREM BridgeTyped == Spec => []TypeOK
<1>1. BridgeInv /\ TypeInv => TypeOK
  <2> SUFFICES ASSUME BridgeInv, TypeInv PROVE TypeOK
    OBVIOUS
  <2>1. Msgs \subseteq Messages
    BY DEF Msgs, Messages, Request, Cancel, Shutdown
  <2>2. inbox \in [Children -> Seq(Messages)]
    BY <2>1, BridgeFacts
  <2>3. /\ alive \in [Children -> {"unborn", "booting", "up", "dying", "dead"}]
        /\ stage \in [Calls -> {"none", "health", "waiting", "posted"}]
        /\ pc \in [Callers -> {"idle", "port", "wait", "stranded", "hung", "sent", "stopping", "returned"}]
    BY BridgeFacts DEF Living, Stages, Places
  <2>4. loops \in [Children -> SUBSET Calls]
    BY BridgeFacts DEF Tasks
  <2>5. /\ child \in Children \cup {NoChild} /\ listening \subseteq Children
        /\ \A c \in Calls : (pc[c] = "sent") <=> (sentTo[c] \in Children)
        /\ timer \subseteq In("wait") \cup In("stranded")
        /\ cancelTo \in [Calls -> Children \cup {NoChild}]
    BY CliAssumption DEF BridgeInv, SentInv, StopInv
  <2> QED BY <2>2, <2>3, <2>4, <2>5, BridgeFacts DEF TypeOK, StdioTypeOK, TypeInv
<1> QED BY <1>1, BridgeHolds, PTL

\* No pending request is lost between AylaCliProcessManager and a CLI: it is to be read,
\* is served, or has an answer that will be read, or its CLI's exit will reject it.
THEOREM RequestsAccounted == Spec => []PendingAccounted
<1>1. BridgeInv => PendingAccounted
  <2> SUFFICES ASSUME BridgeInv, NEW c \in Calls, pc[c] = "sent", alive[sentTo[c]] # "dying"
               PROVE  alive[sentTo[c]] \in {"booting", "up"} /\ OnItsWay(c, sentTo[c])
    BY DEF PendingAccounted
  <2>1. sentTo[c] \in Children /\ HeardInv(sentTo[c], alive, listening)
    BY BridgeFacts DEF SentInv
  <2>2. alive[sentTo[c]] \in {"booting", "up"} /\ sentTo[c] \in listening
    BY <2>1 DEF HeardInv, Living
  <2>3. Underway(c, sentTo[c], inbox, stage, server, outbox)
    BY BridgeFacts DEF AccountInv
  <2>4. server[c] = sentTo[c] => c \in ServedBy(sentTo[c])
    BY <2>1, BridgeFacts, ServedIs
  <2> QED BY <2>2, <2>3, <2>4 DEF Underway, OnItsWay
<1> QED BY <1>1, BridgeHolds, PTL

\* ENGINE_BUSY is never answered on behalf of a task that is over.
THEOREM EngineIsFreed == Spec => []NeverStuckBusy
<1>1. BridgeInv => NeverStuckBusy
  <2> SUFFICES ASSUME BridgeInv, NEW k \in Children, activeTask[k] # NoCall
               PROVE  activeTask[k] \in ServedBy(k)
    BY DEF NeverStuckBusy
  <2>1. activeTask[k] \in Calls /\ server[activeTask[k]] = k
    BY BridgeFacts DEF ServeInv, Tasks
  <2> QED BY <2>1, BridgeFacts, ServedIs
<1> QED BY <1>1, BridgeHolds, PTL

\* A gateway runs at most one task that its CLI still waits for: the engine's.
THEOREM OneTaskConnected == Spec => []OneConnectedTask
<1>1. BridgeInv => OneConnectedTask
  <2> SUFFICES ASSUME BridgeInv, NEW k \in Children
               PROVE  Cardinality({c \in loops[k] : Serving(k, c, "posted")}) <= 1
    BY DEF OneConnectedTask
  <2> DEFINE T == {c \in loops[k] : Serving(k, c, "posted")}
  <2>1. T \subseteq {activeTask[k]}
    BY BridgeFacts DEF ServeInv, Serving, Tasks
  <2>2. IsFiniteSet({activeTask[k]}) /\ Cardinality({activeTask[k]}) = 1
    BY FS_Singleton
  <2>3. Cardinality(T) <= 1
    BY <2>1, <2>2, FS_Subset
  <2> QED BY <2>3
<1> QED BY <1>1, BridgeHolds, PTL

\* Stop reaches the task it is meant for while the manager talks to the CLI that serves it.
THEOREM StopReaches == Spec => []StopReachesTask
<1>1. BridgeInv => StopReachesTask
  BY BridgeFacts DEF StopInv, StopReachesTask, ServedBy
<1> QED BY <1>1, BridgeHolds, PTL
=============================================================================
