------------------------- MODULE MonitorServer_proofs -------------------------
(***************************************************************************)
(* Proofs about the monitor server for any devices, HTTP clients and       *)
(* descriptors, any number of lines and every choice of environments.      *)
(***************************************************************************)
EXTENDS MonitorServer, NumberLemmas, FiniteSetTheorems, SequenceTheorems, TLAPS

Serving == pc[Command] \in {"handle", "lock", "send", "respond"}

\* Where each thread can be, and what its place says of the mutex, the device being
\* accepted and the request being served.
Protocol ==
  /\ pc[Monitor] \in {"top", "select", "accept", "push", "receive", "read", "remove",
                      "lock", "send", "exited", "failed"}
  /\ pc[Console] \in {"idle", "lock", "send", "exited"}
  /\ pc[Command] \in {"idle", "handle", "lock", "send", "respond", "exited"}
  /\ lock = Monitor <=> pc[Monitor] \in {"read", "send"}
  /\ \A t \in {Console, Command} : lock = t <=> pc[t] = "send"
  /\ accepted # None <=> pc[Monitor] = "push"
  /\ request # None => Serving
  /\ Serving => /\ request \in [descriptor : Descriptors, client : Requests]
                /\ "http" \in env

\* A descriptor in use has a connection that is not closed, and no other has it.
Sockets ==
  /\ \A f \in Descriptors :
       socket[f] # None => net[socket[f]] \in {"open", "left", "reset"}
  /\ \A f, g \in Descriptors : socket[f] # None /\ socket[f] = socket[g] => f = g
  /\ \A f \in Descriptors : socket[f] \in Requests => "http" \in env
  /\ \A c \in Connections : net[c] = "reset" => "reset" \in env

\* What it takes for a broadcast to close a client, and for a stray close.
Causes ==
  /\ cut # {} => "reset" \in env
  /\ stray => {"http", "reset"} \subseteq env

\* The list, the device being accepted and the request being served name their
\* descriptors.
Listed ==
  /\ \A f \in Descriptors :
       socket[f] \in Devices <=> f \in ToSet(clients) \/ f = accepted
  /\ accepted \notin ToSet(clients)
  /\ IsInjective(clients)
  /\ Serving => socket[request.descriptor] = request.client

\* What select returned is still so, but for what broadcasts closed since the copy.
Ready ==
  /\ pc[Monitor] = "select" => readSet \subseteq ToSet(clients) \union cut
  /\ pc[Monitor] \in {"accept", "push", "receive"} =>
       \A f \in readSet \ cut : Readable(socket[f])
  /\ pc[Monitor] = "read" =>
       \A i \in 1..Len(clients) :
         i >= pos /\ clients[i] \in readSet \ cut => Readable(socket[clients[i]])
  /\ pc[Monitor] = "failed" => readSet \intersect cut # {}

\* The clients found stale are clients still, or were closed by a broadcast since.
Leaving ==
  /\ pc[Monitor] \in {"read", "remove"} =>
       IsInjective(stale) /\ ToSet(stale) \subseteq ToSet(clients) \union cut
  /\ pc[Monitor] = "read" =>
       \A i \in 1..Len(clients) : i >= pos => clients[i] \notin ToSet(stale)

\* Every head but the last piece on its way from c has its tail next to it, and a
\* connection not accepted yet sent nothing.
Alternates(c) ==
  /\ \A i \in 1..Len(wire[c]) :
       i < Len(wire[c]) => (wire[c][i] = "head" <=> wire[c][i + 1] = "tail")
  /\ wire[c] # <<>> => (Last(wire[c]) = "head" <=> Unfinished(c))
  /\ net[c] \in {"new", "waiting"} => wire[c] = <<>> /\ ~Unfinished(c)

\* What is on its way from c continues what is kept for its descriptor f.
Continues(f, c) ==
  /\ wire[c] = <<>> => (partial[f] = c <=> Unfinished(c))
  /\ wire[c] # <<>> => (wire[c][1] = "tail" <=> partial[f] = c)

\* What is kept for a descriptor is of its device, or of one that was cut off.
Lines ==
  /\ \A c \in Devices : Alternates(c)
  /\ \A f \in Descriptors :
       /\ partial[f] \in {None, socket[f]} \/ Interrupted(partial[f])
       /\ socket[f] \in Devices /\ partial[f] \in {None, socket[f]} =>
            Continues(f, socket[f])
  /\ \A p \in damaged : p[1] \in Devices \ {p[2]} /\ Interrupted(p[1])

ServerInv ==
  /\ TypeOK /\ Protocol /\ Sockets /\ Causes /\ Lines
  /\ ~stray => Listed /\ Ready /\ Leaving
----------------------------------------------------------------------------
(* Sequences.                                                              *)

\* Elements of a longer sequence.
LEMMA AppendedElements ==
  ASSUME NEW S, NEW s \in Seq(S), NEW x \in S
  PROVE  /\ Append(s, x) \in Seq(S)
         /\ ToSet(Append(s, x)) = ToSet(s) \union {x}
         /\ IsInjective(s) /\ x \notin ToSet(s) => IsInjective(Append(s, x))
<1>1. /\ Append(s, x) \in Seq(S) /\ Len(Append(s, x)) = Len(s) + 1
      /\ \A i \in 1..Len(s) : Append(s, x)[i] = s[i]
      /\ Append(s, x)[Len(s) + 1] = x
      /\ DOMAIN Append(s, x) = 1..Len(s) + 1 /\ DOMAIN s = 1..Len(s) /\ Len(s) \in Nat
  OBVIOUS
<1>2. \A i \in 1..Len(s) + 1 : i \in 1..Len(s) \/ i = Len(s) + 1
  BY <1>1
<1>3. 1..Len(s) \subseteq 1..Len(s) + 1 /\ Len(s) + 1 \in 1..Len(s) + 1
  BY <1>1
<1>4. ToSet(Append(s, x)) = ToSet(s) \union {x}
  BY <1>1, <1>2, <1>3 DEF ToSet
<1>5. IsInjective(s) /\ x \notin ToSet(s) => IsInjective(Append(s, x))
  BY <1>1, <1>2 DEF ToSet, IsInjective
<1>6. QED
  BY <1>1, <1>4, <1>5

\* The first element and the others.
LEMMA HeadElement ==
  ASSUME NEW S, NEW s \in Seq(S), s # <<>>
  PROVE  /\ Head(s) \in ToSet(s) /\ ToSet(s) \subseteq S
         /\ Tail(s) \in Seq(S) /\ ToSet(Tail(s)) \subseteq ToSet(s)
         /\ IsInjective(s) => IsInjective(Tail(s)) /\ Head(s) \notin ToSet(Tail(s))
<1>1. /\ Len(s) \in Nat \ {0} /\ DOMAIN s = 1..Len(s) /\ Head(s) = s[1]
      /\ Tail(s) \in Seq(S) /\ Len(Tail(s)) = Len(s) - 1
      /\ DOMAIN Tail(s) = 1..Len(s) - 1
      /\ \A i \in 1..Len(s) - 1 : Tail(s)[i] = s[i + 1]
  OBVIOUS
<1>2. 1 \in 1..Len(s) /\ \A i \in 1..Len(s) - 1 : i + 1 \in 1..Len(s) /\ i + 1 # 1
  BY <1>1
<1>3. \A i, j \in 1..Len(s) - 1 : i + 1 = j + 1 => i = j
  BY <1>1
<1>4. \A i \in 1..Len(s) : s[i] \in S
  OBVIOUS
<1>5. QED
  BY <1>1, <1>2, <1>3, <1>4 DEF ToSet, IsInjective

\* The sequence with one element erased, of one that holds no element twice.
LEMMA ErasedElements ==
  ASSUME NEW S, NEW s \in Seq(S), NEW k \in 1..Len(s)
  PROVE  /\ RemoveAt(s, k) \in Seq(S)
         /\ IsInjective(s) => /\ IsInjective(RemoveAt(s, k))
                              /\ ToSet(RemoveAt(s, k)) = ToSet(s) \ {s[k]}
<1>1. /\ RemoveAt(s, k) \in Seq(S) /\ Len(RemoveAt(s, k)) = Len(s) - 1
      /\ \A i \in 1..Len(s) - 1 : RemoveAt(s, k)[i] = IF i < k THEN s[i] ELSE s[i + 1]
  <2> DEFINE a == SubSeq(s, 1, k - 1)
             b == SubSeq(s, k + 1, Len(s))
  <2>1. /\ a \in Seq(S) /\ Len(a) = k - 1 /\ \A i \in 1..k - 1 : a[i] = s[i]
    OBVIOUS
  <2>2. /\ b \in Seq(S) /\ Len(b) = Len(s) - k
        /\ \A i \in 1..Len(s) - k : b[i] = s[k + i]
    OBVIOUS
  <2> HIDE DEF a, b
  <2>3. /\ a \o b \in Seq(S) /\ Len(a \o b) = Len(s) - 1
        /\ \A i \in 1..Len(s) - 1 : (a \o b)[i] = IF i < k THEN a[i] ELSE b[i - (k - 1)]
    <3>1. /\ a \o b \in Seq(S) /\ Len(a \o b) = Len(a) + Len(b)
          /\ \A i \in 1..Len(a) + Len(b) :
               (a \o b)[i] = IF i <= Len(a) THEN a[i] ELSE b[i - Len(a)]
      BY <2>1, <2>2, ConcatProperties
    <3>2. Len(a) + Len(b) = Len(s) - 1
      BY <2>1, <2>2
    <3>3. QED
      BY <2>1, <3>1, <3>2
  <2>4. \A i \in 1..Len(s) - 1 : ~ (i < k) => b[i - (k - 1)] = s[i + 1]
    BY <2>2
  <2>5. RemoveAt(s, k) = a \o b
    BY DEF RemoveAt, a, b
  <2>6. QED
    BY <2>1, <2>3, <2>4, <2>5
<1>2. /\ Len(s) \in Nat /\ DOMAIN s = 1..Len(s)
      /\ DOMAIN RemoveAt(s, k) = 1..Len(s) - 1
  BY <1>1
<1> DEFINE from(i) == IF i < k THEN i ELSE i + 1
<1>3. \A i \in 1..Len(s) - 1 : /\ RemoveAt(s, k)[i] = s[from(i)]
                               /\ from(i) \in 1..Len(s) /\ from(i) # k
  BY <1>1, <1>2
<1>4. \A i, j \in 1..Len(s) - 1 : from(i) = from(j) => i = j
  BY <1>2
<1>5. \A j \in 1..Len(s) : j # k => \E i \in 1..Len(s) - 1 : from(i) = j
  <2>1. SUFFICES ASSUME NEW j \in 1..Len(s), j # k
                 PROVE  \E i \in 1..Len(s) - 1 : from(i) = j
    OBVIOUS
  <2>2. CASE j < k
    BY <2>2, <1>2
  <2>3. CASE j > k
    <3>1. j - 1 \in 1..Len(s) - 1 /\ from(j - 1) = j
      BY <2>3, <1>2
    <3>2. QED
      BY <3>1
  <2>4. QED
    BY <2>1, <2>2, <2>3
<1> HIDE DEF from, RemoveAt
<1>6. ASSUME IsInjective(s) PROVE IsInjective(RemoveAt(s, k))
  BY <1>2, <1>3, <1>4, <1>6 DEF IsInjective
<1>7. ASSUME IsInjective(s) PROVE ToSet(RemoveAt(s, k)) = ToSet(s) \ {s[k]}
  <2>1. ASSUME NEW x \in ToSet(s) \ {s[k]} PROVE x \in ToSet(RemoveAt(s, k))
    <3>1. PICK j \in 1..Len(s) : x = s[j] /\ j # k
      BY <1>2, <2>1 DEF ToSet
    <3>2. PICK i \in 1..Len(s) - 1 : from(i) = j
      BY <3>1, <1>5
    <3>3. QED
      BY <3>1, <3>2, <1>2, <1>3 DEF ToSet
  <2>2. ASSUME NEW x \in ToSet(RemoveAt(s, k)) PROVE x \in ToSet(s) \ {s[k]}
    <3>1. PICK i \in 1..Len(s) - 1 : x = RemoveAt(s, k)[i]
      BY <1>2, <2>2 DEF ToSet
    <3>2. QED
      BY <3>1, <1>2, <1>3, <1>7 DEF ToSet, IsInjective
  <2>3. QED
    BY <2>1, <2>2
<1>8. QED
  BY <1>1, <1>6, <1>7

\* A sequence that holds no element twice is as long as the set of its elements.
LEMMA LengthOfInjective ==
  ASSUME NEW S, NEW s \in Seq(S), IsInjective(s)
  PROVE  Len(s) = Cardinality(ToSet(s))
<1>1. IsFiniteSet(1..Len(s)) /\ Cardinality(1..Len(s)) = Len(s) /\ DOMAIN s = 1..Len(s)
  <2>1. Len(s) \in Nat /\ DOMAIN s = 1..Len(s)
    OBVIOUS
  <2>2. \A n \in Nat : IsFiniteSet(1..n) /\ Cardinality(1..n) = n
    BY FS_Interval
  <2>3. QED
    BY <2>1, <2>2
<1>2. s \in Bijection(1..Len(s), ToSet(s))
  <2>1. s \in [1..Len(s) -> ToSet(s)]
    BY DEF ToSet
  <2>2. \A a, b \in 1..Len(s) : s[a] = s[b] => a = b
    BY <1>1 DEF IsInjective
  <2>3. \A t \in ToSet(s) : \E a \in 1..Len(s) : s[a] = t
    BY <1>1 DEF ToSet
  <2>4. QED
    BY <2>1, <2>2, <2>3 DEF Bijection, Injection, Surjection
<1>3. ExistsBijection(1..Len(s), ToSet(s))
  BY <1>2 DEF ExistsBijection
<1>4. QED
  BY <1>1, <1>3, FS_Bijection

\* What std::remove leaves: the other elements, and none twice that was not there
\* twice.
LEMMA WithoutElements ==
  ASSUME NEW S, NEW s \in Seq(S), NEW x
  PROVE  /\ Without(s, x) \in Seq(S)
         /\ ToSet(Without(s, x)) = ToSet(s) \ {x}
         /\ IsInjective(s) => IsInjective(Without(s, x))
<1> DEFINE kept(i) == {j \in 1..i : s[j] # x}
           place(i) == Cardinality(kept(i))
           found(k) == CHOOSE i \in 1..Len(s) : s[i] # x /\ place(i) = k
<1>0. Len(s) \in Nat /\ DOMAIN s = 1..Len(s) /\ \A i \in 1..Len(s) : s[i] \in S
  OBVIOUS
<1>1. \A i \in Nat : IsFiniteSet(kept(i)) /\ place(i) \in Nat
  <2>1. SUFFICES ASSUME NEW i \in Nat PROVE IsFiniteSet(kept(i)) /\ place(i) \in Nat
    OBVIOUS
  <2>2. IsFiniteSet(1..i) /\ kept(i) \in SUBSET (1..i)
    BY FS_Interval
  <2>3. QED
    BY <2>2, FS_Subset, FS_CardinalityType
<1>2. place(0) = 0
  <2>1. kept(0) = {}
    OBVIOUS
  <2>2. QED
    BY <2>1, FS_EmptySet
<1>3. \A i \in Nat \ {0} : place(i) = IF s[i] # x THEN place(i - 1) + 1 ELSE place(i - 1)
  <2>1. SUFFICES ASSUME NEW i \in Nat \ {0}
                 PROVE  place(i) = IF s[i] # x THEN place(i - 1) + 1 ELSE place(i - 1)
    OBVIOUS
  <2>2. i - 1 \in Nat /\ 1..i = 1..(i - 1) \union {i} /\ i \notin 1..(i - 1)
    OBVIOUS
  <2>3. CASE s[i] = x
    <3>1. kept(i) = kept(i - 1)
      BY <2>2, <2>3
    <3>2. QED
      BY <2>3, <3>1
  <2>4. CASE s[i] # x
    <3>1. kept(i) = kept(i - 1) \union {i} /\ i \notin kept(i - 1)
      BY <2>2, <2>4
    <3>2. IsFiniteSet(kept(i - 1))
      BY <2>2, <1>1
    <3> HIDE DEF kept
    <3>3. QED
      BY <2>4, <3>1, <3>2, FS_AddElement
  <2>5. QED
    BY <2>3, <2>4
<1>4. \A i, j \in Nat : i <= j => place(i) <= place(j)
  <2>1. SUFFICES ASSUME NEW i \in Nat, NEW j \in Nat, i <= j PROVE place(i) <= place(j)
    OBVIOUS
  <2>2. kept(i) \in SUBSET kept(j)
    BY <2>1
  <2>3. IsFiniteSet(kept(j))
    BY <1>1
  <2> HIDE DEF kept
  <2>4. QED
    BY <2>2, <2>3, FS_Subset
<1> HIDE DEF place, kept
<1>5. \A i, j \in Nat : i < j /\ s[j] # x => place(i) < place(j)
  <2>1. SUFFICES ASSUME NEW i \in Nat, NEW j \in Nat, i < j, s[j] # x
                 PROVE  place(i) < place(j)
    OBVIOUS
  <2>2. j - 1 \in Nat /\ i <= j - 1 /\ j \in Nat \ {0}
    BY <2>1
  <2>3. place(i) <= place(j - 1) /\ place(j) = place(j - 1) + 1
    BY <2>1, <2>2, <1>3, <1>4
  <2>4. QED
    BY <2>2, <2>3, <1>1
<1>6. \A k \in 1..place(Len(s)) : \E i \in 1..Len(s) : s[i] # x /\ place(i) = k
  <2>1. SUFFICES ASSUME NEW k \in 1..place(Len(s))
                 PROVE  \E i \in 1..Len(s) : s[i] # x /\ place(i) = k
    OBVIOUS
  <2> DEFINE T == {i \in Nat : place(i) >= k}
  <2>2. T \subseteq Nat /\ T # {} /\ Len(s) \in T /\ k \in Nat \ {0}
    <3>1. place(Len(s)) \in Nat
      BY <1>0, <1>1
    <3>2. QED
      BY <1>0, <3>1
  <2>3. PICK i \in T : \A j \in T : i <= j
    <3> HIDE DEF T
    <3>1. QED
      BY <2>2, LeastNumber
  <2>4. i \in Nat \ {0} /\ i <= Len(s) /\ place(i) >= k
    BY <2>2, <2>3, <1>2
  <2>5. i - 1 \in Nat /\ place(i - 1) < k
    <3>1. i - 1 \in Nat /\ ~ (i <= i - 1)
      BY <2>4
    <3>2. i - 1 \notin T
      BY <3>1, <2>3
    <3>3. place(i - 1) \in Nat
      BY <3>1, <1>1
    <3>4. QED
      BY <3>1, <3>2, <3>3, <2>2
  <2>6. s[i] # x /\ place(i) = k
    <3>1. place(i - 1) \in Nat
      BY <2>5, <1>1
    <3>2. place(i) = IF s[i] # x THEN place(i - 1) + 1 ELSE place(i - 1)
      BY <2>4, <1>3
    <3>3. QED
      BY <2>2, <2>4, <2>5, <3>1, <3>2
  <2>7. QED
    BY <2>4, <2>6, <1>0
<1>7. \A k \in 1..place(Len(s)) :
        found(k) \in 1..Len(s) /\ s[found(k)] # x /\ place(found(k)) = k
  BY <1>6
<1>8. \A i \in 1..Len(s) : s[i] # x => place(i) \in 1..place(Len(s)) /\ found(place(i)) = i
  <2>1. SUFFICES ASSUME NEW i \in 1..Len(s), s[i] # x
                 PROVE  place(i) \in 1..place(Len(s)) /\ found(place(i)) = i
    OBVIOUS
  <2>2. i \in Nat /\ 0 < i /\ i <= Len(s) /\ 0 \in Nat
    BY <1>0
  <2>3. place(0) < place(i) /\ place(i) <= place(Len(s))
    BY <2>1, <2>2, <1>0, <1>4, <1>5
  <2>4. place(i) \in 1..place(Len(s))
    <3>1. place(i) \in Nat /\ place(Len(s)) \in Nat
      BY <2>2, <1>0, <1>1
    <3>2. QED
      BY <2>3, <3>1, <1>2
  <2>5. /\ found(place(i)) \in 1..Len(s) /\ s[found(place(i))] # x
        /\ place(found(place(i))) = place(i)
    BY <2>4, <1>7
  <2> HIDE DEF found
  <2>6. found(place(i)) \in Nat /\ ~ (found(place(i)) < i) /\ ~ (i < found(place(i)))
    <3> DEFINE j == found(place(i))
    <3>1. j \in Nat /\ place(j) = place(i) /\ s[j] # x
      BY <2>5, <1>0
    <3>2. place(i) \in Nat
      BY <2>2, <1>1
    <3> HIDE DEF j
    <3>3. ~ (j < i) /\ ~ (i < j)
      BY <2>1, <2>2, <3>1, <3>2, <1>5
    <3>4. QED
      BY <3>1, <3>3 DEF j
  <2>7. QED
    BY <2>2, <2>4, <2>6
<1>9. Without(s, x) = [k \in 1..place(Len(s)) |-> s[found(k)]]
  BY DEF Without, place, kept
<1> HIDE DEF found
<1>10. /\ Without(s, x) \in Seq(S) /\ DOMAIN Without(s, x) = 1..place(Len(s))
       /\ \A k \in 1..place(Len(s)) : Without(s, x)[k] = s[found(k)]
  <2>1. place(Len(s)) \in Nat
    BY <1>0, <1>1
  <2>2. \A k \in 1..place(Len(s)) : s[found(k)] \in S
    BY <1>0, <1>7
  <2>3. QED
    BY <1>9, <2>1, <2>2
<1>11. ToSet(Without(s, x)) = ToSet(s) \ {x}
  <2>1. ASSUME NEW y \in ToSet(Without(s, x)) PROVE y \in ToSet(s) \ {x}
    BY <2>1, <1>0, <1>7, <1>10 DEF ToSet
  <2>2. ASSUME NEW y \in ToSet(s) \ {x} PROVE y \in ToSet(Without(s, x))
    <3>1. PICK i \in 1..Len(s) : y = s[i] /\ s[i] # x
      BY <2>2, <1>0 DEF ToSet
    <3>2. QED
      BY <3>1, <1>8, <1>10 DEF ToSet
  <2>3. QED
    BY <2>1, <2>2
<1>12. ASSUME IsInjective(s) PROVE IsInjective(Without(s, x))
  BY <1>0, <1>7, <1>10, <1>12 DEF IsInjective
<1>13. QED
  BY <1>10, <1>11, <1>12

----------------------------------------------------------------------------
(* Types.                                                                  *)

\* accept returns a descriptor that is free.
LEMMA LowestIsFree ==
  ASSUME FreeDescriptors # {}
  PROVE  Lowest \in Descriptors /\ socket[Lowest] = None
<1>1. FreeDescriptors \subseteq Nat
  BY DescriptorsAssumption DEF FreeDescriptors
<1>2. \E f \in FreeDescriptors : \A g \in FreeDescriptors : f <= g
  BY <1>1, LeastNumber
<1>3. Lowest \in FreeDescriptors
  BY <1>2 DEF Lowest
<1>4. QED
  BY <1>3 DEF FreeDescriptors

\* Closing a descriptor keeps the types.
LEMMA CloseTypes ==
  ASSUME TypeOK, NEW f, Close(f)
  PROVE  /\ socket' \in [Descriptors -> Connections \union {None}]
         /\ net' \in [Connections -> {"new", "waiting", "open", "left", "reset", "closed"}]
BY DEF TypeOK, Close

\* A broadcast keeps the types.
LEMMA BroadcastTypes ==
  ASSUME TypeOK, NEW t \in Threads, Broadcast(t)
  PROVE  TypeOK'
<1> USE DEF TypeOK, threads, locals, history, list, sent, Goto
<1>1. ASSUME BroadcastBegin(t) PROVE TypeOK'
  BY <1>1 DEF BroadcastBegin
<1>2. ASSUME SendNext(t) PROVE TypeOK'
  <2>1. pos \in 1..Len(clients) /\ clients[pos] \in Descriptors
    BY <1>2 DEF SendNext
  <2>2. clients' \in Seq(Descriptors) /\ pos' \in Nat \ {0}
    BY <1>2, <2>1, ErasedElements DEF SendNext
  <2>3. /\ socket' \in [Descriptors -> Connections \union {None}]
        /\ net' \in [Connections -> {"new", "waiting", "open", "left", "reset", "closed"}]
    <3>1. CASE Close(clients[pos])
      BY <3>1, CloseTypes
    <3>2. CASE UNCHANGED socket /\ UNCHANGED net
      BY <3>2
    <3>3. CASE UNCHANGED socket /\ net' = [net EXCEPT ![socket[clients[pos]]] = "reset"]
      BY <3>3
    <3>4. QED
      BY <1>2, <3>1, <3>2, <3>3 DEF SendNext
  <2>4. cut' \subseteq Descriptors
    BY <1>2, <2>1 DEF SendNext
  <2>5. QED
    BY <1>2, <2>2, <2>3, <2>4 DEF SendNext
<1>3. ASSUME BroadcastEnd(t) PROVE TypeOK'
  <2>1. \E l \in {"top", "idle", "respond"} : pc' = [pc EXCEPT ![t] = l]
    <3>1. CASE t = Monitor
      BY <1>3, <3>1 DEF BroadcastEnd, Console, Monitor
    <3>2. CASE t = Console
      BY <1>3, <3>2 DEF BroadcastEnd, Console, Monitor
    <3>3. CASE t \notin {Monitor, Console}
      BY <1>3, <3>3 DEF BroadcastEnd
    <3>4. QED
      BY <3>1, <3>2, <3>3
  <2>2. QED
    BY <1>3, <2>1 DEF BroadcastEnd
<1>4. QED
  BY <1>1, <1>2, <1>3 DEF Broadcast

\* Below an even bound there is room for a whole line, unless one is unfinished.
LEMMA RoomForALine ==
  ASSUME NEW n \in Nat, NEW m \in Nat, n < 2 * m, n % 2 # 1
  PROVE  n + 2 <= 2 * m
<1>1. CASE n = 2 * m - 1
  <2> DEFINE k == m - 1
  <2>1. k \in Nat /\ n = k + k + 1
    BY <1>1
  <2> HIDE DEF k
  <2>2. (k + k + 1) % 2 = 1
    BY <2>1
  <2>3. QED
    BY <2>1, <2>2
<1>2. CASE n # 2 * m - 1
  BY <1>2
<1>3. QED
  BY <1>1, <1>2

\* Every step of the monitor thread keeps the types.
LEMMA MonitorTypes ==
  ASSUME TypeOK, Protocol, MonitorStep
  PROVE  TypeOK'
<1> USE DEF TypeOK, threads, locals, history, list, sent, Goto, Threads, Monitor
<1>1. ASSUME Snapshot PROVE TypeOK'
  BY <1>1 DEF Snapshot, ToSet
<1>2. ASSUME Select PROVE TypeOK'
  <2>1. readSet' \subseteq readSet
    BY <1>2 DEF Select
  <2>2. \E l \in {"failed", "accept", "receive"} : pc' = [pc EXCEPT ![Monitor] = l]
    BY <1>2 DEF Select
  <2>3. QED
    BY <1>2, <2>1, <2>2 DEF Select
<1>3. ASSUME Accept PROVE TypeOK'
  <2>1. CASE FreeDescriptors = {} /\ Goto(Monitor, "receive")
    BY <1>3, <2>1 DEF Accept
  <2>2. CASE FreeDescriptors # {} /\ Goto(Monitor, "push")
    <3>1. PICK c \in Devices : Open(c)
      BY <1>3, <2>2 DEF Accept
    <3>2. Lowest \in Descriptors
      BY <2>2, LowestIsFree
    <3>3. /\ socket' \in [Descriptors -> Connections \union {None}]
          /\ net' \in [Connections -> {"new", "waiting", "open", "left", "reset", "closed"}]
      BY <3>1 DEF Open, Connections
    <3>4. QED
      BY <1>3, <2>2, <3>2, <3>3 DEF Accept
  <2>3. QED
    BY <1>3, <2>1, <2>2 DEF Accept
<1>4. ASSUME Push PROVE TypeOK'
  BY <1>4, AppendedElements DEF Push, Protocol
<1>5. ASSUME ReceiveBegin PROVE TypeOK'
  BY <1>5 DEF ReceiveBegin
<1>6. ASSUME ReceiveFrom PROVE TypeOK'
  <2>1. pos' \in Nat \ {0} /\ clients[pos] \in Descriptors
    BY <1>6 DEF ReceiveFrom
  <2>2. stale' \in Seq(Descriptors)
    <3>1. Append(stale, clients[pos]) \in Seq(Descriptors)
      BY <2>1
    <3>2. QED
      BY <1>6, <3>1 DEF ReceiveFrom
  <2>3. /\ damaged' \subseteq (Devices \union {None}) \X Devices
        /\ partial' \in [Descriptors -> Devices \union {None}]
        /\ wire' \in [Devices -> Seq(Pieces)]
    <3>1. CASE UNCHANGED <<partial, damaged, wire>>
      BY <3>1
    <3>2. ASSUME NEW c \in Devices, Cut(clients[pos], c), wire' = [wire EXCEPT ![c] = <<>>]
          PROVE  /\ damaged' \subseteq (Devices \union {None}) \X Devices
                 /\ partial' \in [Descriptors -> Devices \union {None}]
                 /\ wire' \in [Devices -> Seq(Pieces)]
      <4>1. damaged' \subseteq (Devices \union {None}) \X Devices
        <5>1. <<partial[clients[pos]], c>> \in (Devices \union {None}) \X Devices
          BY <2>1
        <5>2. QED
          BY <3>2, <5>1 DEF Cut, NoteDamage
      <4>2. partial' \in [Descriptors -> Devices \union {None}]
        BY <2>1, <3>2 DEF Cut
      <4>3. <<>> \in Seq(Pieces)
        OBVIOUS
      <4>4. QED
        BY <3>2, <4>1, <4>2, <4>3
    <3>3. QED
      BY <1>6, <3>1, <3>2 DEF ReceiveFrom, Readable
  <2>4. QED
    BY <1>6, <2>1, <2>2, <2>3 DEF ReceiveFrom
<1>7. ASSUME ReceiveEnd PROVE TypeOK'
  BY <1>7 DEF ReceiveEnd
<1>8. ASSUME RemoveClient PROVE TypeOK'
  BY <1>8, CloseTypes, WithoutElements, HeadElement DEF RemoveClient
<1>9. ASSUME Evaluate PROVE TypeOK'
  BY <1>9 DEF Evaluate
<1>10. ASSUME Broadcast(Monitor) PROVE TypeOK'
  BY <1>10, BroadcastTypes
<1>11. QED
  BY <1>1, <1>2, <1>3, <1>4, <1>5, <1>6, <1>7, <1>8, <1>9, <1>10 DEF MonitorStep

\* The steps of the other threads, of main and of the devices keep the types.
LEMMA OtherTypes ==
  ASSUME TypeOK, Next, ~MonitorStep
  PROVE  TypeOK'
<1> USE DEF TypeOK, threads, locals, history, list, sent, Goto, Threads, Console, Command
<1>1. ASSUME AcceptRequest PROVE TypeOK'
  <2>1. CASE Goto(Command, "exited") /\ UNCHANGED <<socket, net, request>>
    BY <1>1, <2>1 DEF AcceptRequest
  <2>2. CASE /\ FreeDescriptors # {} /\ Goto(Command, "handle")
             /\ \E h \in Requests : /\ Open(h)
                                   /\ request' = [descriptor |-> Lowest, client |-> h]
    <3>1. PICK h \in Requests : Open(h) /\ request' = [descriptor |-> Lowest, client |-> h]
      BY <2>2
    <3>2. Lowest \in Descriptors
      BY <2>2, LowestIsFree
    <3>3. /\ socket' \in [Descriptors -> Connections \union {None}]
          /\ net' \in [Connections -> {"new", "waiting", "open", "left", "reset", "closed"}]
      BY <3>1 DEF Open, Connections
    <3>4. QED
      BY <1>1, <2>2, <3>1, <3>2, <3>3 DEF AcceptRequest
  <2>3. QED
    BY <1>1, <2>1, <2>2 DEF AcceptRequest
<1>2. ASSUME HandleRequest PROVE TypeOK'
  BY <1>2 DEF HandleRequest
<1>3. ASSUME Respond PROVE TypeOK'
  BY <1>3, CloseTypes DEF Respond
<1>4. ASSUME ReadConsole PROVE TypeOK'
  <2>1. running' \in BOOLEAN
    BY <1>4 DEF ReadConsole
  <2>2. pc' = [pc EXCEPT ![Console] = "lock"] \/ pc' = [pc EXCEPT ![Console] = "exited"]
    BY <1>4 DEF ReadConsole
  <2>3. UNCHANGED <<env, lock, pos, locals, history, list, request, sent>>
    BY <1>4 DEF ReadConsole
  <2>4. QED
    BY <2>1, <2>2, <2>3
<1>5. ASSUME NEW t \in {Console, Command}, Broadcast(t) PROVE TypeOK'
  BY <1>5, BroadcastTypes
<1>6. ASSUME Stop PROVE TypeOK'
  BY <1>6 DEF Stop
<1>7. ASSUME NEW c \in Devices, Connect(c) PROVE TypeOK'
  BY <1>7 DEF Connect, Connections
<1>8. ASSUME NEW c \in Devices, Write(c) PROVE TypeOK'
  <2>1. PICK p \in {"line", "head", "tail"} :
          /\ wire' = [wire EXCEPT ![c] = Append(@, p)]
          /\ written' = [written EXCEPT ![c] = @ + IF p = "line" THEN 2 ELSE 1]
          /\ p = "line" => ~Unfinished(c)
    BY <1>8 DEF Write
  <2>2. Append(wire[c], p) \in Seq(Pieces)
    BY DEF Pieces
  <2>3. written[c] + (IF p = "line" THEN 2 ELSE 1) \in 0..2 * MaxLines
    <3>1. written[c] \in Nat /\ written[c] < 2 * MaxLines /\ MaxLines \in Nat
      BY <1>8, ConnectionsAssumption DEF Write
    <3>2. p = "line" => written[c] % 2 # 1
      BY <2>1 DEF Unfinished
    <3>3. CASE p = "line"
      <4>1. written[c] + 2 <= 2 * MaxLines
        BY <3>1, <3>2, <3>3, RoomForALine
      <4>2. QED
        BY <3>1, <3>3, <4>1
    <3>4. CASE p # "line"
      BY <3>1, <3>4
    <3>5. QED
      BY <3>3, <3>4
  <2>4. QED
    BY <1>8, <2>1, <2>2, <2>3 DEF Write
<1>9. ASSUME NEW c \in Devices, Leave(c) PROVE TypeOK'
  BY <1>9 DEF Leave, Connections
<1>10. QED
  BY <1>1, <1>2, <1>3, <1>4, <1>5, <1>6, <1>7, <1>8, <1>9 DEF Next, CommandStep

----------------------------------------------------------------------------
(* The threads and the mutex.                                              *)

\* A thread goes to a place, and the others stay.
LEMMA GotoMoves ==
  ASSUME TypeOK, NEW t \in Threads, NEW l, Goto(t, l)
  PROVE  pc'[t] = l /\ \A u \in Threads \ {t} : pc'[u] = pc[u]
BY DEF TypeOK, Goto

\* The names differ.
LEMMA Names ==
  /\ Threads = {Monitor, Console, Command}
  /\ Monitor # Console /\ Monitor # Command /\ Console # Command
  /\ Free \notin Threads
  /\ None \notin Descriptors /\ None \notin Connections
  /\ Devices \subseteq Connections /\ Requests \subseteq Connections
  /\ Devices \intersect Requests = {}
BY ConnectionsAssumption DEF Threads, Monitor, Console, Command, Free, Connections

\* The parts about the threads are kept by a broadcast.
LEMMA BroadcastProtocol ==
  ASSUME TypeOK, Protocol, NEW t \in Threads, Broadcast(t)
  PROVE  Protocol'
<1> USE DEF Protocol, Serving, threads, locals, history, list
<1>1. ASSUME BroadcastBegin(t) PROVE Protocol'
  <2>1. Goto(t, "send")
    BY <1>1 DEF BroadcastBegin
  <2>2. QED
    BY <1>1, <2>1, GotoMoves, Names DEF BroadcastBegin
<1>2. ASSUME SendNext(t) PROVE Protocol'
  BY <1>2 DEF SendNext
<1>3. ASSUME BroadcastEnd(t) PROVE Protocol'
  <2>1. CASE t = Monitor
    <3>1. Goto(Monitor, "top")
      BY <1>3, <2>1, Names DEF BroadcastEnd
    <3>2. QED
      BY <1>3, <2>1, <3>1, GotoMoves, Names DEF BroadcastEnd
  <2>2. CASE t = Console
    <3>1. Goto(Console, "idle")
      BY <1>3, <2>2, Names DEF BroadcastEnd
    <3>2. QED
      BY <1>3, <2>2, <3>1, GotoMoves, Names DEF BroadcastEnd
  <2>3. CASE t = Command
    <3>1. Goto(Command, "respond")
      BY <1>3, <2>3, Names DEF BroadcastEnd
    <3>2. QED
      BY <1>3, <2>3, <3>1, GotoMoves, Names DEF BroadcastEnd
  <2>4. QED
    BY <2>1, <2>2, <2>3, Names
<1>4. QED
  BY <1>1, <1>2, <1>3 DEF Broadcast

\* The parts about the threads are kept by the other steps of the monitor thread.
LEMMA MonitorProtocol ==
  ASSUME TypeOK, Protocol, MonitorStep
  PROVE  Protocol'
<1> USE DEF Protocol, Serving, threads, locals, history, list
<1>0. Monitor \in Threads
  BY Names
<1>1. ASSUME Snapshot PROVE Protocol'
  BY <1>0, <1>1, GotoMoves, Names DEF Snapshot
<1>2. ASSUME Select PROVE Protocol'
  <2>1. PICK l \in {"failed", "accept", "receive"} : Goto(Monitor, l)
    BY <1>2 DEF Select
  <2>2. QED
    BY <1>0, <1>2, <2>1, GotoMoves, Names DEF Select
<1>3. ASSUME Accept PROVE Protocol'
  BY <1>0, <1>3, GotoMoves, Names, LowestIsFree DEF Accept
<1>4. ASSUME Push PROVE Protocol'
  BY <1>0, <1>4, GotoMoves, Names DEF Push
<1>5. ASSUME ReceiveBegin PROVE Protocol'
  BY <1>0, <1>5, GotoMoves, Names DEF ReceiveBegin
<1>6. ASSUME ReceiveFrom PROVE Protocol'
  BY <1>6 DEF ReceiveFrom
<1>7. ASSUME ReceiveEnd PROVE Protocol'
  BY <1>0, <1>7, GotoMoves, Names DEF ReceiveEnd
<1>8. ASSUME RemoveClient PROVE Protocol'
  BY <1>8 DEF RemoveClient
<1>9. ASSUME Evaluate PROVE Protocol'
  BY <1>0, <1>9, GotoMoves, Names DEF Evaluate
<1>10. ASSUME Broadcast(Monitor) PROVE Protocol'
  BY <1>0, <1>10, BroadcastProtocol
<1>11. QED
  BY <1>1, <1>2, <1>3, <1>4, <1>5, <1>6, <1>7, <1>8, <1>9, <1>10 DEF MonitorStep

\* And by the steps of the others.
LEMMA OtherProtocol ==
  ASSUME TypeOK, Protocol, Next, ~MonitorStep
  PROVE  Protocol'
<1> USE DEF Protocol, Serving, threads, locals, history, list
<1>0. Console \in Threads /\ Command \in Threads
  BY Names
<1>1. ASSUME AcceptRequest PROVE Protocol'
  <2>1. CASE Goto(Command, "exited") /\ UNCHANGED request
    BY <1>0, <1>1, <2>1, GotoMoves, Names DEF AcceptRequest
  <2>2. CASE /\ FreeDescriptors # {} /\ Goto(Command, "handle") /\ "http" \in env
             /\ \E h \in Requests : request' = [descriptor |-> Lowest, client |-> h]
    <3>1. request' \in [descriptor : Descriptors, client : Requests]
      BY <2>2, LowestIsFree
    <3>2. QED
      BY <1>0, <1>1, <2>2, <3>1, GotoMoves, Names DEF AcceptRequest
  <2>3. QED
    BY <1>1, <2>1, <2>2 DEF AcceptRequest
<1>2. ASSUME HandleRequest PROVE Protocol'
  BY <1>0, <1>2, GotoMoves, Names DEF HandleRequest
<1>3. ASSUME Respond PROVE Protocol'
  BY <1>0, <1>3, GotoMoves, Names DEF Respond
<1>4. ASSUME ReadConsole PROVE Protocol'
  BY <1>0, <1>4, GotoMoves, Names DEF ReadConsole
<1>5. ASSUME NEW t \in {Console, Command}, Broadcast(t) PROVE Protocol'
  BY <1>0, <1>5, BroadcastProtocol
<1>6. ASSUME Stop PROVE Protocol'
  BY <1>6 DEF Stop
<1>7. ASSUME NEW c \in Devices, Connect(c) \/ Write(c) \/ Leave(c) PROVE Protocol'
  BY <1>7 DEF Connect, Write, Leave
<1>8. QED
  BY <1>1, <1>2, <1>3, <1>4, <1>5, <1>6, <1>7 DEF Next, CommandStep

----------------------------------------------------------------------------
(* Descriptors and connections.                                            *)

\* What may happen is chosen at the start.
LEMMA SameEnvironment ==
  ASSUME Next PROVE env' = env
BY DEF Next, MonitorStep, CommandStep, Broadcast, Snapshot, Select, Accept, Push,
       ReceiveBegin, ReceiveFrom, ReceiveEnd, RemoveClient, Evaluate, BroadcastBegin,
       SendNext, BroadcastEnd, ReadConsole, AcceptRequest, HandleRequest, Respond, Stop,
       Connect, Write, Leave

\* Closing a descriptor keeps the descriptors apart.
LEMMA CloseSockets ==
  ASSUME TypeOK, Sockets, NEW f \in Descriptors, Close(f), env' = env
  PROVE  Sockets'
<1>1. CASE socket[f] = None
  BY <1>1 DEF Close, Sockets, TypeOK
<1>2. CASE socket[f] # None
  <2>1. socket[f] \in Connections
    BY <1>2 DEF TypeOK
  <2>2. \A g \in Descriptors \ {f} : socket'[g] = socket[g] /\ socket[g] # socket[f]
    BY <1>2 DEF Close, Sockets, TypeOK
  <2>3. socket'[f] = None
    BY DEF Close, TypeOK
  <2>4. \A c \in Connections \ {socket[f]} : net'[c] = net[c]
    BY <1>2, <2>1 DEF Close, TypeOK
  <2>5. net'[socket[f]] = "closed"
    BY <1>2, <2>1 DEF Close, TypeOK
  <2>6. \A g \in Descriptors : socket[g] # None => socket[g] \in Connections
    BY DEF TypeOK
  <2>7. \A g \in Descriptors : socket'[g] # None => socket'[g] = socket[g] /\ g # f
    BY <2>2, <2>3
  <2>8. \A g \in Descriptors :
          socket'[g] # None => net'[socket'[g]] \in {"open", "left", "reset"}
    BY <2>2, <2>4, <2>6, <2>7 DEF Sockets
  <2>9. \A g, h \in Descriptors : socket'[g] # None /\ socket'[g] = socket'[h] => g = h
    BY <2>7 DEF Sockets
  <2>10. \A g \in Descriptors : socket'[g] \in Requests => "http" \in env'
    BY <2>7, Names DEF Sockets
  <2>11. \A c \in Connections : net'[c] = "reset" => "reset" \in env'
    BY <2>4, <2>5 DEF Sockets
  <2>12. QED
    BY <2>8, <2>9, <2>10, <2>11 DEF Sockets
<1>3. QED
  BY <1>1, <1>2

\* So does accepting a connection.
LEMMA OpenSockets ==
  ASSUME TypeOK, Sockets, FreeDescriptors # {}, env' = env,
         NEW c \in Connections, net[c] \in {"new", "waiting"}, Open(c),
         c \in Requests => "http" \in env
  PROVE  Sockets'
<1>1. Lowest \in Descriptors /\ socket[Lowest] = None /\ c # None
  BY LowestIsFree, Names
<1>2. socket'[Lowest] = c /\ \A g \in Descriptors \ {Lowest} : socket'[g] = socket[g]
  BY <1>1 DEF Open, TypeOK
<1>3. net'[c] = "open" /\ \A d \in Connections \ {c} : net'[d] = net[d]
  BY DEF Open, TypeOK
<1>4. \A g \in Descriptors : socket[g] # None => socket[g] \in Connections \ {c}
  <2>1. \A g \in Descriptors : socket[g] \in Connections \union {None}
    BY DEF TypeOK
  <2>2. \A g \in Descriptors : socket[g] # None => socket[g] # c
    BY DEF Sockets
  <2>3. QED
    BY <2>1, <2>2
<1>5. QED
  BY <1>1, <1>2, <1>3, <1>4 DEF Sockets

\* Every step keeps the descriptors apart.
LEMMA SocketsStep ==
  ASSUME TypeOK, Protocol, Sockets, Next
  PROVE  Sockets'
<1> USE DEF list, history
<1>0. env' = env
  BY SameEnvironment
<1>1. ASSUME UNCHANGED <<socket, net>> PROVE Sockets'
  BY <1>0, <1>1 DEF Sockets
<1>2. ASSUME Accept PROVE Sockets'
  <2>1. CASE UNCHANGED <<socket, net>>
    BY <1>1, <2>1
  <2>2. CASE FreeDescriptors # {} /\ \E c \in Devices : net[c] = "waiting" /\ Open(c)
    BY <1>0, <2>2, OpenSockets, Names
  <2>3. QED
    BY <1>2, <2>1, <2>2 DEF Accept
<1>3. ASSUME RemoveClient PROVE Sockets'
  <2>1. Head(stale) \in Descriptors
    BY <1>3, HeadElement DEF RemoveClient, TypeOK
  <2>2. QED
    BY <1>0, <1>3, <2>1, CloseSockets DEF RemoveClient
<1>4. ASSUME NEW t \in Threads, SendNext(t) PROVE Sockets'
  <2>1. clients[pos] \in Descriptors
    BY <1>4 DEF SendNext, TypeOK
  <2>2. CASE Close(clients[pos])
    BY <1>0, <2>1, <2>2, CloseSockets
  <2>3. CASE UNCHANGED <<socket, net>>
    BY <1>1, <2>3
  <2>4. CASE /\ UNCHANGED socket /\ "reset" \in env
             /\ net' = [net EXCEPT ![socket[clients[pos]]] = "reset"]
             /\ net[socket[clients[pos]]] = "left"
    <3>1. "reset" \in env'
      BY <1>0, <2>4
    <3>2. \A c \in Connections : net'[c] = net[c] \/ net'[c] = "reset"
      BY <2>4 DEF TypeOK
    <3>3. \A g \in Descriptors : socket[g] # None => socket[g] \in Connections
      BY DEF TypeOK
    <3>4. \A g \in Descriptors :
            socket'[g] # None => net'[socket'[g]] \in {"open", "left", "reset"}
      BY <2>4, <3>2, <3>3 DEF Sockets
    <3>5. QED
      BY <1>0, <2>4, <3>1, <3>4 DEF Sockets
  <2>5. QED
    BY <1>4, <2>2, <2>3, <2>4 DEF SendNext
<1>5. ASSUME AcceptRequest PROVE Sockets'
  <2>1. CASE UNCHANGED <<socket, net>>
    BY <1>1, <2>1
  <2>2. CASE /\ FreeDescriptors # {} /\ "http" \in env
             /\ \E h \in Requests : net[h] = "new" /\ Open(h)
    BY <1>0, <2>2, OpenSockets, Names
  <2>3. QED
    BY <1>5, <2>1, <2>2 DEF AcceptRequest
<1>6. ASSUME Respond PROVE Sockets'
  <2>1. request.descriptor \in Descriptors
    BY <1>6 DEF Respond, Protocol, Serving
  <2>2. QED
    BY <1>0, <1>6, <2>1, CloseSockets DEF Respond
<1>7. ASSUME Stop PROVE Sockets'
  <2>1. \A f \in Descriptors : socket'[f] = IF f \in ToSet(clients) THEN None ELSE socket[f]
    BY <1>7 DEF Stop, Contains, ToSet, TypeOK
  <2>2. \A c \in Connections :
          net'[c] = IF \E f \in ToSet(clients) : socket[f] = c THEN "closed" ELSE net[c]
    BY <1>7 DEF Stop
  <2>3. ToSet(clients) \subseteq Descriptors
    BY DEF TypeOK, ToSet
  <2>4. \A f \in Descriptors : socket[f] # None => socket[f] \in Connections
    BY DEF TypeOK
  <2>5. \A f \in Descriptors : socket'[f] # None => socket'[f] = socket[f] /\ f \notin ToSet(clients)
    BY <2>1
  <2>6. \A f \in Descriptors :
          socket'[f] # None => net'[socket'[f]] \in {"open", "left", "reset"}
    <3>1. SUFFICES ASSUME NEW f \in Descriptors, socket'[f] # None
                   PROVE  net'[socket[f]] = net[socket[f]]
      BY <2>5 DEF Sockets
    <3>2. \A g \in ToSet(clients) : socket[g] # socket[f]
      BY <2>3, <2>5, <3>1 DEF Sockets
    <3>3. QED
      BY <2>2, <2>4, <2>5, <3>1, <3>2
  <2>7. \A f, g \in Descriptors : socket'[f] # None /\ socket'[f] = socket'[g] => f = g
    BY <2>5 DEF Sockets
  <2>8. \A f \in Descriptors : socket'[f] \in Requests => "http" \in env'
    BY <1>0, <2>5, Names DEF Sockets
  <2>9. \A c \in Connections : net'[c] = "reset" => "reset" \in env'
    BY <1>0, <2>2 DEF Sockets
  <2>10. QED
    BY <2>6, <2>7, <2>8, <2>9 DEF Sockets
<1>8. ASSUME NEW c \in Devices, Connect(c) \/ Leave(c) PROVE Sockets'
  <2>1. UNCHANGED socket /\ c \in Connections
    BY <1>8, Names DEF Connect, Leave
  <2>2. /\ net'[c] = "left" \/ (net'[c] = "waiting" /\ net[c] = "new")
        /\ \A d \in Connections \ {c} : net'[d] = net[d]
    BY <1>8, <2>1 DEF Connect, Leave, TypeOK
  <2>3. \A f \in Descriptors : socket[f] # None => socket[f] \in Connections
    BY DEF TypeOK
  <2>4. QED
    BY <1>0, <2>1, <2>2, <2>3 DEF Sockets
<1>9. ASSUME ~ (\/ Accept \/ RemoveClient \/ AcceptRequest \/ Respond \/ Stop
                \/ \E t \in Threads : SendNext(t)
                \/ \E c \in Devices : Connect(c) \/ Leave(c))
      PROVE  UNCHANGED <<socket, net>>
  BY <1>9, Names
     DEF Next, MonitorStep, CommandStep, Broadcast, Snapshot, Select, Push,
         ReceiveBegin, ReceiveFrom, ReceiveEnd, Evaluate, BroadcastBegin,
         BroadcastEnd, ReadConsole, HandleRequest, Write
<1>10. QED
  BY <1>1, <1>2, <1>3, <1>4, <1>5, <1>6, <1>7, <1>8, <1>9

----------------------------------------------------------------------------
(* The list of clients.                                                    *)

\* The elements of the list and of the stale clients are descriptors.
LEMMA ClientsAreDescriptors ==
  ASSUME TypeOK
  PROVE  /\ ToSet(clients) \subseteq Descriptors /\ ToSet(stale) \subseteq Descriptors
         /\ \A i \in 1..Len(clients) : clients[i] \in ToSet(clients)
BY DEF TypeOK, ToSet

\* A broadcast begins, ends and goes on in its place.
LEMMA BroadcastPlaces ==
  ASSUME TypeOK, NEW t \in Threads, Broadcast(t)
  PROVE  /\ t # Monitor => pc'[Monitor] = pc[Monitor]
         /\ t = Monitor => pc[Monitor] \in {"lock", "send"} /\ pc'[Monitor] \in {"send", "top"}
         /\ t # Command => pc'[Command] = pc[Command]
         /\ t = Command => Serving
<1>1. CASE BroadcastBegin(t)
  BY <1>1, GotoMoves, Names DEF BroadcastBegin, Serving
<1>2. CASE SendNext(t)
  BY <1>2, Names DEF SendNext, Serving
<1>3. CASE BroadcastEnd(t)
  <2>1. CASE t = Monitor
    <3>1. Goto(Monitor, "top")
      BY <1>3, <2>1, Names DEF BroadcastEnd
    <3>2. QED
      BY <1>3, <2>1, <3>1, GotoMoves, Names DEF BroadcastEnd
  <2>2. CASE t # Monitor
    <3>1. \E l : Goto(t, l)
      BY <1>3 DEF BroadcastEnd
    <3>2. QED
      BY <1>3, <2>2, <3>1, GotoMoves, Names DEF BroadcastEnd, Serving
  <2>3. QED
    BY <2>1, <2>2
<1>4. QED
  BY <1>1, <1>2, <1>3 DEF Broadcast

\* Steps that neither open nor close a descriptor keep the list right.
LEMMA ListedSame ==
  ASSUME Listed, UNCHANGED <<socket, clients, accepted>>,
         Serving' => Serving /\ UNCHANGED request
  PROVE  Listed'
BY DEF Listed

\* A descriptor that is closed and taken from the list leaves the list right.
LEMMA ListedClosing ==
  ASSUME TypeOK, Protocol, Sockets, Listed, NEW f \in Descriptors, Close(f),
         ToSet(clients') = ToSet(clients) \ {f}, IsInjective(clients'),
         socket[f] \notin Requests, f # accepted,
         UNCHANGED <<pc, accepted, request>>
  PROVE  Listed'
<1>1. socket'[f] = None /\ \A g \in Descriptors \ {f} : socket'[g] = socket[g]
  BY DEF Close, TypeOK
<1>2. \A g \in Descriptors : socket'[g] \in Devices <=> g \in ToSet(clients') \/ g = accepted'
  BY <1>1, Names DEF Listed
<1>3. Serving' => socket'[request'.descriptor] = request'.client
  <2>1. SUFFICES ASSUME Serving PROVE socket'[request.descriptor] = request.client
    BY DEF Serving
  <2>2. request.descriptor \in Descriptors /\ socket[request.descriptor] \in Requests
    BY <2>1 DEF Protocol, Listed
  <2>3. QED
    BY <1>1, <2>1, <2>2 DEF Listed
<1>4. QED
  BY <1>2, <1>3 DEF Listed

\* Every step but a stray close keeps the list right.
LEMMA ListedStep ==
  ASSUME TypeOK, Protocol, Sockets, Listed, Next, ~stray'
  PROVE  Listed'
<1> USE DEF threads, locals, history, list
<1>1. ASSUME Snapshot \/ Select \/ ReceiveEnd \/ Evaluate PROVE Listed'
  <2>1. PICK l : Goto(Monitor, l)
    BY <1>1 DEF Snapshot, Select, ReceiveEnd, Evaluate
  <2>2. pc'[Command] = pc[Command]
    BY <2>1, GotoMoves, Names
  <2>3. UNCHANGED <<socket, clients, accepted, request>>
    BY <1>1 DEF Snapshot, Select, ReceiveEnd, Evaluate
  <2>4. QED
    BY <2>2, <2>3, ListedSame DEF Serving
<1>2. ASSUME Accept PROVE Listed'
  <2>1. Goto(Monitor, "push") \/ Goto(Monitor, "receive")
    BY <1>2 DEF Accept
  <2>2. pc'[Command] = pc[Command] /\ pc'[Monitor] \in {"push", "receive"}
    BY <2>1, GotoMoves, Names
  <2>3. CASE UNCHANGED <<socket, accepted>>
    BY <1>2, <2>2, <2>3, ListedSame DEF Accept, Serving
  <2>4. CASE FreeDescriptors # {} /\ accepted' = Lowest /\ \E c \in Devices : Open(c)
    <3>1. PICK c \in Devices : Open(c)
      BY <2>4
    <3>2. Lowest \in Descriptors /\ socket[Lowest] = None
      BY <2>4, LowestIsFree
    <3>3. socket'[Lowest] = c /\ \A g \in Descriptors \ {Lowest} : socket'[g] = socket[g]
      BY <3>1, <3>2 DEF Open, TypeOK
    <3>4. accepted = None
      BY <1>2 DEF Accept, Protocol
    <3>5. Lowest \notin ToSet(clients)
      BY <3>2, Names DEF Listed
    <3>6. Serving' => socket'[request'.descriptor] = request'.client
      <4>1. SUFFICES ASSUME Serving PROVE socket'[request.descriptor] = request.client
        BY <1>2, <2>2 DEF Serving, Accept
      <4>2. request.descriptor \in Descriptors /\ socket[request.descriptor] \in Requests
        BY <4>1 DEF Protocol, Listed
      <4>3. QED
        BY <3>2, <3>3, <4>1, <4>2, Names DEF Listed
    <3>7. QED
      BY <1>2, <2>2, <2>4, <3>2, <3>3, <3>4, <3>5, <3>6, Names DEF Accept, Listed
  <2>5. QED
    BY <1>2, <2>3, <2>4 DEF Accept
<1>3. ASSUME Push PROVE Listed'
  <2>1. accepted \in Descriptors /\ accepted \notin ToSet(clients)
    BY <1>3 DEF Push, Protocol, TypeOK, Listed
  <2>2. ToSet(clients') = ToSet(clients) \union {accepted} /\ IsInjective(clients')
    BY <1>3, <2>1, AppendedElements DEF Push, TypeOK, Listed
  <2>3. None \notin ToSet(clients')
    BY <2>1, <2>2, ClientsAreDescriptors, Names
  <2>4. pc'[Command] = pc[Command] /\ pc'[Monitor] = "receive"
    BY <1>3, GotoMoves, Names DEF Push
  <2>5. QED
    BY <1>3, <2>1, <2>2, <2>3, <2>4, Names DEF Push, Listed, Serving
<1>4. ASSUME ReceiveBegin PROVE Listed'
  <2>1. pc'[Command] = pc[Command]
    BY <1>4, GotoMoves, Names DEF ReceiveBegin
  <2>2. QED
    BY <1>4, <2>1, ListedSame DEF ReceiveBegin, Serving
<1>5. ASSUME ReceiveFrom PROVE Listed'
  BY <1>5, ListedSame DEF ReceiveFrom, Serving
<1>6. ASSUME RemoveClient PROVE Listed'
  <2> DEFINE f == Head(stale)
  <2>1. f \in Descriptors
    BY <1>6, HeadElement DEF RemoveClient, TypeOK
  <2>2. Close(f) /\ UNCHANGED <<pc, accepted, request>>
    BY <1>6 DEF RemoveClient
  <2>3. accepted = None
    BY <1>6 DEF RemoveClient, Protocol
  <2>4. f \in ToSet(clients) \/ socket[f] = None
    BY <1>6 DEF RemoveClient
  <2>5. socket[f] \notin Requests /\ f # accepted
    BY <2>1, <2>3, <2>4, Names DEF Listed
  <2>6. ToSet(clients') = ToSet(clients) \ {f} /\ IsInjective(clients')
    BY <1>6, WithoutElements DEF RemoveClient, TypeOK, Listed
  <2> HIDE DEF f
  <2>7. QED
    BY <2>1, <2>2, <2>5, <2>6, ListedClosing
<1>7. ASSUME NEW t \in Threads, BroadcastBegin(t) \/ BroadcastEnd(t) PROVE Listed'
  <2>1. Serving' => Serving
    BY <1>7, BroadcastPlaces DEF Broadcast, Serving
  <2>2. UNCHANGED <<socket, clients, accepted, request>>
    BY <1>7 DEF BroadcastBegin, BroadcastEnd
  <2>3. QED
    BY <2>1, <2>2, ListedSame
<1>8. ASSUME NEW t \in Threads, SendNext(t) PROVE Listed'
  <2> DEFINE f == clients[pos]
  <2>1. f \in ToSet(clients) /\ f \in Descriptors /\ pos \in 1..Len(clients)
    BY <1>8 DEF SendNext, ToSet, TypeOK
  <2>2. CASE UNCHANGED <<socket, clients>>
    BY <1>8, <2>2, ListedSame DEF SendNext, Serving
  <2>3. CASE Close(f) /\ clients' = RemoveAt(clients, pos)
    <3>1. ToSet(clients') = ToSet(clients) \ {f} /\ IsInjective(clients')
      BY <2>1, <2>3, ErasedElements DEF TypeOK, Listed
    <3>2. socket[f] \notin Requests /\ f # accepted
      BY <2>1, Names DEF Listed
    <3>3. UNCHANGED <<pc, accepted, request>>
      BY <1>8 DEF SendNext
    <3> HIDE DEF f
    <3>4. QED
      BY <2>1, <2>3, <3>1, <3>2, <3>3, ListedClosing
  <2>4. QED
    BY <1>8, <2>2, <2>3 DEF SendNext
<1>9. ASSUME ReadConsole PROVE Listed'
  <2>1. pc'[Command] = pc[Command]
    BY <1>9, GotoMoves, Names DEF ReadConsole
  <2>2. QED
    BY <1>9, <2>1, ListedSame DEF ReadConsole, Serving
<1>10. ASSUME AcceptRequest PROVE Listed'
  <2>1. CASE Goto(Command, "exited") /\ UNCHANGED socket
    <3>1. ~Serving'
      BY <2>1, GotoMoves, Names DEF Serving
    <3>2. QED
      BY <1>10, <2>1, <3>1, ListedSame DEF AcceptRequest
  <2>2. CASE /\ FreeDescriptors # {}
             /\ \E h \in Requests : /\ Open(h)
                                   /\ request' = [descriptor |-> Lowest, client |-> h]
    <3>1. PICK h \in Requests : Open(h) /\ request' = [descriptor |-> Lowest, client |-> h]
      BY <2>2
    <3>2. Lowest \in Descriptors /\ socket[Lowest] = None
      BY <2>2, LowestIsFree
    <3>3. socket'[Lowest] = h /\ \A g \in Descriptors \ {Lowest} : socket'[g] = socket[g]
      BY <3>1, <3>2 DEF Open, TypeOK
    <3>4. UNCHANGED <<clients, accepted>>
      BY <1>10 DEF AcceptRequest
    <3>5. \A g \in Descriptors :
            socket'[g] \in Devices <=> g \in ToSet(clients') \/ g = accepted'
      BY <3>2, <3>3, <3>4, Names DEF Listed
    <3>6. socket'[request'.descriptor] = request'.client
      BY <3>1, <3>3
    <3>7. QED
      BY <3>4, <3>5, <3>6 DEF Listed
  <2>3. QED
    BY <1>10, <2>1, <2>2 DEF AcceptRequest
<1>11. ASSUME Respond PROVE Listed'
  <2> DEFINE f == request.descriptor
  <2>1. f \in Descriptors /\ socket[f] \in Requests
    BY <1>11 DEF Respond, Protocol, Serving, Listed
  <2>2. socket'[f] = None /\ \A g \in Descriptors \ {f} : socket'[g] = socket[g]
    BY <1>11, <2>1 DEF Respond, Close, TypeOK
  <2>3. pc'[Command] = "idle"
    BY <1>11, GotoMoves, Names DEF Respond
  <2>4. UNCHANGED <<clients, accepted>>
    BY <1>11 DEF Respond
  <2> HIDE DEF f
  <2>5. QED
    BY <2>1, <2>2, <2>3, <2>4, Names DEF Listed, Serving
<1>12. ASSUME Stop PROVE Listed'
  <2>1. \A f \in Descriptors : socket'[f] = IF f \in ToSet(clients) THEN None ELSE socket[f]
    BY <1>12 DEF Stop, Contains, ToSet, TypeOK
  <2>2. clients' = <<>> /\ ToSet(<<>>) = {} /\ IsInjective(<<>>)
    BY <1>12 DEF Stop, ToSet, IsInjective
  <2>3. pc[Monitor] \in {"exited", "failed"} /\ pc[Command] \in {"exited", "failed"}
    BY <1>12, Names DEF Stop
  <2>4. QED
    BY <1>12, <2>1, <2>2, <2>3, Names DEF Stop, Listed, Serving, Protocol
<1>13. ASSUME NEW c \in Devices, Connect(c) \/ Write(c) \/ Leave(c) PROVE Listed'
  BY <1>13, ListedSame DEF Connect, Write, Leave, Serving
<1>14. ASSUME HandleRequest PROVE Listed'
  <2>1. Serving
    BY <1>14 DEF HandleRequest, Serving
  <2>2. QED
    BY <1>14, <2>1, ListedSame DEF HandleRequest
<1>15. QED
  BY <1>1, <1>2, <1>3, <1>4, <1>5, <1>6, <1>7, <1>8, <1>9, <1>10, <1>11, <1>12, <1>13,
     <1>14, Names DEF Next, MonitorStep, CommandStep, Broadcast

----------------------------------------------------------------------------
(* The causes of closes.                                                   *)

\* A broadcast closes a client only after a reset; a stray close takes one too, and
\* an HTTP client.
LEMMA CausesStep ==
  ASSUME TypeOK, Protocol, Sockets, Causes, ~stray => Listed /\ Leaving, Next
  PROVE  Causes'
<1> USE DEF threads, locals, history, list
<1>0. env' = env
  BY SameEnvironment
<1>1. ASSUME Snapshot PROVE Causes'
  BY <1>0, <1>1 DEF Snapshot, Causes
<1>2. ASSUME NEW t \in Threads, SendNext(t) PROVE Causes'
  <2>1. UNCHANGED stray
    BY <1>2 DEF SendNext
  <2>2. CASE UNCHANGED cut
    BY <1>0, <2>1, <2>2 DEF Causes
  <2>3. CASE socket[clients[pos]] \in {None} \union {c \in Connections : net[c] = "reset"}
    <3>1. CASE stray
      BY <1>0, <2>1, <3>1 DEF Causes
    <3>2. CASE ~stray
      <4>1. clients[pos] \in ToSet(clients) /\ clients[pos] \in Descriptors
        BY <1>2 DEF SendNext, ToSet, TypeOK
      <4>2. socket[clients[pos]] \in Devices
        BY <3>2, <4>1 DEF Listed
      <4>3. "reset" \in env
        BY <2>3, <4>2, Names DEF Sockets
      <4>4. QED
        BY <1>0, <2>1, <3>2, <4>3 DEF Causes
    <3>3. QED
      BY <3>1, <3>2
  <2>4. QED
    BY <1>2, <2>2, <2>3 DEF SendNext
<1>3. ASSUME RemoveClient PROVE Causes'
  <2>1. UNCHANGED cut
    BY <1>3 DEF RemoveClient
  <2>2. CASE UNCHANGED stray
    BY <1>0, <2>1, <2>2 DEF Causes
  <2>3. CASE stray' # stray
    <3> DEFINE f == Head(stale)
    <3>1. /\ ~stray /\ f \notin ToSet(clients) /\ socket[f] # None
          /\ pc[Monitor] = "remove" /\ stale # <<>>
      BY <1>3, <2>3 DEF RemoveClient, TypeOK
    <3>2. f \in ToSet(stale) /\ f \in Descriptors
      BY <3>1, HeadElement, ClientsAreDescriptors DEF TypeOK
    <3>3. accepted = None
      BY <3>1 DEF Protocol
    <3>4. socket[f] \in Requests
      BY <3>1, <3>2, <3>3, Names DEF Listed, TypeOK, Connections
    <3>5. f \in cut
      BY <3>1, <3>2 DEF Leaving
    <3>6. "http" \in env /\ "reset" \in env
      BY <3>2, <3>4, <3>5 DEF Sockets, Causes
    <3>7. QED
      BY <1>0, <3>6 DEF Causes
  <2>4. QED
    BY <2>2, <2>3
<1>4. ASSUME ~ (Snapshot \/ RemoveClient \/ \E t \in Threads : SendNext(t))
      PROVE  UNCHANGED <<cut, stray>>
  BY <1>4, Names
     DEF Next, MonitorStep, CommandStep, Broadcast, Select, Accept, Push, ReceiveBegin,
         ReceiveFrom, ReceiveEnd, Evaluate, BroadcastBegin, BroadcastEnd, ReadConsole,
         AcceptRequest, HandleRequest, Respond, Stop, Connect, Write, Leave
<1>5. QED
  BY <1>0, <1>1, <1>2, <1>3, <1>4 DEF Causes

----------------------------------------------------------------------------
(* What the other threads and the devices leave to the monitor thread.     *)

OtherStep ==
  \/ CommandStep \/ ReadConsole \/ Broadcast(Console)
  \/ \E c \in Devices : Connect(c) \/ Write(c) \/ Leave(c)

\* Nobody but the monitor thread makes recv block on a descriptor, unless by closing it.
ReadableStays ==
  \A f \in Descriptors \ cut' : Readable(socket[f]) => Readable(socket[f])'

\* The monitor thread is where it was, and what it works with is as it was but for
\* the clients that a broadcast closed.
Undisturbed ==
  /\ UNCHANGED <<readSet, stale, accepted>> /\ pc'[Monitor] = pc[Monitor]
  /\ pc[Monitor] = "read" => UNCHANGED <<pos, clients>>
  /\ cut \subseteq cut' /\ ToSet(clients) \subseteq ToSet(clients') \union cut'
  /\ ReadableStays

\* A broadcast closes and erases one client, or sends to it.
LEMMA SendReadable ==
  ASSUME TypeOK, Sockets, Listed, NEW t \in Threads, SendNext(t)
  PROVE  /\ ReadableStays /\ cut \subseteq cut'
         /\ ToSet(clients) \subseteq ToSet(clients') \union cut'
<1> DEFINE f == clients[pos]
<1>1. f \in Descriptors /\ pos \in 1..Len(clients) /\ UNCHANGED wire
  BY DEF SendNext, TypeOK, sent
<1>2. CASE UNCHANGED <<socket, clients, cut>> /\ UNCHANGED net
  BY <1>1, <1>2 DEF ReadableStays, Readable
<1>3. CASE /\ UNCHANGED <<socket, clients, cut>>
           /\ net' = [net EXCEPT ![socket[f]] = "reset"]
  <2>1. \A c \in Connections : net'[c] = net[c] \/ net'[c] = "reset"
    BY <1>3 DEF TypeOK
  <2>2. \A c \in Devices : c \in Connections
    BY Names
  <2>3. QED
    BY <1>1, <1>3, <2>1, <2>2 DEF ReadableStays, Readable
<1>4. CASE Close(f) /\ cut' = cut \union {f} /\ clients' = RemoveAt(clients, pos)
  <2>1. ToSet(clients') = ToSet(clients) \ {f}
    BY <1>1, <1>4, ErasedElements DEF TypeOK, Listed
  <2>2. ASSUME NEW g \in Descriptors \ {f}, Readable(socket[g]) PROVE Readable(socket[g])'
    <3>1. socket[g] \in Devices /\ socket[g] # None /\ socket[g] # socket[f]
      BY <1>1, <2>2, Names DEF Readable, Sockets
    <3> HIDE DEF f
    <3>2. socket'[g] = socket[g] /\ net'[socket[g]] = net[socket[g]]
      BY <1>1, <1>4, <2>2, <3>1, Names DEF Close, TypeOK
    <3>3. QED
      BY <1>1, <2>2, <3>2 DEF Readable
  <2>3. QED
    BY <1>4, <2>1, <2>2 DEF ReadableStays
<1>5. QED
  BY <1>2, <1>3, <1>4 DEF SendNext

\* What a device does leaves its connection readable.
LEMMA DeviceReadable ==
  ASSUME TypeOK, NEW d \in Devices, Connect(d) \/ Write(d) \/ Leave(d)
  PROVE  ReadableStays
<1> USE DEF list, sent
<1>1. UNCHANGED socket
  BY DEF Connect, Write, Leave
<1>2. \A c \in Devices : c \in Connections
  BY Names
<1>3. SUFFICES ASSUME NEW c \in Devices, Readable(c) PROVE Readable(c)'
  BY <1>1 DEF ReadableStays, Readable
<1>4. CASE Connect(d) \/ Leave(d)
  BY <1>2, <1>3, <1>4 DEF Readable, Connect, Leave, TypeOK
<1>5. CASE Write(d)
  <2>1. PICK p \in Pieces : wire' = [wire EXCEPT ![d] = Append(@, p)]
    BY <1>5 DEF Write, Pieces
  <2>2. Append(wire[d], p) # <<>>
    <3>1. wire[d] \in Seq(Pieces)
      BY DEF TypeOK
    <3>2. QED
      BY <3>1, AppendProperties
  <2>3. UNCHANGED net
    BY <1>5 DEF Write
  <2>4. QED
    BY <1>3, <2>1, <2>2, <2>3 DEF Readable, TypeOK
<1>6. QED
  BY <1>4, <1>5

\* The other threads and the devices leave the monitor thread alone, but for the
\* clients they close.
LEMMA OthersLeaveAlone ==
  ASSUME TypeOK, Protocol, Sockets, Listed, OtherStep
  PROVE  Undisturbed
<1> USE DEF threads, locals, history, list, sent
<1>1. ASSUME UNCHANGED <<clients, locals, cut, socket, net, wire, pos>>,
             pc'[Monitor] = pc[Monitor]
      PROVE  Undisturbed
  BY <1>1 DEF Undisturbed, ReadableStays, Readable
<1>2. ASSUME HandleRequest \/ ReadConsole PROVE Undisturbed
  <2>1. pc'[Monitor] = pc[Monitor]
    BY <1>2, GotoMoves, Names DEF HandleRequest, ReadConsole
  <2>2. QED
    BY <1>1, <1>2, <2>1 DEF HandleRequest, ReadConsole
<1>3. ASSUME NEW t \in {Console, Command}, Broadcast(t) PROVE Undisturbed
  <2>1. t \in Threads /\ t # Monitor /\ pc'[Monitor] = pc[Monitor]
    BY <1>3, BroadcastPlaces, Names
  <2>2. UNCHANGED <<readSet, stale, accepted>>
    BY <1>3 DEF Broadcast, BroadcastBegin, SendNext, BroadcastEnd
  <2>3. CASE SendNext(t)
    <3>1. pc[Monitor] # "read"
      BY <1>3, <2>1, <2>3, Names DEF SendNext, Protocol
    <3>2. QED
      BY <2>1, <2>2, <2>3, <3>1, SendReadable DEF Undisturbed
  <2>4. CASE BroadcastBegin(t)
    <3>1. pc[Monitor] # "read"
      BY <2>4, Names DEF BroadcastBegin, Protocol
    <3>2. QED
      BY <2>1, <2>2, <2>4, <3>1 DEF BroadcastBegin, Undisturbed, ReadableStays, Readable
  <2>5. CASE BroadcastEnd(t)
    BY <1>1, <2>1, <2>5 DEF BroadcastEnd
  <2>6. QED
    BY <1>3, <2>3, <2>4, <2>5 DEF Broadcast
<1>4. ASSUME AcceptRequest PROVE Undisturbed
  <2>1. pc'[Monitor] = pc[Monitor]
    BY <1>4, GotoMoves, Names DEF AcceptRequest
  <2>2. CASE UNCHANGED <<socket, net>>
    BY <1>1, <1>4, <2>1, <2>2 DEF AcceptRequest
  <2>3. CASE FreeDescriptors # {} /\ \E h \in Requests : Open(h)
    <3>1. PICK h \in Requests : Open(h)
      BY <2>3
    <3>2. Lowest \in Descriptors /\ socket[Lowest] = None
      BY <2>3, LowestIsFree
    <3>3. \A g \in Descriptors : socket[g] \in Devices => socket'[g] = socket[g]
      BY <3>1, <3>2, Names DEF Open, TypeOK
    <3>4. \A c \in Devices : net'[c] = net[c]
      BY <3>1, Names DEF Open, TypeOK
    <3>5. ReadableStays
      BY <1>4, <3>3, <3>4 DEF AcceptRequest, ReadableStays, Readable
    <3>6. QED
      BY <1>4, <2>1, <3>5 DEF AcceptRequest, Undisturbed
  <2>4. QED
    BY <1>4, <2>2, <2>3 DEF AcceptRequest
<1>5. ASSUME Respond PROVE Undisturbed
  <2>1. pc'[Monitor] = pc[Monitor]
    BY <1>5, GotoMoves, Names DEF Respond
  <2> DEFINE f == request.descriptor
  <2>2. f \in Descriptors /\ socket[f] \in Requests
    BY <1>5 DEF Respond, Protocol, Serving, Listed
  <2>3. \A g \in Descriptors : socket[g] \in Devices => socket'[g] = socket[g]
    BY <1>5, <2>2, Names DEF Respond, Close, TypeOK
  <2>4. \A c \in Devices : net'[c] = net[c]
    BY <1>5, <2>2, Names DEF Respond, Close, TypeOK
  <2>5. ReadableStays
    BY <1>5, <2>3, <2>4 DEF Respond, ReadableStays, Readable
  <2>6. QED
    BY <1>5, <2>1, <2>5 DEF Respond, Undisturbed
<1>6. ASSUME NEW c \in Devices, Connect(c) \/ Write(c) \/ Leave(c) PROVE Undisturbed
  <2>1. ReadableStays
    BY <1>6, DeviceReadable
  <2>2. QED
    BY <1>6, <2>1 DEF Undisturbed, Connect, Write, Leave
<1>7. QED
  BY <1>2, <1>3, <1>4, <1>5, <1>6 DEF OtherStep, CommandStep

\* So what select returned stays, and the stale clients are still to be removed.
LEMMA OthersReady ==
  ASSUME TypeOK, Ready, Leaving, Undisturbed
  PROVE  Ready' /\ Leaving'
<1>1. \A f \in readSet : f \in Descriptors
  BY DEF TypeOK
<1>2. \A f \in Descriptors \ cut' : f \notin cut /\ (Readable(socket[f]) => Readable(socket[f])')
  BY DEF Undisturbed, ReadableStays
<1>3. Ready'
  <2>1. pc'[Monitor] = "read" =>
          \A i \in 1..Len(clients') :
            i >= pos' /\ clients'[i] \in readSet' \ cut' => Readable(socket[clients[i]])'
    BY <1>1, <1>2 DEF Ready, Undisturbed
  <2>2. QED
    BY <1>1, <1>2, <2>1 DEF Ready, Undisturbed
<1>4. Leaving'
  BY DEF Leaving, Undisturbed
<1>5. QED
  BY <1>3, <1>4

----------------------------------------------------------------------------
(* The monitor thread, from select to the removal of the stale clients.    *)

\* What select returned stays so until it is read, and those found stale are removed.
LEMMA MonitorReady ==
  ASSUME TypeOK, Protocol, Sockets, Listed, Ready, Leaving, MonitorStep
  PROVE  Ready' /\ Leaving'
<1> USE DEF threads, locals, history, list, sent
<1>1. ASSUME Snapshot PROVE Ready' /\ Leaving'
  <2>1. \/ pc'[Monitor] = "select" /\ readSet' = ToSet(clients)
        \/ pc'[Monitor] = "exited"
    BY <1>1, GotoMoves, Names DEF Snapshot
  <2>2. QED
    BY <1>1, <2>1 DEF Snapshot, Ready, Leaving
<1>2. ASSUME Select PROVE Ready' /\ Leaving'
  <2>1. UNCHANGED <<clients, cut, socket, net, wire>> /\ pc[Monitor] = "select"
    BY <1>2 DEF Select
  <2>2. \A f \in readSet \ cut : f \in Descriptors /\ socket[f] \in Devices
    BY <2>1 DEF Ready, Listed, TypeOK
  <2>3. CASE (\E f \in readSet : socket[f] = None) /\ Goto(Monitor, "failed") /\ UNCHANGED readSet
    <3>1. pc'[Monitor] = "failed"
      BY <2>3, GotoMoves, Names
    <3>2. readSet \intersect cut # {}
      BY <2>2, <2>3, Names
    <3>3. QED
      BY <2>1, <2>3, <3>1, <3>2 DEF Ready, Leaving
  <2>4. CASE /\ \E taken \in SUBSET {f \in readSet : socket[f] \in Requests} :
                  readSet' = {f \in readSet : Readable(socket[f])} \union taken
             /\ \E l \in {"accept", "receive"} : Goto(Monitor, l)
    <3>1. pc'[Monitor] \in {"accept", "receive"}
      BY <2>4, GotoMoves, Names
    <3>2. \A f \in readSet' \ cut : Readable(socket[f])
      BY <2>2, <2>4, Names
    <3>3. \A f \in readSet' \ cut' : Readable(socket[f])'
      BY <2>1, <3>2 DEF Readable
    <3>4. QED
      BY <3>1, <3>3 DEF Ready, Leaving
  <2>5. QED
    BY <1>2, <2>3, <2>4 DEF Select
<1>3. ASSUME Accept PROVE Ready' /\ Leaving'
  <2>1. Goto(Monitor, "push") \/ Goto(Monitor, "receive")
    BY <1>3 DEF Accept
  <2>2. pc'[Monitor] \in {"push", "receive"}
    BY <2>1, GotoMoves, Names
  <2>3. \A f \in readSet \ cut : Readable(socket[f])'
    <3>1. CASE UNCHANGED <<socket, net>>
      BY <1>3, <3>1 DEF Accept, Ready, Readable
    <3>2. CASE FreeDescriptors # {} /\ \E c \in Devices : net[c] = "waiting" /\ Open(c)
      <4>1. PICK c \in Devices : net[c] = "waiting" /\ Open(c)
        BY <3>2
      <4>2. Lowest \in Descriptors /\ socket[Lowest] = None
        BY <3>2, LowestIsFree
      <4>3. SUFFICES ASSUME NEW f \in readSet \ cut PROVE Readable(socket[f])'
        OBVIOUS
      <4>4. Readable(socket[f]) /\ socket[f] \in Devices /\ f \in Descriptors
        BY <1>3 DEF Accept, Ready, Readable, TypeOK
      <4>5. socket'[f] = socket[f]
        BY <4>1, <4>2, <4>4, Names DEF Open, TypeOK
      <4>6. socket[f] # c
        BY <4>1, <4>4, Names DEF Sockets
      <4>7. net'[socket[f]] = net[socket[f]]
        BY <4>1, <4>4, <4>6, Names DEF Open, TypeOK
      <4>8. QED
        BY <1>3, <4>4, <4>5, <4>7 DEF Readable, Accept
    <3>3. QED
      BY <1>3, <3>1, <3>2 DEF Accept
  <2>4. QED
    BY <1>3, <2>2, <2>3 DEF Accept, Ready, Leaving
<1>4. ASSUME Push PROVE Ready' /\ Leaving'
  <2>1. pc'[Monitor] = "receive"
    BY <1>4, GotoMoves, Names DEF Push
  <2>2. QED
    BY <1>4, <2>1 DEF Push, Ready, Leaving, Readable
<1>5. ASSUME ReceiveBegin PROVE Ready' /\ Leaving'
  <2>1. pc'[Monitor] = "read"
    BY <1>5, GotoMoves, Names DEF ReceiveBegin
  <2>2. ToSet(<<>>) = {} /\ IsInjective(<<>>)
    BY DEF ToSet, IsInjective
  <2>3. \A i \in 1..Len(clients) : clients[i] \in Descriptors
    BY DEF TypeOK
  <2>4. QED
    BY <1>5, <2>1, <2>2, <2>3 DEF ReceiveBegin, Ready, Leaving, Readable
<1>6. ASSUME ReceiveFrom PROVE Ready' /\ Leaving'
  <2> DEFINE f == clients[pos]
             c == socket[f]
  <2>1. /\ pos \in 1..Len(clients) /\ f \in Descriptors /\ f \in ToSet(clients)
        /\ pos \in Nat /\ pos' = pos + 1 /\ DOMAIN clients = 1..Len(clients)
    BY <1>6 DEF ReceiveFrom, ToSet, TypeOK
  <2>2. c \in Devices /\ c # None /\ c \in Connections
    BY <2>1, Names DEF Listed
  <2>3. UNCHANGED <<pc, clients, socket, net, readSet, cut>> /\ pc[Monitor] = "read"
    BY <1>6 DEF ReceiveFrom
  <2>4. \A d \in Devices \ {c} : wire'[d] = wire[d]
    BY <1>6 DEF ReceiveFrom, TypeOK
  <2>5. \A i \in 1..Len(clients) :
          i >= pos' => /\ i >= pos /\ clients[i] # f /\ socket[clients[i]] # c
                       /\ clients[i] \in Descriptors /\ socket[clients[i]] \in Devices
    <3>1. SUFFICES ASSUME NEW i \in 1..Len(clients), i >= pos + 1
                   PROVE  /\ i >= pos /\ clients[i] # f /\ socket[clients[i]] # c
                          /\ clients[i] \in Descriptors /\ socket[clients[i]] \in Devices
      BY <2>1
    <3>2. i >= pos /\ i # pos
      BY <2>1, <3>1
    <3>3. clients[i] # f
      BY <2>1, <3>2 DEF Listed, IsInjective
    <3>4. clients[i] \in Descriptors /\ socket[clients[i]] \in Devices
      BY ClientsAreDescriptors DEF Listed
    <3>5. socket[clients[i]] # c
      BY <2>1, <2>2, <3>3, <3>4 DEF Sockets
    <3>6. QED
      BY <3>2, <3>3, <3>4, <3>5
  <2>6. Ready'
    BY <2>3, <2>4, <2>5 DEF Ready, Readable
  <2>7. f \notin ToSet(stale)
    BY <2>1, <2>3 DEF Leaving
  <2>8. CASE UNCHANGED stale
    BY <2>3, <2>5, <2>6, <2>8 DEF Leaving
  <2>9. CASE stale' = Append(stale, f)
    <3>1. ToSet(stale') = ToSet(stale) \union {f} /\ IsInjective(stale')
      BY <2>1, <2>3, <2>7, <2>9, AppendedElements DEF TypeOK, Leaving
    <3>2. QED
      BY <2>1, <2>3, <2>5, <2>6, <3>1 DEF Leaving
  <2>10. QED
    BY <1>6, <2>8, <2>9 DEF ReceiveFrom
<1>7. ASSUME ReceiveEnd PROVE Ready' /\ Leaving'
  <2>1. pc'[Monitor] = "remove" /\ pc[Monitor] = "read"
    BY <1>7, GotoMoves, Names DEF ReceiveEnd
  <2>2. QED
    BY <1>7, <2>1 DEF ReceiveEnd, Ready, Leaving
<1>8. ASSUME RemoveClient PROVE Ready' /\ Leaving'
  <2> DEFINE f == Head(stale)
  <2>1. /\ f \notin ToSet(Tail(stale)) /\ ToSet(Tail(stale)) \subseteq ToSet(stale)
        /\ IsInjective(Tail(stale))
    BY <1>8, HeadElement DEF RemoveClient, TypeOK, Leaving
  <2>2. pc[Monitor] = "remove" /\ UNCHANGED <<pc, cut>> /\ stale' = Tail(stale)
    BY <1>8 DEF RemoveClient
  <2>3. ToSet(clients') = ToSet(clients) \ {f}
    BY <1>8, WithoutElements DEF RemoveClient, TypeOK
  <2> HIDE DEF f
  <2>4. QED
    BY <2>1, <2>2, <2>3 DEF Ready, Leaving
<1>9. ASSUME Evaluate PROVE Ready' /\ Leaving'
  <2>1. pc'[Monitor] \in {"lock", "top"}
    BY <1>9, GotoMoves, Names DEF Evaluate
  <2>2. QED
    BY <2>1 DEF Ready, Leaving
<1>10. ASSUME Broadcast(Monitor) PROVE Ready' /\ Leaving'
  BY <1>10, BroadcastPlaces, Names DEF Ready, Leaving
<1>11. QED
  BY <1>1, <1>2, <1>3, <1>4, <1>5, <1>6, <1>7, <1>8, <1>9, <1>10 DEF MonitorStep

\* Every step keeps what select returned, but for the clients broadcasts close.
LEMMA ReadyStep ==
  ASSUME TypeOK, Protocol, Sockets, Listed, Ready, Leaving, Next
  PROVE  Ready' /\ Leaving'
<1>1. CASE MonitorStep
  BY <1>1, MonitorReady
<1>2. CASE OtherStep
  BY <1>2, OthersLeaveAlone, OthersReady
<1>3. CASE Stop
  <2>1. /\ pc[Monitor] \in {"exited", "failed"} /\ pc' = pc
        /\ UNCHANGED <<readSet, cut>>
    BY <1>3, Names DEF Stop, threads, locals, history
  <2>2. QED
    BY <2>1 DEF Ready, Leaving
<1>4. QED
  BY <1>1, <1>2, <1>3 DEF Next, OtherStep

----------------------------------------------------------------------------
(* Lines.                                                                  *)

\* A descriptor is given to a new connection or taken from one that is closed, and a
\* closed connection stays so.
Moves ==
  /\ \A f \in Descriptors :
       \/ socket'[f] = socket[f]
       \/ socket'[f] = None /\ (socket[f] # None => net'[socket[f]] = "closed")
       \/ /\ socket[f] = None /\ socket'[f] \in Connections
          /\ net[socket'[f]] \in {"new", "waiting"}
  /\ \A c \in Connections :
       /\ net'[c] \in {"new", "waiting"} => net[c] \in {"new", "waiting"}
       /\ net[c] = "closed" => net'[c] = "closed"

\* Closing does it,
LEMMA CloseMoves ==
  ASSUME TypeOK, NEW f \in Descriptors, Close(f) PROVE Moves
<1>1. CASE socket[f] = None
  BY <1>1 DEF Close, Moves, TypeOK
<1>2. CASE socket[f] # None
  <2>1. socket[f] \in Connections
    BY <1>2 DEF TypeOK
  <2>2. socket'[f] = None /\ \A g \in Descriptors \ {f} : socket'[g] = socket[g]
    BY DEF Close, TypeOK
  <2>3. net'[socket[f]] = "closed" /\ \A c \in Connections \ {socket[f]} : net'[c] = net[c]
    BY <1>2, <2>1 DEF Close, TypeOK
  <2>4. QED
    BY <2>2, <2>3 DEF Moves
<1>3. QED
  BY <1>1, <1>2

\* and so does accepting.
LEMMA OpenMoves ==
  ASSUME TypeOK, FreeDescriptors # {}, NEW c \in Connections,
         net[c] \in {"new", "waiting"}, Open(c)
  PROVE  Moves
<1>1. Lowest \in Descriptors /\ socket[Lowest] = None
  BY LowestIsFree
<1>2. socket'[Lowest] = c /\ \A g \in Descriptors \ {Lowest} : socket'[g] = socket[g]
  BY <1>1 DEF Open, TypeOK
<1>3. net'[c] = "open" /\ \A d \in Connections \ {c} : net'[d] = net[d]
  BY DEF Open, TypeOK
<1>4. QED
  BY <1>1, <1>2, <1>3 DEF Moves

\* Every step does no more.
LEMMA MovesStep ==
  ASSUME TypeOK, Protocol, Next
  PROVE  Moves
<1> USE DEF list, history
<1>1. ASSUME UNCHANGED <<socket, net>> PROVE Moves
  BY <1>1 DEF Moves
<1>2. ASSUME Accept PROVE Moves
  <2>1. CASE UNCHANGED <<socket, net>>
    BY <1>1, <2>1
  <2>2. CASE FreeDescriptors # {} /\ \E c \in Devices : net[c] = "waiting" /\ Open(c)
    BY <2>2, OpenMoves, Names
  <2>3. QED
    BY <1>2, <2>1, <2>2 DEF Accept
<1>3. ASSUME RemoveClient PROVE Moves
  <2>1. Head(stale) \in Descriptors
    BY <1>3, HeadElement DEF RemoveClient, TypeOK
  <2>2. QED
    BY <1>3, <2>1, CloseMoves DEF RemoveClient
<1>4. ASSUME NEW t \in Threads, SendNext(t) PROVE Moves
  <2>1. clients[pos] \in Descriptors
    BY <1>4 DEF SendNext, TypeOK
  <2>2. CASE Close(clients[pos])
    BY <2>1, <2>2, CloseMoves
  <2>3. CASE UNCHANGED <<socket, net>>
    BY <1>1, <2>3
  <2>4. CASE /\ UNCHANGED socket /\ net[socket[clients[pos]]] = "left"
             /\ net' = [net EXCEPT ![socket[clients[pos]]] = "reset"]
    <3>1. \A c \in Connections : net'[c] = net[c] \/ (net[c] = "left" /\ net'[c] = "reset")
      BY <2>4 DEF TypeOK
    <3>2. QED
      BY <2>4, <3>1 DEF Moves
  <2>5. QED
    BY <1>4, <2>2, <2>3, <2>4 DEF SendNext
<1>5. ASSUME AcceptRequest PROVE Moves
  <2>1. CASE UNCHANGED <<socket, net>>
    BY <1>1, <2>1
  <2>2. CASE FreeDescriptors # {} /\ \E h \in Requests : net[h] = "new" /\ Open(h)
    BY <2>2, OpenMoves, Names
  <2>3. QED
    BY <1>5, <2>1, <2>2 DEF AcceptRequest
<1>6. ASSUME Respond PROVE Moves
  <2>1. request.descriptor \in Descriptors
    BY <1>6 DEF Respond, Protocol, Serving
  <2>2. QED
    BY <1>6, <2>1, CloseMoves DEF Respond
<1>7. ASSUME Stop PROVE Moves
  <2>1. \A f \in Descriptors : socket'[f] = IF f \in ToSet(clients) THEN None ELSE socket[f]
    BY <1>7 DEF Stop, Contains, ToSet, TypeOK
  <2>2. \A c \in Connections :
          net'[c] = IF \E f \in ToSet(clients) : socket[f] = c THEN "closed" ELSE net[c]
    BY <1>7 DEF Stop
  <2>3. \A f \in Descriptors : socket[f] # None => socket[f] \in Connections
    BY DEF TypeOK
  <2>4. QED
    BY <2>1, <2>2, <2>3 DEF Moves
<1>8. ASSUME NEW c \in Devices, Connect(c) \/ Leave(c) PROVE Moves
  <2>1. UNCHANGED socket /\ c \in Connections
    BY <1>8, Names DEF Connect, Leave
  <2>2. /\ \/ net'[c] = "left" /\ net[c] = "open"
           \/ net'[c] = "waiting" /\ net[c] = "new"
        /\ \A d \in Connections \ {c} : net'[d] = net[d]
    BY <1>8, <2>1 DEF Connect, Leave, TypeOK
  <2>3. QED
    BY <2>1, <2>2 DEF Moves
<1>9. ASSUME ~ (\/ Accept \/ RemoveClient \/ AcceptRequest \/ Respond \/ Stop
                \/ \E t \in Threads : SendNext(t)
                \/ \E c \in Devices : Connect(c) \/ Leave(c))
      PROVE  UNCHANGED <<socket, net>>
  BY <1>9, Names
     DEF Next, MonitorStep, CommandStep, Broadcast, Snapshot, Select, Push,
         ReceiveBegin, ReceiveFrom, ReceiveEnd, Evaluate, BroadcastBegin,
         BroadcastEnd, ReadConsole, HandleRequest, Write
<1>10. QED
  BY <1>1, <1>2, <1>3, <1>4, <1>5, <1>6, <1>7, <1>8, <1>9

\* Only reading and writing touch what is on its way.
LEMMA WireSteps ==
  ASSUME Next, ~ReceiveFrom, \A c \in Devices : ~Write(c)
  PROVE  UNCHANGED <<partial, damaged, wire, written>>
BY DEF Next, MonitorStep, CommandStep, Broadcast, Snapshot, Select, Accept, Push,
       ReceiveBegin, ReceiveEnd, RemoveClient, Evaluate, BroadcastBegin,
       SendNext, BroadcastEnd, ReadConsole, AcceptRequest, HandleRequest, Respond, Stop,
       Connect, Leave, locals, history, sent

\* A device that was cut off stays so.
LEMMA InterruptedStays ==
  ASSUME TypeOK, Protocol, Sockets, Next, NEW d \in Devices, Interrupted(d)
  PROVE  Interrupted(d)'
<1>1. net'[d] = "closed" /\ net[d] = "closed"
  BY MovesStep, Names DEF Moves, Interrupted
<1>2. \A f \in Descriptors : socket[f] # d
  BY <1>1, Names DEF Sockets
<1>3. wire'[d] = wire[d] /\ written'[d] = written[d]
  <2>1. CASE ReceiveFrom
    <3>1. clients[pos] \in Descriptors
      BY <2>1 DEF ReceiveFrom, TypeOK
    <3>2. QED
      BY <1>2, <2>1, <3>1 DEF ReceiveFrom, TypeOK
  <2>2. CASE \E c \in Devices : Write(c)
    BY <1>1, <2>2 DEF Write, TypeOK
  <2>3. CASE ~ReceiveFrom /\ \A c \in Devices : ~Write(c)
    BY <2>3, WireSteps
  <2>4. QED
    BY <2>1, <2>2, <2>3
<1>4. QED
  BY <1>1, <1>3 DEF Interrupted, Unfinished

\* Steps that neither read nor write cut at most connections off.
LEMMA LinesSame ==
  ASSUME TypeOK, Protocol, Sockets, Lines, Next,
         UNCHANGED <<partial, damaged, wire, written>>
  PROVE  Lines'
<1>1. Moves /\ \A d \in Devices : Interrupted(d) => Interrupted(d)'
  BY MovesStep, InterruptedStays
<1>2. ASSUME NEW c \in Devices PROVE Alternates(c)'
  <2>1. net'[c] \in {"new", "waiting"} => net[c] \in {"new", "waiting"}
    BY <1>1, <1>2, Names DEF Moves
  <2>2. QED
    BY <1>2, <2>1 DEF Lines, Alternates, Unfinished
<1>3. \A p \in damaged' : p[1] \in Devices \ {p[2]} /\ Interrupted(p[1])'
  BY <1>1 DEF Lines
<1>4. ASSUME NEW f \in Descriptors
      PROVE  /\ partial'[f] \in {None, socket'[f]} \/ Interrupted(partial[f])'
             /\ socket'[f] \in Devices /\ partial'[f] \in {None, socket'[f]} =>
                  Continues(f, socket[f])'
  <2>1. /\ partial[f] \in {None, socket[f]} \/ Interrupted(partial[f])
        /\ socket[f] \in Devices /\ partial[f] \in {None, socket[f]} =>
             Continues(f, socket[f])
        /\ partial[f] \in Devices \union {None}
    BY DEF Lines, TypeOK
  <2>2. CASE socket'[f] = socket[f]
    BY <1>1, <2>1, <2>2 DEF Continues, Unfinished
  <2>3. CASE socket[f] # None /\ socket'[f] = None /\ net'[socket[f]] = "closed"
    <3>1. CASE partial[f] = socket[f] /\ socket[f] \in Devices
      <4>1. Unfinished(socket[f]) \/ wire[socket[f]] # <<>>
        BY <2>1, <3>1 DEF Continues
      <4>2. Interrupted(partial[f])'
        BY <2>3, <3>1, <4>1 DEF Interrupted, Unfinished
      <4>3. QED
        BY <2>3, <4>2, Names
    <3>2. CASE partial[f] = None \/ Interrupted(partial[f])
      <4>1. partial'[f] = None \/ Interrupted(partial[f])'
        BY <1>1, <2>1, <3>2
      <4>2. QED
        BY <2>3, <4>1, Names
    <3>3. QED
      BY <2>1, <2>3, <3>1, <3>2
  <2>4. CASE /\ socket[f] = None /\ socket'[f] \in Connections
             /\ net[socket'[f]] \in {"new", "waiting"}
    <3>1. partial[f] = None \/ (partial[f] \in Devices /\ Interrupted(partial[f]))
      BY <2>1, <2>4
    <3>2. partial'[f] = None \/ (partial[f] \in Devices /\ Interrupted(partial[f])')
      BY <1>1, <3>1
    <3>3. partial[f] # socket'[f]
      BY <2>4, <3>1, Names DEF Interrupted
    <3>4. ASSUME socket'[f] \in Devices PROVE Continues(f, socket[f])'
      <4>1. wire[socket'[f]] = <<>> /\ ~Unfinished(socket'[f])
        BY <2>4, <3>4 DEF Lines, Alternates
      <4>2. QED
        BY <3>3, <4>1 DEF Continues, Unfinished
    <3>5. QED
      BY <3>2, <3>4
  <2>5. QED
    BY <1>1, <2>2, <2>3, <2>4 DEF Moves
<1>5. QED
  BY <1>2, <1>3, <1>4 DEF Lines

\* A device writes the first or the second half of a line, or all of it.
LEMMA WriteContinues ==
  ASSUME TypeOK, NEW c \in Devices, Alternates(c), Write(c), UNCHANGED partial
  PROVE  /\ Alternates(c)'
         /\ \A f \in Descriptors : Continues(f, c) => Continues(f, c)'
<1>1. PICK p \in {"line", "head", "tail"} :
        /\ wire' = [wire EXCEPT ![c] = Append(@, p)]
        /\ written' = [written EXCEPT ![c] = @ + IF p = "line" THEN 2 ELSE 1]
        /\ p = "tail" <=> Unfinished(c)
  BY DEF Write
<1> DEFINE w == wire[c]
<1>2. wire'[c] = Append(w, p) /\ w \in Seq(Pieces) /\ p \in Pieces
  BY <1>1 DEF TypeOK, Pieces
<1>3. /\ Len(Append(w, p)) = Len(w) + 1 /\ Len(w) \in Nat
      /\ \A i \in 1..Len(w) : Append(w, p)[i] = w[i]
      /\ Append(w, p)[Len(w) + 1] = p
      /\ Append(w, p) # <<>>
  BY <1>2, AppendProperties
<1>4. Unfinished(c)' <=> p = "head"
  <2>1. written[c] \in Nat /\ written'[c] = written[c] + IF p = "line" THEN 2 ELSE 1
    <3>1. MaxLines \in Nat
      BY ConnectionsAssumption
    <3>2. QED
      BY <1>1, <3>1 DEF TypeOK
  <2>2. CASE p = "line"
    <3>1. written[c] % 2 # 1 /\ written'[c] = written[c] + 2
      BY <1>1, <2>1, <2>2 DEF Unfinished
    <3>2. (written[c] + 2) % 2 = written[c] % 2
      BY <2>1
    <3>3. QED
      BY <2>2, <3>1, <3>2 DEF Unfinished
  <2>3. CASE p = "head"
    <3>1. written[c] % 2 # 1 /\ written'[c] = written[c] + 1
      BY <1>1, <2>1, <2>3 DEF Unfinished
    <3>2. (written[c] + 1) % 2 = 1
      BY <2>1, <3>1
    <3>3. QED
      BY <2>3, <3>1, <3>2 DEF Unfinished
  <2>4. CASE p = "tail"
    <3>1. written[c] % 2 = 1 /\ written'[c] = written[c] + 1
      BY <1>1, <2>1, <2>4 DEF Unfinished
    <3>2. (written[c] + 1) % 2 # 1
      BY <2>1, <3>1
    <3>3. QED
      BY <2>4, <3>1, <3>2 DEF Unfinished
  <2>5. QED
    BY <2>2, <2>3, <2>4
<1>5. Last(wire'[c]) = p /\ wire'[c] # <<>>
  BY <1>2, <1>3 DEF Last
<1>6. ASSUME NEW f \in Descriptors, Continues(f, c) PROVE Continues(f, c)'
  <2>1. CASE w = <<>>
    <3>1. Len(w) = 0 /\ wire'[c][1] = p
      BY <1>2, <1>3, <2>1
    <3>2. QED
      BY <1>1, <1>5, <1>6, <2>1, <3>1 DEF Continues
  <2>2. CASE w # <<>>
    <3>1. 1 \in 1..Len(w)
      BY <1>2, <1>3, <2>2
    <3>2. wire'[c][1] = w[1]
      BY <1>2, <1>3, <3>1
    <3>3. QED
      BY <1>5, <1>6, <2>2, <3>2 DEF Continues
  <2>3. QED
    BY <2>1, <2>2
<1>7. \A i \in 1..Len(wire'[c]) :
        i < Len(wire'[c]) => (wire'[c][i] = "head" <=> wire'[c][i + 1] = "tail")
  <2>1. SUFFICES ASSUME NEW i \in 1..Len(w) + 1, i < Len(w) + 1
                 PROVE  Append(w, p)[i] = "head" <=> Append(w, p)[i + 1] = "tail"
    BY <1>2, <1>3
  <2>2. i \in 1..Len(w) /\ Append(w, p)[i] = w[i]
    BY <1>3, <2>1
  <2>3. CASE i = Len(w)
    <3>1. w # <<>> /\ w[i] = Last(w) /\ Append(w, p)[i + 1] = p
      BY <1>2, <1>3, <2>2, <2>3 DEF Last
    <3>2. QED
      BY <1>1, <2>2, <3>1 DEF Alternates
  <2>4. CASE i < Len(w)
    <3>1. i + 1 \in 1..Len(w)
      BY <1>3, <2>2, <2>4
    <3>2. Append(w, p)[i + 1] = w[i + 1]
      BY <1>3, <3>1
    <3>3. QED
      BY <2>2, <2>4, <3>2 DEF Alternates
  <2>5. QED
    BY <1>3, <2>2, <2>3, <2>4
<1>8. net'[c] = "open"
  BY DEF Write, list
<1>9. QED
  BY <1>4, <1>5, <1>6, <1>7, <1>8 DEF Alternates

\* What a device writes continues what it wrote, and is nothing to the others.
LEMMA WriteLines ==
  ASSUME TypeOK, Protocol, Sockets, Lines, Next, NEW c \in Devices, Write(c)
  PROVE  Lines'
<1>1. UNCHANGED <<socket, partial, damaged, net>>
  BY DEF Write, locals, history, list
<1>2. Alternates(c)' /\ \A f \in Descriptors : Continues(f, c) => Continues(f, c)'
  BY <1>1, WriteContinues DEF Lines
<1>3. \A d \in Devices : Interrupted(d) => Interrupted(d)'
  BY InterruptedStays
<1>4. \A d \in Devices \ {c} : wire'[d] = wire[d] /\ written'[d] = written[d]
  BY DEF Write, TypeOK
<1>5. ASSUME NEW d \in Devices PROVE Alternates(d)'
  <2>1. CASE d = c
    BY <1>2, <2>1
  <2>2. CASE d # c
    BY <1>1, <1>4, <2>2 DEF Lines, Alternates, Unfinished
  <2>3. QED
    BY <2>1, <2>2
<1>6. ASSUME NEW f \in Descriptors
      PROVE  /\ partial'[f] \in {None, socket'[f]} \/ Interrupted(partial[f])'
             /\ socket'[f] \in Devices /\ partial'[f] \in {None, socket'[f]} =>
                  Continues(f, socket[f])'
  <2>1. /\ partial[f] \in {None, socket[f]} \/ Interrupted(partial[f])
        /\ socket[f] \in Devices /\ partial[f] \in {None, socket[f]} =>
             Continues(f, socket[f])
        /\ partial[f] \in Devices \union {None}
    BY DEF Lines, TypeOK
  <2>2. partial'[f] \in {None, socket'[f]} \/ Interrupted(partial[f])'
    BY <1>1, <1>3, <2>1
  <2>3. ASSUME socket'[f] \in Devices, partial'[f] \in {None, socket'[f]}
        PROVE  Continues(f, socket[f])'
    <3>1. CASE socket[f] = c
      BY <1>1, <1>2, <2>1, <2>3, <3>1
    <3>2. CASE socket[f] # c
      BY <1>1, <1>4, <2>1, <2>3, <3>2 DEF Continues, Unfinished
    <3>3. QED
      BY <3>1, <3>2
  <2>4. QED
    BY <2>2, <2>3
<1>7. \A p \in damaged' : p[1] \in Devices \ {p[2]} /\ Interrupted(p[1])'
  BY <1>1, <1>3 DEF Lines
<1>8. QED
  BY <1>5, <1>6, <1>7 DEF Lines

\* What is read from a device continues what is kept of it, and is cut into lines
\* it sent, unless something of a device that was cut off is kept.
LEMMA ReceiveLines ==
  ASSUME TypeOK, Protocol, Sockets, Lines, Next, ReceiveFrom
  PROVE  Lines'
<1> USE DEF list
<1>0. PICK f, c : f = clients[pos] /\ c = socket[f]
  OBVIOUS
<1>1. CASE UNCHANGED <<partial, damaged, wire>>
  BY <1>1, LinesSame DEF ReceiveFrom
<1>2. CASE /\ c \in Devices /\ Cut(f, c) /\ wire' = [wire EXCEPT ![c] = <<>>]
           /\ wire[c] # <<>>
  <2>1. f \in Descriptors /\ c # None /\ UNCHANGED <<socket, net, written>>
    BY <1>0, <1>2, Names DEF ReceiveFrom, TypeOK
  <2>2. /\ Alternates(c) /\ partial[f] \in Devices \union {None}
        /\ partial[f] \in {None, c} \/ Interrupted(partial[f])
        /\ partial[f] \in {None, c} => Continues(f, c)
    BY <1>0, <1>2, <2>1 DEF Lines, TypeOK
  <2>3. \A d \in Devices : Interrupted(d) => Interrupted(d)'
    BY InterruptedStays
  <2>4. wire[c] \in Seq(Pieces) /\ Len(wire[c]) \in Nat \ {0}
    BY <1>2 DEF TypeOK
  <2>5. wire'[c] = <<>> /\ \A d \in Devices \ {c} : wire'[d] = wire[d]
    BY <1>2, <2>4 DEF TypeOK
  <2>6. \A g \in Descriptors \ {f} : partial'[g] = partial[g] /\ socket[g] # c
    BY <1>0, <1>2, <2>1 DEF Cut, TypeOK, Sockets
  <2>7. partial'[f] = IF Last(wire[c]) # "head" THEN None
                      ELSE IF Len(wire[c]) = 1 /\ partial[f] # None THEN partial[f] ELSE c
    BY <1>2, <2>1 DEF Cut, TypeOK
  <2>8. Last(wire[c]) = "head" <=> Unfinished(c)'
    BY <1>2, <2>1, <2>2 DEF Alternates, Unfinished
  <2>9. \A d \in Devices : Alternates(d)'
    <3>1. SUFFICES ASSUME NEW d \in Devices PROVE Alternates(d)'
      OBVIOUS
    <3>2. CASE d = c
      <4>1. Len(<<>>) = 0 /\ net[c] \in {"open", "left", "reset"}
        BY <1>0, <2>1 DEF Sockets
      <4>2. QED
        BY <2>1, <2>5, <3>2, <4>1 DEF Alternates
    <3>3. CASE d # c
      BY <2>1, <2>5, <3>3 DEF Lines, Alternates, Unfinished
    <3>4. QED
      BY <3>2, <3>3
  <2>10. /\ partial'[f] \in {None, c} \/ Interrupted(partial[f])'
         /\ partial'[f] \in {None, c} => (partial'[f] = c <=> Unfinished(c)')
    <3>1. CASE partial[f] \in {None, c}
      BY <2>1, <2>7, <2>8, <3>1
    <3>2. CASE partial[f] \notin {None, c}
      <4>1. PICK d \in Devices : d = partial[f] /\ Interrupted(d)'
        BY <2>2, <2>3, <3>2
      <4>2. CASE partial'[f] = d
        BY <3>2, <4>1, <4>2
      <4>3. CASE partial'[f] = IF Last(wire[c]) # "head" THEN None ELSE c
        BY <2>1, <2>8, <4>3
      <4>4. QED
        BY <2>7, <4>1, <4>2, <4>3
    <3>3. QED
      BY <3>1, <3>2
  <2>11. ASSUME NEW p \in damaged' PROVE p[1] \in Devices \ {p[2]} /\ Interrupted(p[1])'
    <3>1. CASE p \in damaged
      BY <2>3, <3>1 DEF Lines
    <3>2. CASE p \notin damaged
      <4>1. p = <<partial[f], c>> /\ Damages(f, c)
        BY <1>2, <2>11, <3>2 DEF Cut, NoteDamage
      <4>2. partial[f] \notin {None, c}
        BY <1>2, <2>2, <4>1 DEF Damages, Continues
      <4>3. QED
        BY <2>2, <2>3, <4>1, <4>2
    <3>3. QED
      BY <3>1, <3>2
  <2>12. ASSUME NEW g \in Descriptors \ {f}
         PROVE  /\ partial'[g] \in {None, socket'[g]} \/ Interrupted(partial[g])'
                /\ socket'[g] \in Devices /\ partial'[g] \in {None, socket'[g]} =>
                     Continues(g, socket[g])'
    <3>1. /\ partial[g] \in {None, socket[g]} \/ Interrupted(partial[g])
          /\ socket[g] \in Devices /\ partial[g] \in {None, socket[g]} =>
               Continues(g, socket[g])
          /\ partial[g] \in Devices \union {None} /\ partial'[g] = partial[g]
      BY <2>6 DEF Lines, TypeOK
    <3>2. partial'[g] \in {None, socket'[g]} \/ Interrupted(partial[g])'
      BY <2>1, <2>3, <3>1
    <3>3. socket[g] \in Devices => wire'[socket[g]] = wire[socket[g]]
      BY <2>5, <2>6
    <3>4. QED
      BY <2>1, <3>1, <3>2, <3>3 DEF Continues, Unfinished
  <2>13. /\ partial'[f] \in {None, socket'[f]} \/ Interrupted(partial[f])'
         /\ socket'[f] \in Devices /\ partial'[f] \in {None, socket'[f]} =>
              Continues(f, socket[f])'
    BY <1>0, <2>1, <2>5, <2>10 DEF Continues
  <2>14. QED
    BY <2>9, <2>11, <2>12, <2>13 DEF Lines
<1>3. QED
  BY <1>0, <1>1, <1>2 DEF ReceiveFrom, Readable

\* Every step keeps what is kept of a line with its device, or with one cut off.
LEMMA LinesStep ==
  ASSUME TypeOK, Protocol, Sockets, Lines, Next
  PROVE  Lines'
<1>1. CASE ReceiveFrom
  BY <1>1, ReceiveLines
<1>2. CASE \E c \in Devices : Write(c)
  BY <1>2, WriteLines
<1>3. CASE ~ReceiveFrom /\ \A c \in Devices : ~Write(c)
  BY <1>3, WireSteps, LinesSame
<1>4. QED
  BY <1>1, <1>2, <1>3

----------------------------------------------------------------------------
(* The invariant and what it implies.                                      *)

\* The invariant holds at the start.
LEMMA InitServerInv ==
  ASSUME Init PROVE ServerInv
<1>1. TypeOK
  <2>1. MaxLines \in Nat
    BY ConnectionsAssumption
  <2>2. <<>> \in Seq(Descriptors) /\ <<>> \in Seq(Pieces) /\ 0 \in 0..2 * MaxLines
    BY <2>1
  <2>3. pc \in [Threads -> {"top", "idle"}] /\ lock = Free
    BY DEF Init
  <2>4. wire \in [Devices -> Seq(Pieces)] /\ written \in [Devices -> 0..2 * MaxLines]
    BY <2>2 DEF Init
  <2>5. /\ socket \in [Descriptors -> {None}] /\ partial \in [Descriptors -> {None}]
        /\ net \in [Connections -> {"new"}]
    BY DEF Init
  <2>6. /\ env \in Environments /\ running = TRUE /\ pos = 1
        /\ damaged = {} /\ cut = {} /\ stray = FALSE
        /\ clients = <<>> /\ stale = <<>> /\ readSet = {}
        /\ accepted = None /\ request = None
    BY DEF Init
  <2>7. /\ pc \in [Threads -> {"top", "select", "accept", "push", "receive", "read",
                              "remove", "idle", "handle", "lock", "send",
                              "respond", "exited", "failed"}]
        /\ lock \in Threads \union {Free}
    BY <2>3
  <2>8. /\ socket \in [Descriptors -> Connections \union {None}]
        /\ partial \in [Descriptors -> Devices \union {None}]
        /\ net \in [Connections -> {"new", "waiting", "open", "left", "reset", "closed"}]
    BY <2>5
  <2>9. {clients, stale} \subseteq Seq(Descriptors) /\ readSet \subseteq Descriptors
    BY <2>2, <2>6
  <2>10. /\ {running, stray} \subseteq BOOLEAN /\ cut \subseteq Descriptors
         /\ damaged \subseteq (Devices \union {None}) \X Devices
    BY <2>6
  <2>11. /\ pos \in Nat \ {0} /\ accepted \in Descriptors \union {None}
         /\ request \in [descriptor : Descriptors, client : Requests] \union {None}
    BY <2>6
  <2>12. env \in Environments
    BY <2>6
  <2>13. QED
    BY <2>4, <2>7, <2>8, <2>9, <2>10, <2>11, <2>12 DEF TypeOK
<1>2. /\ pc[Monitor] = "top" /\ pc[Console] = "idle" /\ pc[Command] = "idle"
      /\ lock = Free
  BY Names DEF Init
<1>3. Protocol
  BY <1>2, Names DEF Init, Protocol, Serving
<1>4. Sockets /\ Causes
  BY Names DEF Init, Sockets, Causes
<1>5. ToSet(<<>>) = {} /\ IsInjective(<<>>) /\ Len(<<>>) = 0
  BY DEF ToSet, IsInjective
<1>6. Listed
  BY <1>2, <1>5, Names DEF Init, Listed, Serving
<1>7. Ready /\ Leaving
  BY <1>2 DEF Ready, Leaving
<1>8. Lines
  <2>1. \A c \in Devices : wire[c] = <<>> /\ written[c] = 0
    BY DEF Init
  <2>2. 0 % 2 # 1
    OBVIOUS
  <2>3. \A c \in Devices : Alternates(c)
    BY <1>5, <2>1, <2>2 DEF Alternates, Unfinished
  <2>4. \A f \in Descriptors : partial[f] = None /\ socket[f] \notin Devices
    BY Names DEF Init
  <2>5. QED
    BY <2>3, <2>4 DEF Lines, Init
<1>9. QED
  BY <1>1, <1>3, <1>4, <1>6, <1>7, <1>8 DEF ServerInv

\* A step that changes nothing keeps the invariant.
LEMMA StutterServerInv ==
  ASSUME ServerInv, UNCHANGED vars PROVE ServerInv'
<1> USE DEF vars, threads, locals, history, list, sent
<1>1. TypeOK' /\ Protocol' /\ Sockets' /\ Causes'
  BY DEF ServerInv, TypeOK, Protocol, Sockets, Causes, Serving
<1>2. Lines'
  BY DEF ServerInv, Lines, Alternates, Continues, Interrupted, Unfinished
<1>3. ~stray' => Listed' /\ Ready' /\ Leaving'
  BY DEF ServerInv, Listed, Serving, Ready, Leaving, Readable
<1>4. QED
  BY <1>1, <1>2, <1>3 DEF ServerInv

\* A descriptor closed a second time by removeClient stays noted.
LEMMA StrayStays ==
  ASSUME TypeOK, Next, stray PROVE stray'
BY DEF TypeOK, Next, MonitorStep, CommandStep, Broadcast, Snapshot, Select, Accept, Push,
       ReceiveBegin, ReceiveFrom, ReceiveEnd, RemoveClient, Evaluate, BroadcastBegin,
       SendNext, BroadcastEnd, ReadConsole, AcceptRequest, HandleRequest, Respond, Stop,
       Connect, Write, Leave, history

\* The invariant holds in every state.
LEMMA ServerInvariance == Spec => []ServerInv
<1>1. Init => ServerInv
  BY InitServerInv
<1>2. ServerInv /\ [Next]_vars => ServerInv'
  <2>1. SUFFICES ASSUME ServerInv, Next PROVE ServerInv'
    BY StutterServerInv
  <2>2. /\ TypeOK /\ Protocol /\ Sockets /\ Causes /\ Lines
        /\ ~stray => Listed /\ Ready /\ Leaving
    BY <2>1 DEF ServerInv
  <2>3. TypeOK'
    BY <2>1, <2>2, MonitorTypes, OtherTypes
  <2>4. Protocol'
    BY <2>1, <2>2, MonitorProtocol, OtherProtocol
  <2>5. Sockets'
    BY <2>1, <2>2, SocketsStep
  <2>6. Causes'
    BY <2>1, <2>2, CausesStep
  <2>7. Lines'
    BY <2>1, <2>2, LinesStep
  <2>8. ~stray' => Listed' /\ Ready' /\ Leaving'
    BY <2>1, <2>2, StrayStays, ListedStep, ReadyStep
  <2>9. QED
    BY <2>3, <2>4, <2>5, <2>6, <2>7, <2>8 DEF ServerInv
<1>3. QED
  BY <1>1, <1>2, PTL DEF Spec

\* The types of the monitor server's state.
THEOREM ServerTypes == Spec => []TypeOK
<1>1. ServerInv => TypeOK
  BY DEF ServerInv
<1>2. QED
  BY <1>1, ServerInvariance, PTL

\* A stray close (the second one of a descriptor, when it is another connection's)
\* takes a reset and an HTTP client.  Until there is one,
\* the list of clients is exactly the open descriptors of devices, each once, whatever
\* the three threads close and accept: no connection leaks, no descriptor in the list
\* is closed or another's.
THEOREM ClientsMatchHolds == Spec => []ClientsMatch
<1>1. ServerInv => ClientsMatch
  <2>1. SUFFICES ASSUME ServerInv, ~stray
                 PROVE  /\ {f \in Descriptors : socket[f] \in Devices} \ {accepted}
                             = ToSet(clients)
                        /\ Len(clients) = Cardinality(ToSet(clients))
    BY DEF ClientsMatch, ServerInv, Causes
  <2>2. Listed /\ TypeOK
    BY <2>1 DEF ServerInv
  <2>3. {f \in Descriptors : socket[f] \in Devices} \ {accepted} = ToSet(clients)
    BY <2>2, ClientsAreDescriptors DEF Listed
  <2>4. Len(clients) = Cardinality(ToSet(clients))
    BY <2>2, LengthOfInjective DEF Listed, TypeOK
  <2>5. QED
    BY <2>3, <2>4
<1>2. QED
  BY <1>1, ServerInvariance, PTL

\* In every environment, broadcasts that close clients included: until removeClient
\* closes a descriptor that went to another connection after a broadcast closed it,
\* the answer to a request goes to the client that made it.
THEOREM AnswersReachClientHolds == Spec => []AnswersReachClient
<1>1. ServerInv => AnswersReachClient
  BY DEF ServerInv, AnswersReachClient, Listed, Protocol
<1>2. QED
  BY <1>1, ServerInvariance, PTL

\* Devices may leave inside a line, be reset, and have their descriptor used again:
\* the only lines not reported as they were sent are put together with what is kept
\* of another device that was closed with half a line sent or with something unread.
THEOREM LinesWholeHolds == Spec => []LinesWhole
<1>1. ServerInv => LinesWhole
  BY DEF ServerInv, LinesWhole, Lines
<1>2. QED
  BY <1>1, ServerInvariance, PTL

\* In every environment, until a stray close: recv is called on a client where it
\* would block only if a broadcast closed that descriptor after the list was copied.
THEOREM RecvNeverBlocksHolds == Spec => []RecvNeverBlocks
<1>1. ServerInv => RecvNeverBlocks
  <2>1. SUFFICES ASSUME ServerInv, ~stray, pc[Monitor] = "read", pos <= Len(clients),
                        clients[pos] \in readSet, clients[pos] \notin cut
                 PROVE  Readable(socket[clients[pos]])
    BY DEF RecvNeverBlocks
  <2>2. pos \in 1..Len(clients) /\ pos >= pos
    BY <2>1 DEF ServerInv, TypeOK
  <2>3. QED
    BY <2>1, <2>2 DEF ServerInv, Ready
<1>2. QED
  BY <1>1, ServerInvariance, PTL

\* In every environment: serverLoop stops at select only when a broadcast closed a
\* descriptor it had copied, which takes a reset, or after a stray close.
THEOREM MonitorGoesOnHolds == Spec => []MonitorGoesOn
<1>1. ServerInv => MonitorGoesOn
  BY DEF ServerInv, MonitorGoesOn, Causes, Ready
<1>2. QED
  BY <1>1, ServerInvariance, PTL
=============================================================================
