---------------------------- MODULE EventBusProofs ----------------------------
(***************************************************************************)
(* Proofs about EventBus for any number of types, callbacks, events and    *)
(* nested calls.  Three arguments: m_publishCount counts the publishes on  *)
(* the call stack, so it is zero only when nobody iterates over the        *)
(* callbacks; an index belongs to one type, its slot to callbacks of that  *)
(* type; and what is queued was given to nobody, what is being published   *)
(* is being published once, and its loop counts the invocations it made.   *)
(***************************************************************************)
EXTENDS EventBus, FiniteSetTheorems, SequenceTheorems, TLAPS

Event == [no : Nat, type : Types]

Call == [kind : {"dispatch"}] \cup [kind : {"publish"}, event : Event, next : Nat \ {0}]

BusTypeOK ==
  /\ indexOf \in [Types -> Nat]
  /\ slots \in Seq(Seq(Callbacks))
  /\ wants \in [Callbacks -> Types \cup {None}]
  /\ queue \in Seq(Event) /\ published \in Nat
  /\ calls \in Seq(Call)
  /\ received \in Seq([by : Callbacks, event : Event])

GuardCounts == publishCount = Cardinality(ActivePublishes)

Used == {t \in Types : indexOf[t] # 0}

\* The indices in use are distinct and reach as far as the slots, at least.
Numbered ==
  /\ IsFiniteSet(Used)
  /\ \A t \in Used : indexOf[t] <= Cardinality(Used)
  /\ \A t, u \in Used : indexOf[t] = indexOf[u] => t = u
  /\ Len(slots) <= Cardinality(Used)

\* The slot of a type holds callbacks of that type, and a publish is of a type
\* that has a slot.
SlotsMatch ==
  /\ \A t \in Used : indexOf[t] <= Len(slots) =>
       \A i \in DOMAIN slots[indexOf[t]] : wants[slots[indexOf[t]][i]] = t
  /\ \A i \in ActivePublishes :
       calls[i].event.type \in Used /\ indexOf[calls[i].event.type] <= Len(slots)

BInv == BusTypeOK /\ GuardCounts /\ Numbered /\ SlotsMatch /\ CastsAreSound

-------------------------------------------------------------------------------

\* resize: the callbacks, made long enough for index n by empty slots
\* (SubscribersStorage.hpp:148-160).
LEMMA ResizedSlots ==
  ASSUME slots \in Seq(Seq(Callbacks)), NEW n \in Nat
  PROVE  /\ Resized(n) \in Seq(Seq(Callbacks)) /\ n <= Len(Resized(n))
         /\ Len(Resized(n)) = IF n <= Len(slots) THEN Len(slots) ELSE n
         /\ \A i \in 1 .. Len(Resized(n)) :
              Resized(n)[i] = IF i <= Len(slots) THEN slots[i] ELSE <<>>
<1> DEFINE m == IF n <= Len(slots) THEN 0 ELSE n - Len(slots)
           pad == [k \in 1 .. m |-> <<>>]
           r == Resized(n)
<1>1. /\ m \in Nat /\ Len(slots) \in Nat /\ n <= Len(slots) + m
      /\ Len(slots) + m = IF n <= Len(slots) THEN Len(slots) ELSE n
  BY LenProperties
<1>2. 1 .. n - Len(slots) = 1 .. m
  BY <1>1
<1>3. r = slots \o pad
  BY <1>2 DEF Resized
<1> HIDE DEF m, r
<1>4. pad \in Seq(Seq(Callbacks)) /\ Len(pad) = m /\ \A i \in 1 .. m : pad[i] = <<>>
  <2>1. <<>> \in Seq(Callbacks)
    OBVIOUS
  <2> QED BY <1>1, <2>1
<1> HIDE DEF pad
<1>5. /\ slots \o pad \in Seq(Seq(Callbacks)) /\ Len(slots \o pad) = Len(slots) + Len(pad)
      /\ \A i \in 1 .. Len(slots) + Len(pad) :
           (slots \o pad)[i] = IF i <= Len(slots) THEN slots[i] ELSE pad[i - Len(slots)]
  <2>1. pad \in Seq(Seq(Callbacks))
    BY <1>4
  <2> QED BY <2>1, ConcatProperties
<1>6. r \in Seq(Seq(Callbacks)) /\ Len(r) = Len(slots) + m
  BY <1>3, <1>4, <1>5, Zenon
<1>7. \A i \in 1 .. Len(slots) + m : r[i] = IF i <= Len(slots) THEN slots[i] ELSE <<>>
  <2> TAKE i \in 1 .. Len(slots) + m
  <2>1. r[i] = IF i <= Len(slots) THEN slots[i] ELSE pad[i - Len(slots)]
    BY <1>3, <1>4, <1>5, Zenon
  <2>2. ~(i <= Len(slots)) => i - Len(slots) \in 1 .. m
    BY <1>1
  <2> QED BY <1>4, <2>1, <2>2, Zenon
<1>8. n <= Len(r) /\ Len(r) = IF n <= Len(slots) THEN Len(slots) ELSE n
  BY <1>1, <1>6, Zenon
<1>9. \A i \in 1 .. Len(r) : r[i] = IF i <= Len(slots) THEN slots[i] ELSE <<>>
  BY <1>6, <1>7, Zenon
<1> QED BY <1>6, <1>8, <1>9 DEF r

\* The publishes of a stack are finitely many positions of it.
LEMMA ActiveFinite ==
  ASSUME calls \in Seq(Call)
  PROVE  IsFiniteSet(ActivePublishes) /\ Cardinality(ActivePublishes) \in Nat
<1>1. ActivePublishes \subseteq 1 .. Len(calls) /\ Len(calls) \in Nat
  BY DEF ActivePublishes
<1>2. IsFiniteSet(1 .. Len(calls))
  BY <1>1, FS_Interval
<1>3. IsFiniteSet(ActivePublishes)
  BY <1>1, <1>2, FS_Subset
<1> QED BY <1>3, FS_CardinalityType

\* eventIndex: a type keeps its index, a new one gets an index beyond all slots
\* (SubscribersStorage.hpp:124-129).
LEMMA IndexStep ==
  ASSUME BusTypeOK, Numbered, NEW t \in Types,
         indexOf' = [indexOf EXCEPT ![t] = EventIndex(t)]
  PROVE  /\ indexOf' \in [Types -> Nat] /\ Used' = Used \cup {t}
         /\ IsFiniteSet(Used') /\ Cardinality(Used) \in Nat /\ Cardinality(Used') \in Nat
         /\ Cardinality(Used) <= Cardinality(Used')
         /\ \A u \in Used' : indexOf'[u] <= Cardinality(Used')
         /\ \A u, v \in Used' : indexOf'[u] = indexOf'[v] => u = v
         /\ \A u \in Used : indexOf'[u] = indexOf[u]
         /\ indexOf'[t] \in Nat \ {0}
         /\ t \notin Used => indexOf'[t] > Len(slots)
<1>1. Cardinality(Used) \in Nat /\ IsFiniteSet(Used)
  BY FS_CardinalityType DEF Numbered
<1>2. CASE t \in Used
  <2>1. EventIndex(t) = indexOf[t]
    BY <1>2 DEF EventIndex, Used
  <2>2. indexOf' = indexOf
    BY <2>1 DEF BusTypeOK
  <2>3. Used' = Used /\ Used = Used \cup {t}
    BY <1>2, <2>2 DEF Used
  <2>4. indexOf'[t] \in Nat \ {0}
    BY <1>2, <2>2 DEF BusTypeOK, Used
  <2>5. \A u \in Used' : indexOf'[u] <= Cardinality(Used')
    BY <2>2, <2>3 DEF Numbered
  <2>6. \A u, v \in Used' : indexOf'[u] = indexOf'[v] => u = v
    BY <2>2, <2>3 DEF Numbered
  <2>7. indexOf' \in [Types -> Nat] /\ \A u \in Used : indexOf'[u] = indexOf[u]
    BY <2>2 DEF BusTypeOK
  <2>8. Cardinality(Used') = Cardinality(Used) /\ Cardinality(Used) <= Cardinality(Used')
    BY <1>1, <2>3
  <2> QED BY <1>1, <1>2, <2>3, <2>4, <2>5, <2>6, <2>7, <2>8
<1>3. CASE t \notin Used
  <2>1. EventIndex(t) = Cardinality(Used) + 1
    BY <1>3 DEF EventIndex, Used
  <2>2. /\ indexOf' \in [Types -> Nat] /\ indexOf'[t] = Cardinality(Used) + 1
        /\ \A u \in Types \ {t} : indexOf'[u] = indexOf[u]
    BY <1>1, <2>1 DEF BusTypeOK
  <2>3. Used' = Used \cup {t}
    <3>1. t \in Used'
      BY <1>1, <2>2 DEF Used
    <3>2. \A u \in Types \ {t} : u \in Used' <=> u \in Used
      BY <2>2 DEF Used
    <3>3. Used' \subseteq Types /\ Used \subseteq Types
      BY DEF Used
    <3> QED BY <3>1, <3>2, <3>3
  <2>4. IsFiniteSet(Used') /\ Cardinality(Used') = Cardinality(Used) + 1
    BY <1>1, <1>3, <2>3, FS_AddElement
  <2>5. \A u \in Used : u # t /\ indexOf'[u] = indexOf[u] /\ indexOf[u] <= Cardinality(Used)
                        /\ indexOf[u] \in Nat
    BY <1>3, <2>2 DEF Used, Numbered, BusTypeOK
  <2>6. \A u \in Used' : indexOf'[u] <= Cardinality(Used')
    BY <1>1, <2>2, <2>3, <2>4, <2>5
  <2>7. \A u, v \in Used' : indexOf'[u] = indexOf'[v] => u = v
    BY <1>1, <2>2, <2>3, <2>5 DEF Numbered
  <2>8. indexOf'[t] > Len(slots)
    BY <1>1, <2>2 DEF Numbered, BusTypeOK
  <2>9. /\ Cardinality(Used') \in Nat /\ Cardinality(Used) <= Cardinality(Used')
        /\ indexOf'[t] \in Nat \ {0}
    BY <1>1, <2>2, <2>4
  <2> QED BY <1>1, <2>2, <2>3, <2>4, <2>5, <2>6, <2>7, <2>8, <2>9
<1> QED BY <1>2, <1>3

\* PublishGuard: a publish that is entered is counted, and its type has a slot
\* (SubscribersStorage.hpp:104-111, 131-134).
LEMMA EnterStep ==
  ASSUME BInv, NEW e \in Event, StorePublish(e, calls), queue' \in Seq(Event),
         published' \in Nat, UNCHANGED <<slots, wants, received>>
  PROVE  BInv'
<1>1. indexOf' = [indexOf EXCEPT ![e.type] = EventIndex(e.type)] /\ e.type \in Types
  BY DEF StorePublish, Event
<1> DEFINE u == e.type
<1>2. /\ indexOf' \in [Types -> Nat] /\ Used' = Used \cup {u}
      /\ IsFiniteSet(Used') /\ Cardinality(Used) \in Nat /\ Cardinality(Used') \in Nat
      /\ Cardinality(Used) <= Cardinality(Used')
      /\ \A v \in Used' : indexOf'[v] <= Cardinality(Used')
      /\ \A v, w \in Used' : indexOf'[v] = indexOf'[w] => v = w
      /\ \A v \in Used : indexOf'[v] = indexOf[v]
      /\ indexOf'[u] \in Nat \ {0}
      /\ u \notin Used => indexOf'[u] > Len(slots)
  BY <1>1, IndexStep DEF BInv
<1>3. Numbered'
  <2>1. Len(slots') <= Cardinality(Used')
    BY <1>2 DEF BInv, Numbered, BusTypeOK
  <2> QED BY <1>2, <2>1 DEF Numbered
<1>4. \A v \in Used' : indexOf'[v] <= Len(slots') =>
        \A i \in DOMAIN slots'[indexOf'[v]] : wants'[slots'[indexOf'[v]][i]] = v
  <2> SUFFICES ASSUME NEW v \in Used', indexOf'[v] <= Len(slots)
               PROVE  \A i \in DOMAIN slots[indexOf'[v]] : wants[slots[indexOf'[v]][i]] = v
    OBVIOUS
  <2>1. v \in Used
    BY <1>2 DEF BInv, BusTypeOK
  <2> QED BY <1>2, <2>1 DEF BInv, SlotsMatch
<1>5. CASE EventIndex(u) > Len(slots)
  <2>1. calls' = calls /\ UNCHANGED publishCount
    BY <1>5 DEF StorePublish
  <2>2. ActivePublishes' = ActivePublishes
    BY <2>1 DEF ActivePublishes
  <2>3. BusTypeOK'
    BY <1>2, <2>1 DEF BInv, BusTypeOK
  <2>4. \A i \in ActivePublishes' : calls'[i].event.type \in Used'
                                    /\ indexOf'[calls'[i].event.type] <= Len(slots')
    BY <1>2, <2>1, <2>2 DEF BInv, SlotsMatch
  <2> QED BY <1>3, <1>4, <2>1, <2>2, <2>3, <2>4
          DEF BInv, GuardCounts, SlotsMatch, CastsAreSound
<1>6. CASE ~(EventIndex(u) > Len(slots))
  <2> DEFINE n == Len(calls) + 1
             call == [kind |-> "publish", event |-> e, next |-> 1]
  <2>1. calls' = Append(calls, call) /\ publishCount' = publishCount + 1
    BY <1>6 DEF StorePublish
  <2>2. call \in Call
    BY DEF Call
  <2>3. /\ calls' \in Seq(Call) /\ n \in Nat \ {0}
        /\ DOMAIN calls' = 1 .. n /\ DOMAIN calls = 1 .. n - 1
        /\ calls'[n] = call /\ \A i \in 1 .. n - 1 : calls'[i] = calls[i]
    BY <2>1, <2>2 DEF BInv, BusTypeOK
  <2>4. ActivePublishes' = ActivePublishes \cup {n} /\ n \notin ActivePublishes
    BY <2>3 DEF ActivePublishes
  <2>5. Cardinality(ActivePublishes \cup {n}) = Cardinality(ActivePublishes) + 1
    BY <2>4, ActiveFinite, FS_AddElement DEF BInv, BusTypeOK
  <2>6. BusTypeOK'
    BY <1>2, <2>3 DEF BInv, BusTypeOK
  <2>7. u \in Used' /\ indexOf'[u] <= Len(slots')
    BY <1>1, <1>2, <1>6 DEF BInv, BusTypeOK
  <2>8. \A i \in ActivePublishes' : calls'[i].event.type \in Used'
                                    /\ indexOf'[calls'[i].event.type] <= Len(slots')
    BY <1>2, <2>3, <2>4, <2>7, SMTT(40) DEF BInv, SlotsMatch, ActivePublishes
  <2> QED BY <1>3, <1>4, <2>1, <2>4, <2>5, <2>6, <2>8
          DEF BInv, GuardCounts, SlotsMatch, CastsAreSound
<1> QED BY <1>5, <1>6

-------------------------------------------------------------------------------

\* An empty bus: no index, no slot, no call.
LEMMA BusInitEstablishes == Init => BInv
<1> SUFFICES ASSUME Init PROVE BInv
  OBVIOUS
<1>1. ActivePublishes = {} /\ Used = {}
  BY DEF Init, ActivePublishes, Used
<1>2. Cardinality({}) = 0 /\ IsFiniteSet({})
  BY FS_EmptySet
<1>3. BusTypeOK
  BY DEF Init, BusTypeOK
<1> QED BY <1>1, <1>2, <1>3
        DEF Init, BInv, GuardCounts, Numbered, SlotsMatch, CastsAreSound

\* A step that moves events only.
LEMMA QueueStep ==
  ASSUME BInv, queue' \in Seq(Event), published' \in Nat,
         UNCHANGED <<indexOf, slots, wants, publishCount, calls, received>>
  PROVE  BInv'
BY DEF BInv, BusTypeOK, GuardCounts, ActivePublishes, Used, Numbered, SlotsMatch, CastsAreSound

\* An index is taken by another bus, or before there is a subscriber.
LEMMA UsedElsewhereStep ==
  ASSUME BInv, NEW t \in Types, UsedElsewhere(t)
  PROVE  BInv'
<1>1. /\ indexOf' = [indexOf EXCEPT ![t] = EventIndex(t)] /\ t \notin Used
      /\ UNCHANGED <<slots, wants, publishCount, queue, calls, published, received>>
  BY DEF UsedElsewhere, Used, historyVars
<1>2. /\ indexOf' \in [Types -> Nat] /\ Used' = Used \cup {t}
      /\ IsFiniteSet(Used') /\ Cardinality(Used) \in Nat /\ Cardinality(Used') \in Nat
      /\ Cardinality(Used) <= Cardinality(Used')
      /\ \A u \in Used' : indexOf'[u] <= Cardinality(Used')
      /\ \A u, v \in Used' : indexOf'[u] = indexOf'[v] => u = v
      /\ \A u \in Used : indexOf'[u] = indexOf[u]
      /\ indexOf'[t] \in Nat \ {0}
      /\ indexOf'[t] > Len(slots)
  BY <1>1, IndexStep DEF BInv
<1>3. Numbered'
  <2>1. Len(slots') <= Cardinality(Used')
    BY <1>1, <1>2 DEF BInv, Numbered, BusTypeOK
  <2> QED BY <1>2, <2>1 DEF Numbered
<1>4. ActivePublishes' = ActivePublishes
  BY <1>1 DEF ActivePublishes
<1>5. SlotsMatch'
  <2>1. ASSUME NEW u \in Used', indexOf'[u] <= Len(slots)
        PROVE  \A i \in DOMAIN slots[indexOf'[u]] : wants[slots[indexOf'[u]][i]] = u
    <3>1. u \in Used
      BY <1>2, <2>1 DEF BInv, BusTypeOK
    <3> QED BY <1>2, <2>1, <3>1 DEF BInv, SlotsMatch
  <2>2. \A i \in ActivePublishes :
          /\ calls[i].event.type \in Used'
          /\ indexOf'[calls[i].event.type] <= Len(slots)
    BY <1>2 DEF BInv, SlotsMatch
  <2> QED BY <1>1, <1>4, <2>1, <2>2 DEF SlotsMatch
<1> QED BY <1>1, <1>2, <1>3, <1>4, <1>5 DEF BInv, BusTypeOK, GuardCounts, CastsAreSound

\* A callback enters the slot of its type; nothing is being published
\* (SubscribersStorage.hpp:84-102).
LEMMA SubscribeStep ==
  ASSUME BInv, NEW t \in Types, NEW c \in Callbacks, Subscribe(c, t)
  PROVE  BInv'
<1> DEFINE n == EventIndex(t)
           grown == Resized(n)
<1>1. /\ publishCount = 0 /\ wants[c] = None
      /\ wants' = [wants EXCEPT ![c] = t]
      /\ indexOf' = [indexOf EXCEPT ![t] = n]
      /\ slots' = [grown EXCEPT ![n] = Append(@, c)]
      /\ UNCHANGED <<publishCount, queue, calls, published, received>>
  BY DEF Subscribe, MayModify, historyVars
<1>2. /\ indexOf' \in [Types -> Nat] /\ Used' = Used \cup {t}
      /\ IsFiniteSet(Used') /\ Cardinality(Used) \in Nat /\ Cardinality(Used') \in Nat
      /\ Cardinality(Used) <= Cardinality(Used')
      /\ \A u \in Used' : indexOf'[u] <= Cardinality(Used')
      /\ \A u, v \in Used' : indexOf'[u] = indexOf'[v] => u = v
      /\ \A u \in Used : indexOf'[u] = indexOf[u]
      /\ indexOf'[t] \in Nat \ {0}
      /\ t \notin Used => indexOf'[t] > Len(slots)
  BY <1>1, IndexStep DEF BInv
<1>3. indexOf'[t] = n /\ n \in Nat \ {0} /\ t \in Used' /\ n <= Cardinality(Used')
  BY <1>1, <1>2 DEF BInv, BusTypeOK
<1>4. ActivePublishes = {} /\ ActivePublishes' = {}
  <2>1. ActivePublishes = {}
    BY <1>1, ActiveFinite, FS_EmptySet DEF BInv, BusTypeOK, GuardCounts
  <2> QED BY <1>1, <2>1 DEF ActivePublishes
<1>5. /\ grown \in Seq(Seq(Callbacks)) /\ n <= Len(grown)
      /\ Len(grown) = IF n <= Len(slots) THEN Len(slots) ELSE n
      /\ \A i \in 1 .. Len(grown) :
           grown[i] = IF i <= Len(slots) THEN slots[i] ELSE <<>>
  <2>1. slots \in Seq(Seq(Callbacks)) /\ <<>> \in Seq(Callbacks) /\ n \in Nat
    BY <1>3 DEF BInv, BusTypeOK
  <2> QED BY <2>1, ResizedSlots
<1> HIDE DEF n, grown
<1>6. /\ slots' \in Seq(Seq(Callbacks)) /\ Len(slots') = Len(grown)
      /\ slots'[n] = Append(grown[n], c)
      /\ \A i \in 1 .. Len(grown) : i # n => slots'[i] = grown[i]
  BY <1>1, <1>3, <1>5
<1>7. BusTypeOK'
  BY <1>1, <1>2, <1>6 DEF BInv, BusTypeOK
<1>8. Numbered'
  <2>1. Len(slots') <= Cardinality(Used')
    BY <1>2, <1>3, <1>5, <1>6 DEF BInv, Numbered, BusTypeOK
  <2> QED BY <1>2, <2>1 DEF Numbered
<1>9. \A d \in Callbacks \ {c} : wants'[d] = wants[d]
  BY <1>1 DEF BInv, BusTypeOK
<1>10. ASSUME NEW u \in Used', indexOf'[u] <= Len(slots')
       PROVE  \A i \in DOMAIN slots'[indexOf'[u]] : wants'[slots'[indexOf'[u]][i]] = u
  <2> DEFINE m == indexOf'[u]
  <2>1. m \in 1 .. Len(grown)
    BY <1>2, <1>6, <1>10 DEF Used
  <2>2. \A i \in DOMAIN grown[m] : grown[m][i] \in Callbacks \ {c} /\ wants[grown[m][i]] = u
    <3>1. CASE m <= Len(slots)
      <4>1. u \in Used /\ indexOf[u] = m
        BY <1>2, <3>1 DEF BInv, BusTypeOK
      <4>2. grown[m] = slots[m] /\ slots[m] \in Seq(Callbacks)
        BY <1>5, <2>1, <3>1, SMTT(30) DEF BInv, BusTypeOK
      <4>3. \A i \in DOMAIN slots[m] : slots[m][i] \in Callbacks /\ wants[slots[m][i]] = u
        BY <3>1, <4>1, <4>2 DEF BInv, SlotsMatch
      <4> QED BY <1>1, <4>2, <4>3, NoTypeAssumption DEF Used
    <3>2. CASE ~(m <= Len(slots))
      BY <1>5, <2>1, <3>2
    <3> QED BY <3>1, <3>2
  <2>3. CASE m = n
    <3>1. u = t
      BY <1>2, <1>3, <2>3
    <3>2. /\ slots'[m] = Append(grown[m], c) /\ grown[m] \in Seq(Callbacks)
      BY <1>5, <1>6, <2>1, <2>3
    <3>3. wants'[c] = t
      BY <1>1 DEF BInv, BusTypeOK
    <3> QED BY <1>9, <2>2, <3>1, <3>2, <3>3
  <2>4. CASE m # n
    BY <1>6, <1>9, <2>1, <2>2, <2>4
  <2> QED BY <2>3, <2>4
<1>11. CastsAreSound'
  <2>1. \A k \in DOMAIN received : received[k].by \in Callbacks
                                   /\ received[k].event.type \in Types
    <3>1. received \in Seq([by : Callbacks, event : Event])
      BY DEF BInv, BusTypeOK
    <3>2. \A k \in DOMAIN received : received[k] \in [by : Callbacks, event : Event]
      BY <3>1, LenProperties, Zenon
    <3> QED BY <3>2 DEF Event
  <2> QED BY <1>1, <1>9, <2>1, NoTypeAssumption DEF BInv, CastsAreSound
<1> QED BY <1>1, <1>4, <1>7, <1>8, <1>10, <1>11 DEF BInv, GuardCounts, SlotsMatch

\* The innermost call and the ones below it.
LEMMA TopOfStack ==
  ASSUME calls \in Seq(Call), calls # <<>>
  PROVE  /\ Len(calls) \in Nat \ {0} /\ Last(calls) = calls[Len(calls)] /\ Last(calls) \in Call
         /\ Front(calls) \in Seq(Call) /\ Len(Front(calls)) = Len(calls) - 1
         /\ \A i \in 1 .. Len(calls) - 1 : Front(calls)[i] = calls[i]
<1>1. Len(calls) \in Nat \ {0} /\ \A i \in 1 .. Len(calls) : calls[i] \in Call
  BY EmptySeq, ElementOfSeq
<1>2. \A i \in 1 .. Len(calls) - 1 : calls[i] \in Call
  BY <1>1
<1>3. Len(calls) - 1 \in Int /\ 1 \in Int
  BY <1>1
<1>4. /\ SubSeq(calls, 1, Len(calls) - 1) \in Seq(Call)
      /\ Len(SubSeq(calls, 1, Len(calls) - 1)) = Len(calls) - 1
      /\ \A i \in 1 .. Len(calls) - 1 : SubSeq(calls, 1, Len(calls) - 1)[i] = calls[i]
  <2> DEFINE k == Len(calls) - 1
  <2>1. k \in Nat /\ 1 \in Int /\ k \in Int
    BY <1>1
  <2> HIDE DEF k
  <2>2. (1 <= k => k - 1 + 1 = k) /\ (~(1 <= k) => k = 0) /\ k - 1 + 1 = k
    BY <2>1
  <2>3. /\ SubSeq(calls, 1, k) \in Seq(Call)
        /\ Len(SubSeq(calls, 1, k)) = IF 1 <= k THEN k - 1 + 1 ELSE 0
        /\ \A i \in 1 .. k - 1 + 1 : SubSeq(calls, 1, k)[i] = calls[1 + i - 1]
    <3>1. \A i \in 1 .. k : calls[i] \in Call
      BY <1>2 DEF k
    <3> QED BY <2>1, <3>1, SubSeqProperties
  <2>4. \A i \in 1 .. k : 1 + i - 1 = i
    BY <2>1
  <2> QED BY <2>2, <2>3, <2>4, Zenon DEF k
<1>5. Last(calls) = calls[Len(calls)] /\ Last(calls) \in Call
  BY <1>1 DEF Last
<1> QED BY <1>1, <1>4, <1>5 DEF Front

\* A publish on top of the stack is of a type with a slot.
LEMMA TopHasAudience ==
  ASSUME BInv, calls # <<>>, Last(calls).kind = "publish"
  PROVE  /\ Len(calls) \in ActivePublishes
         /\ Last(calls).event \in Event /\ Last(calls).next \in Nat \ {0}
         /\ Last(calls).event.type \in Used
         /\ indexOf[Last(calls).event.type] \in 1 .. Len(slots)
         /\ Audience(Last(calls)) = slots[indexOf[Last(calls).event.type]]
         /\ Audience(Last(calls)) \in Seq(Callbacks)
<1>1. /\ Len(calls) \in Nat \ {0} /\ Last(calls) = calls[Len(calls)] /\ Last(calls) \in Call
      /\ DOMAIN calls = 1 .. Len(calls)
  BY TopOfStack, LenProperties DEF BInv, BusTypeOK
<1>2. Len(calls) \in ActivePublishes
  BY <1>1 DEF ActivePublishes
<1>3. Last(calls).event \in Event /\ Last(calls).next \in Nat \ {0}
  BY <1>1 DEF Call
<1>4. Last(calls).event.type \in Used /\ indexOf[Last(calls).event.type] <= Len(slots)
  BY <1>1, <1>2 DEF BInv, SlotsMatch
<1>5. indexOf[Last(calls).event.type] \in 1 .. Len(slots)
  BY <1>4 DEF BInv, BusTypeOK, Used
<1>6. slots[indexOf[Last(calls).event.type]] \in Seq(Callbacks)
  BY <1>5, ElementOfSeq DEF BInv, BusTypeOK
<1> QED BY <1>2, <1>3, <1>4, <1>5, <1>6 DEF Audience

\* A callback is called with the event of its type; the call stays on the stack
\* (SubscribersStorage.hpp:112-115).
LEMMA InvokeStep ==
  ASSUME BInv, InvokeNext
  PROVE  BInv'
<1> DEFINE call == Last(calls)
           next == [call EXCEPT !.next = @ + 1]
           new == [by |-> Audience(call)[call.next], event |-> call.event]
           l == Len(calls)
<1>1. /\ calls # <<>> /\ call.kind = "publish" /\ call.next <= Len(Audience(call))
      /\ received' = Append(received, new)
      /\ calls' = Append(Front(calls), next)
      /\ UNCHANGED <<indexOf, slots, wants, publishCount, queue, published>>
  BY DEF InvokeNext, storageVars
<1>2. /\ l \in Nat \ {0} /\ call = calls[l] /\ call \in Call
      /\ Front(calls) \in Seq(Call) /\ Len(Front(calls)) = l - 1
      /\ \A i \in 1 .. l - 1 : Front(calls)[i] = calls[i]
  BY <1>1, TopOfStack DEF BInv, BusTypeOK
<1>3. /\ l \in ActivePublishes /\ call.event \in Event /\ call.next \in Nat \ {0}
      /\ call.event.type \in Used /\ indexOf[call.event.type] \in 1 .. Len(slots)
      /\ Audience(call) = slots[indexOf[call.event.type]] /\ Audience(call) \in Seq(Callbacks)
  BY <1>1, TopHasAudience
<1>4. next \in Call /\ next.kind = "publish" /\ next.event = call.event
  <2>1. call \in [kind : {"publish"}, event : Event, next : Nat \ {0}]
    BY <1>1, <1>2 DEF Call
  <2>2. next \in [kind : {"publish"}, event : Event, next : Nat \ {0}] /\ next.event = call.event
    BY <2>1
  <2> QED BY <2>2 DEF Call
<1>5. call.next \in DOMAIN Audience(call) /\ Audience(call)[call.next] \in Callbacks
  BY <1>1, <1>3
<1>6. wants[new.by] = new.event.type /\ new \in [by : Callbacks, event : Event]
  <2>1. wants[Audience(call)[call.next]] = call.event.type
    BY <1>3, <1>5 DEF BInv, SlotsMatch
  <2> QED BY <1>3, <1>5, <2>1
<1> HIDE DEF call, next, new, l
<1>7. /\ calls' \in Seq(Call) /\ DOMAIN calls' = 1 .. l /\ DOMAIN calls = 1 .. l
      /\ calls'[l] = next /\ \A i \in 1 .. l - 1 : calls'[i] = calls[i]
  <2>1. calls' \in Seq(Call) /\ Len(calls') = l
    BY <1>1, <1>2, <1>4
  <2>2. calls'[l] = next /\ \A i \in 1 .. l - 1 : calls'[i] = Front(calls)[i]
    BY <1>1, <1>2, <1>4
  <2>3. DOMAIN calls' = 1 .. l /\ DOMAIN calls = 1 .. l
    BY <2>1, LenProperties DEF BInv, BusTypeOK, l
  <2> QED BY <1>2, <2>1, <2>2, <2>3
<1>8. ActivePublishes' = ActivePublishes
  <2>1. \A i \in 1 .. l : calls'[i].kind = "publish" <=> calls[i].kind = "publish"
    BY <1>1, <1>2, <1>4, <1>7
  <2> QED BY <1>7, <2>1 DEF ActivePublishes
<1>9. BusTypeOK'
  BY <1>1, <1>6, <1>7 DEF BInv, BusTypeOK
<1>10. SlotsMatch'
  <2>1. \A i \in ActivePublishes' : calls'[i].event.type \in Used
                                    /\ indexOf[calls'[i].event.type] <= Len(slots)
    BY <1>2, <1>3, <1>4, <1>7, <1>8 DEF BInv, SlotsMatch, ActivePublishes
  <2>2. Used' = Used
    BY <1>1 DEF Used
  <2> QED BY <1>1, <2>1, <2>2 DEF BInv, SlotsMatch
<1>11. CastsAreSound'
  <2>1. received \in Seq([by : Callbacks, event : Event])
    BY DEF BInv, BusTypeOK
  <2>2. \A k \in DOMAIN received' :
          received'[k] = new \/ (k \in DOMAIN received /\ received'[k] = received[k])
    BY <1>1, <1>6, <2>1
  <2> QED BY <1>1, <1>6, <2>2 DEF BInv, CastsAreSound
<1>12. Numbered'
  BY <1>1 DEF BInv, Numbered, Used
<1> QED BY <1>1, <1>8, <1>9, <1>10, <1>11, <1>12 DEF BInv, GuardCounts

\* ~PublishGuard: the innermost publish ends, and is counted no more
\* (SubscribersStorage.hpp:135-138).
LEMMA PublishReturnsStep ==
  ASSUME BInv, PublishReturns
  PROVE  BInv'
<1> DEFINE l == Len(calls)
<1>1. /\ calls # <<>> /\ Last(calls).kind = "publish"
      /\ calls' = Front(calls) /\ publishCount' = publishCount - 1
      /\ UNCHANGED <<indexOf, slots, wants, queue, published, received>>
  BY DEF PublishReturns, LeavePublish, storageVars, historyVars
<1>2. /\ l \in Nat \ {0} /\ calls' \in Seq(Call) /\ Len(calls') = l - 1
      /\ \A i \in 1 .. l - 1 : calls'[i] = calls[i]
  BY <1>1, TopOfStack DEF BInv, BusTypeOK
<1>3. l \in ActivePublishes
  BY <1>1, TopHasAudience
<1>4. DOMAIN calls' = 1 .. l - 1 /\ DOMAIN calls = 1 .. l
  BY <1>2, LenProperties DEF BInv, BusTypeOK
<1> HIDE DEF l
<1>5. ActivePublishes' = ActivePublishes \ {l}
  BY <1>2, <1>4 DEF ActivePublishes
<1>6. Cardinality(ActivePublishes \ {l}) = Cardinality(ActivePublishes) - 1
  BY <1>3, ActiveFinite, FS_RemoveElement DEF BInv, BusTypeOK
<1>7. BusTypeOK' /\ Used' = Used
  BY <1>1, <1>2 DEF BInv, BusTypeOK, Used
<1>8. SlotsMatch'
  <2>1. \A i \in ActivePublishes' : i \in ActivePublishes /\ calls'[i] = calls[i]
    BY <1>2, <1>4, <1>5 DEF ActivePublishes
  <2> QED BY <1>1, <1>7, <2>1 DEF BInv, SlotsMatch
<1> QED BY <1>1, <1>5, <1>6, <1>7, <1>8 DEF BInv, GuardCounts, Numbered, CastsAreSound

\* dispatch() enters its loop (AsyncEventBus.hpp:46).
LEMMA DispatchStep ==
  ASSUME BInv, Dispatch
  PROVE  BInv'
<1> DEFINE n == Len(calls) + 1
           call == [kind |-> "dispatch"]
<1>1. /\ calls' = Append(calls, call)
      /\ UNCHANGED <<indexOf, slots, wants, publishCount, queue, published, received>>
  BY DEF Dispatch, storageVars
<1>2. call \in Call
  BY DEF Call
<1>3. /\ calls' \in Seq(Call) /\ n \in Nat \ {0}
      /\ DOMAIN calls' = 1 .. n /\ DOMAIN calls = 1 .. n - 1
      /\ calls'[n] = call /\ \A i \in 1 .. n - 1 : calls'[i] = calls[i]
  BY <1>1, <1>2 DEF BInv, BusTypeOK
<1>4. ActivePublishes' = ActivePublishes /\ Used' = Used
  BY <1>1, <1>3 DEF ActivePublishes, Used
<1>5. BusTypeOK'
  BY <1>1, <1>3 DEF BInv, BusTypeOK
<1>6. SlotsMatch'
  BY <1>1, <1>3, <1>4 DEF BInv, SlotsMatch, ActivePublishes
<1> QED BY <1>1, <1>4, <1>5, <1>6 DEF BInv, GuardCounts, Numbered, CastsAreSound

\* dispatch() returns; the publishes on the stack stay (AsyncEventBus.hpp:55).
LEMMA DispatchReturnsStep ==
  ASSUME BInv, DispatchReturns
  PROVE  BInv'
<1> DEFINE l == Len(calls)
<1>1. /\ calls # <<>> /\ Last(calls).kind = "dispatch" /\ calls' = Front(calls)
      /\ UNCHANGED <<indexOf, slots, wants, publishCount, queue, published, received>>
  BY DEF DispatchReturns, InDispatch, storageVars, historyVars
<1>2. /\ l \in Nat \ {0} /\ calls' \in Seq(Call) /\ Len(calls') = l - 1
      /\ \A i \in 1 .. l - 1 : calls'[i] = calls[i]
      /\ calls[l].kind = "dispatch"
  BY <1>1, TopOfStack DEF BInv, BusTypeOK
<1>3. DOMAIN calls' = 1 .. l - 1 /\ DOMAIN calls = 1 .. l
  BY <1>2, LenProperties DEF BInv, BusTypeOK
<1> HIDE DEF l
<1>4. ActivePublishes' = ActivePublishes /\ Used' = Used
  BY <1>1, <1>2, <1>3 DEF ActivePublishes, Used
<1>5. BusTypeOK'
  BY <1>1, <1>2 DEF BInv, BusTypeOK
<1>6. SlotsMatch'
  BY <1>1, <1>2, <1>3, <1>4 DEF BInv, SlotsMatch, ActivePublishes
<1> QED BY <1>1, <1>4, <1>5, <1>6 DEF BInv, GuardCounts, Numbered, CastsAreSound

\* clear(): refused while something is being published (SubscribersStorage.hpp:118-122).
LEMMA ClearStep ==
  ASSUME BInv, Clear
  PROVE  BInv'
<1>1. /\ publishCount = 0 /\ slots' = <<>> /\ queue' = <<>>
      /\ UNCHANGED <<indexOf, wants, publishCount, calls, published, received>>
  BY DEF Clear, MayModify, historyVars
<1>2. ActivePublishes = {}
  BY <1>1, ActiveFinite, FS_EmptySet DEF BInv, BusTypeOK, GuardCounts
<1>3. ActivePublishes' = ActivePublishes /\ Used' = Used
  BY <1>1 DEF ActivePublishes, Used
<1>4. BusTypeOK'
  BY <1>1 DEF BInv, BusTypeOK
<1>5. Numbered'
  <2>1. Len(slots') = 0 /\ Cardinality(Used) \in Nat
    BY <1>1, FS_CardinalityType DEF BInv, Numbered
  <2>2. Len(slots') <= Cardinality(Used')
    BY <1>3, <2>1
  <2> QED BY <1>1, <1>3, <2>2 DEF BInv, Numbered
<1>6. SlotsMatch'
  <2>1. \A u \in Used' : ~(indexOf'[u] <= Len(slots'))
    BY <1>1, <1>3 DEF BInv, BusTypeOK, Used
  <2> QED BY <1>2, <1>3, <2>1 DEF SlotsMatch
<1> QED BY <1>1, <1>3, <1>4, <1>5, <1>6 DEF BInv, GuardCounts, CastsAreSound

-------------------------------------------------------------------------------

\* Every step of a bus and of its callbacks keeps the invariant.
LEMMA BusStepKeeps ==
  ASSUME BInv, [Next]_vars
  PROVE  BInv'
<1>1. ASSUME NEW t \in Types, PublishNow(t) PROVE BInv'
  <2>1. /\ StorePublish(NewEvent(t), calls) /\ published' = published + 1
        /\ UNCHANGED <<slots, wants, queue, received>>
    BY <1>1 DEF PublishNow, historyVars
  <2>2. NewEvent(t) \in Event /\ published' \in Nat /\ queue' \in Seq(Event)
    BY <2>1 DEF NewEvent, Event, BInv, BusTypeOK
  <2> QED BY <2>1, <2>2, EnterStep
<1>2. ASSUME NEW t \in Types, PublishLater(t) PROVE BInv'
  <2>1. /\ queue' = Append(queue, NewEvent(t)) /\ published' = published + 1
        /\ UNCHANGED <<indexOf, slots, wants, publishCount, calls, received>>
    BY <1>2 DEF PublishLater, storageVars, historyVars
  <2>2. NewEvent(t) \in Event /\ published' \in Nat
    BY <2>1 DEF NewEvent, Event, BInv, BusTypeOK
  <2>3. queue' \in Seq(Event)
    BY <2>1, <2>2 DEF BInv, BusTypeOK
  <2> QED BY <2>1, <2>2, <2>3, QueueStep
<1>3. CASE DispatchNext
  <2>1. /\ StorePublish(Head(queue), calls) /\ queue # <<>> /\ queue' = Tail(queue)
        /\ UNCHANGED <<slots, wants, published, received>>
    BY <1>3 DEF DispatchNext, historyVars
  <2>2. Head(queue) \in Event /\ queue' \in Seq(Event) /\ published' \in Nat
    BY <2>1, HeadTailProperties DEF BInv, BusTypeOK
  <2> QED BY <2>1, <2>2, EnterStep
<1>4. CASE UNCHANGED vars
  <2>1. UNCHANGED <<indexOf, slots, wants, publishCount, calls, received, queue, published>>
    BY <1>4 DEF vars, storageVars, historyVars
  <2>2. queue' \in Seq(Event) /\ published' \in Nat
    BY <2>1 DEF BInv, BusTypeOK
  <2> QED BY <2>1, <2>2, QueueStep
<1> QED
  BY <1>1, <1>2, <1>3, <1>4, SubscribeStep, UsedElsewhereStep, InvokeStep,
     PublishReturnsStep, DispatchStep, DispatchReturnsStep, ClearStep DEF Next, BusRuns

\* The invariant holds of every behaviour of a bus.
THEOREM BusInvariance == Spec => []BInv
BY BusInitEstablishes, BusStepKeeps, PTL DEF Spec

\* A callback is only called with events of the type it was subscribed for, for any
\* number of types, buses' first uses, callbacks and nested publishes
\* (SubscribersStorage.hpp:99, 124-129).
THEOREM SoundCasts == Spec => []CastsAreSound
<1>1. BInv => CastsAreSound
  BY DEF BInv
<1> QED BY <1>1, BusInvariance, PTL

\* The callbacks are not added to or destroyed while some publish iterates over them,
\* at any depth of nesting (SubscribersStorage.hpp:84-146).
THEOREM StableStorage == Spec => StorageIsStable
<1>1. ASSUME BInv, [Next]_vars
      PROVE  [ActivePublishes # {} => slots' = slots]_vars
  <2>1. SUFFICES ASSUME Next, ActivePublishes # {} PROVE slots' = slots
    BY <1>1
  <2>2. publishCount # 0
    BY <1>1, <2>1, ActiveFinite, FS_EmptySet DEF BInv, BusTypeOK, GuardCounts
  <2>3. ~MayModify
    BY <2>2 DEF MayModify
  <2> QED
    BY <2>1, <2>3
       DEF Next, BusRuns, Subscribe, Clear, UsedElsewhere, PublishNow, PublishLater, Dispatch,
           InvokeNext, PublishReturns, DispatchNext, DispatchReturns, storageVars
<1> QED BY <1>1, BusInvariance, PTL DEF Spec, StorageIsStable

-------------------------------------------------------------------------------
(* Delivery: each event once, and in order.                                *)

Handed == {received[k].event.no : k \in DOMAIN received}

Publishing == {calls[i].event.no : i \in ActivePublishes}

\* What is queued was published earlier than now, in the order of the queue, and
\* was not given to anybody; what is being published is being published once.
EachEventOnce ==
  /\ \A i \in DOMAIN queue : queue[i].no <= published
  /\ \A i, j \in DOMAIN queue : i < j => queue[i].no < queue[j].no
  /\ \A n \in Handed \cup Publishing :
       n <= published /\ \A i \in DOMAIN queue : queue[i].no # n
  /\ \A i, j \in ActivePublishes : calls[i].event.no = calls[j].event.no => i = j

\* A callback that is in a slot was subscribed, and is in it once.
InOneSlot ==
  \A m \in DOMAIN slots : \A i, j \in DOMAIN slots[m] :
    /\ wants[slots[m][i]] # None
    /\ slots[m][i] = slots[m][j] => i = j

\* In an AsyncEventBus the events that wait are later than all that left the queue; a
\* publish that has called nobody yet is the innermost call, of the latest of these.
TakenInOrder ==
  deferred =>
    /\ \A n \in Handed \cup Publishing : \A i \in DOMAIN queue : n < queue[i].no
    /\ \A i \in ActivePublishes : calls[i].next = 1 =>
         i = Len(calls) /\ \A n \in Handed : n < calls[i].event.no

\* No callback has called dispatch(): then the stack is a dispatch and at most one
\* publish, of an event that is the latest of all that were given to callbacks.
OnePublishAtATime ==
  deferred /\ ~nested =>
    /\ Len(calls) <= 2
    /\ \A i \in DOMAIN calls : calls[i].kind = IF i = 1 THEN "dispatch" ELSE "publish"
    /\ \A m \in Publishing : \A n \in Handed : n <= m

DInv ==
  /\ BInv /\ EachEventOnce /\ InOneSlot /\ DeliveredOnce
  /\ TakenInOrder /\ OnePublishAtATime /\ SeenInOrder

\* Every event has a natural number.
LEMMA EventNumbers ==
  ASSUME BInv
  PROVE  /\ Handed \subseteq Nat /\ Publishing \subseteq Nat /\ published \in Nat
         /\ \A i \in DOMAIN queue : queue[i] \in Event /\ queue[i].no \in Nat
         /\ DOMAIN received = 1 .. Len(received) /\ Len(received) \in Nat
         /\ \A k \in DOMAIN received : received[k] \in [by : Callbacks, event : Event]
         /\ \A i \in ActivePublishes : calls[i].event \in Event /\ calls[i].next \in Nat \ {0}
<1>1. \A i \in DOMAIN queue : queue[i] \in Event
  BY LenProperties, ElementOfSeq, Zenon DEF BInv, BusTypeOK
<1>2. /\ DOMAIN received = 1 .. Len(received) /\ Len(received) \in Nat
      /\ \A k \in DOMAIN received : received[k] \in [by : Callbacks, event : Event]
  BY LenProperties, ElementOfSeq, Zenon DEF BInv, BusTypeOK
<1>3. \A i \in DOMAIN calls : calls[i] \in Call
  BY LenProperties, ElementOfSeq, Zenon DEF BInv, BusTypeOK
<1>4. \A i \in ActivePublishes : calls[i].event \in Event /\ calls[i].next \in Nat \ {0}
  BY <1>3 DEF ActivePublishes, Call
<1>5. \A e \in Event : e.no \in Nat
  BY DEF Event
<1>6. Handed \subseteq Nat
  BY <1>2, <1>5 DEF Handed
<1>7. Publishing \subseteq Nat
  BY <1>4, <1>5 DEF Publishing
<1> QED BY <1>1, <1>2, <1>4, <1>5, <1>6, <1>7 DEF BInv, BusTypeOK

\* Every publish that goes on was going on before and neither it nor its audience
\* moved: what it has delivered stays as it was.
LEMMA DeliveryStays ==
  ASSUME BInv, DeliveredOnce, CastsAreSound', UNCHANGED <<slots, received>>,
         \A u \in Used : indexOf'[u] = indexOf[u],
         \A i \in ActivePublishes' : i \in ActivePublishes /\ calls'[i] = calls[i]
  PROVE  DeliveredOnce'
<1> SUFFICES ASSUME NEW i \in ActivePublishes'
             PROVE  LET Got == Deliveries(calls[i].event)' IN
                      /\ Cardinality(Got) = calls'[i].next - 1
                      /\ \A k \in Got : received'[k].by =
                           Audience(calls[i])'[Cardinality({j \in Got : j <= k})]
  BY DEF DeliveredOnce
<1>1. i \in ActivePublishes /\ calls'[i] = calls[i] /\ calls[i].event.type \in Used
  BY DEF BInv, SlotsMatch
<1>2. Deliveries(calls[i].event)' = Deliveries(calls[i].event)
  BY <1>1 DEF Deliveries
<1>3. Audience(calls[i])' = Audience(calls[i])
  BY <1>1 DEF Audience
<1> QED BY <1>1, <1>2, <1>3 DEF DeliveredOnce

\* What waits, was handed out and is being published, when no event is published anew.
LEMMA EventsStay ==
  ASSUME BInv, EachEventOnce, queue' = queue \/ queue' = <<>>, UNCHANGED published,
         Handed' \subseteq Handed \cup Publishing,
         \A i \in ActivePublishes' :
           i \in ActivePublishes /\ calls'[i].event = calls[i].event
  PROVE  EachEventOnce' /\ Publishing' \subseteq Publishing
<1>1. Publishing' \subseteq Publishing
  BY DEF Publishing
<1>2. \A n \in Handed' \cup Publishing' :
        n <= published /\ \A i \in DOMAIN queue : queue[i].no # n
  BY <1>1 DEF EachEventOnce
<1>3. \A i, j \in ActivePublishes' : calls'[i].event.no = calls'[j].event.no => i = j
  BY DEF EachEventOnce
<1>4. CASE queue' = queue
  BY <1>1, <1>2, <1>3, <1>4 DEF EachEventOnce
<1>5. CASE queue' = <<>>
  <2>1. DOMAIN queue' = {}
    BY <1>5
  <2> QED BY <1>1, <1>2, <1>3, <2>1 DEF EachEventOnce
<1> QED BY <1>4, <1>5

\* A step that neither enters a publish nor hands an event to a callback, nor publishes
\* one, nor touches the callbacks.
LEMMA QuietDelivery ==
  ASSUME DInv, BInv', UNCHANGED <<deferred, slots, wants, received, queue, published>>,
         \A u \in Used : indexOf'[u] = indexOf[u],
         \A i \in ActivePublishes' : i \in ActivePublishes /\ calls'[i] = calls[i],
         TakenInOrder', OnePublishAtATime', nested => nested'
  PROVE  DInv'
<1>1. BInv /\ CastsAreSound'
  BY DEF DInv, BInv
<1>2. DeliveredOnce'
  BY <1>1, DeliveryStays DEF DInv
<1>3. EachEventOnce'
  BY <1>1, EventsStay DEF DInv, Handed
<1>4. InOneSlot' /\ SeenInOrder'
  BY DEF DInv, InOneSlot, SeenInOrder
<1> QED BY <1>2, <1>3, <1>4 DEF DInv

\* dispatch() enters its loop; from within a callback it is a nested one
\* (AsyncEventBus.hpp:46).
LEMMA DispatchDelivery ==
  ASSUME DInv, BInv', Dispatch
  PROVE  DInv'
<1> DEFINE n == Len(calls) + 1
           call == [kind |-> "dispatch"]
<1>1. /\ calls' = Append(calls, call) /\ nested' = (nested \/ calls # <<>>)
      /\ UNCHANGED <<deferred, indexOf, slots, wants, queue, published, received>>
  BY DEF Dispatch, storageVars
<1>2. call \in Call
  BY DEF Call
<1>3. /\ calls' \in Seq(Call) /\ n \in Nat \ {0} /\ Len(calls') = n
      /\ DOMAIN calls' = 1 .. n /\ DOMAIN calls = 1 .. n - 1
      /\ calls'[n] = call /\ \A i \in 1 .. n - 1 : calls'[i] = calls[i]
  BY <1>1, <1>2 DEF DInv, BInv, BusTypeOK
<1>4. \A i \in ActivePublishes' : i \in ActivePublishes /\ calls'[i] = calls[i]
  BY <1>1, <1>3 DEF ActivePublishes
<1>5. OnePublishAtATime'
  <2> SUFFICES ASSUME deferred', ~nested' PROVE OnePublishAtATime'
    BY DEF OnePublishAtATime
  <2>1. calls = <<>>
    BY <1>1
  <2>2. n = 1 /\ ActivePublishes = {}
    BY <1>3, <2>1 DEF ActivePublishes
  <2>3. Publishing' = {} /\ Handed' = Handed
    BY <1>1, <1>4, <2>2 DEF Publishing, Handed
  <2>4. \A i \in DOMAIN calls' : i = 1 /\ calls'[i].kind = "dispatch"
    BY <1>3, <2>2
  <2> QED BY <1>3, <2>2, <2>3, <2>4 DEF OnePublishAtATime
<1>6. nested => nested'
  BY <1>1
<1>7. /\ UNCHANGED <<deferred, slots, wants, received, queue, published>>
      /\ \A u \in Used : indexOf'[u] = indexOf[u]
  BY <1>1
<1>8. TakenInOrder'
  <2>1. Publishing' \subseteq Publishing /\ Handed' = Handed
    BY <1>1, <1>4 DEF Publishing, Handed
  <2>2. ASSUME deferred, NEW i \in ActivePublishes, calls[i].next = 1 PROVE FALSE
    <3>1. i = Len(calls) /\ calls # <<>>
      BY <2>2 DEF DInv, TakenInOrder, ActivePublishes
    <3>2. Last(calls) = calls[i]
      BY <3>1, TopOfStack DEF DInv, BInv, BusTypeOK
    <3>3. Last(calls).next > 1
      BY <3>1 DEF Dispatch, UserRuns
    <3> QED BY <2>2, <3>2, <3>3
  <2> QED BY <1>1, <1>4, <2>1, <2>2 DEF DInv, TakenInOrder
<1> QED BY <1>4, <1>5, <1>6, <1>7, <1>8, QuietDelivery, Zenon

\* A publish or a dispatch() returns (SubscribersStorage.hpp:135-138, AsyncEventBus.hpp:55).
LEMMA ReturnDelivery ==
  ASSUME DInv, BInv', PublishReturns \/ DispatchReturns
  PROVE  DInv'
<1> DEFINE l == Len(calls)
<1>1. /\ calls # <<>> /\ calls' = Front(calls)
      /\ UNCHANGED <<deferred, indexOf, slots, wants, queue, published, received, nested>>
  BY DEF PublishReturns, DispatchReturns, InDispatch, storageVars, historyVars
<1>2. /\ l \in Nat \ {0} /\ calls' \in Seq(Call) /\ Len(calls') = l - 1
      /\ \A i \in 1 .. l - 1 : calls'[i] = calls[i]
  BY <1>1, TopOfStack DEF DInv, BInv, BusTypeOK
<1>3. DOMAIN calls' = 1 .. l - 1 /\ DOMAIN calls = 1 .. l
  BY <1>2, LenProperties DEF DInv, BInv, BusTypeOK
<1>4. \A i \in ActivePublishes' : i \in ActivePublishes /\ calls'[i] = calls[i]
  BY <1>2, <1>3 DEF ActivePublishes
<1>5. Publishing' \subseteq Publishing /\ Handed' = Handed
  BY <1>1, <1>4 DEF Publishing, Handed
<1>6. OnePublishAtATime'
  <2> SUFFICES ASSUME deferred, ~nested PROVE OnePublishAtATime'
    BY <1>1 DEF OnePublishAtATime
  <2>1. Len(calls') <= 2 /\ \A i \in DOMAIN calls' : calls'[i].kind = IF i = 1 THEN "dispatch" ELSE "publish"
    BY <1>2, <1>3 DEF DInv, OnePublishAtATime
  <2> QED BY <1>1, <1>5, <2>1 DEF DInv, OnePublishAtATime
<1>7. TakenInOrder'
  <2>1. \A i \in ActivePublishes' : i # l
    BY <1>2, <1>3 DEF ActivePublishes
  <2> QED BY <1>1, <1>4, <1>5, <2>1 DEF DInv, TakenInOrder
<1> QED BY <1>1, <1>4, <1>6, <1>7, QuietDelivery

\* An index is taken by another bus (SubscribersStorage.hpp:124-129).
LEMMA UsedElsewhereDelivery ==
  ASSUME DInv, BInv', NEW t \in Types, UsedElsewhere(t)
  PROVE  DInv'
<1>1. /\ indexOf' = [indexOf EXCEPT ![t] = EventIndex(t)]
      /\ UNCHANGED <<deferred, slots, wants, queue, calls, published, received, nested>>
  BY DEF UsedElsewhere, historyVars
<1>2. \A u \in Used : indexOf'[u] = indexOf[u]
  BY <1>1, IndexStep DEF DInv, BInv
<1>3. ActivePublishes' = ActivePublishes
  BY <1>1 DEF ActivePublishes
<1>4. TakenInOrder' /\ OnePublishAtATime'
  BY <1>1, <1>3 DEF DInv, TakenInOrder, OnePublishAtATime, Publishing, Handed
<1>5. UNCHANGED <<deferred, slots, wants, received, queue, published>> /\ (nested => nested')
  BY <1>1
<1> QED BY <1>1, <1>2, <1>3, <1>4, <1>5, QuietDelivery

\* While nobody iterates over the callbacks, they may change: what was delivered stays.
LEMMA ModificationDelivery ==
  ASSUME DInv, BInv', publishCount = 0, UNCHANGED <<deferred, calls, published, received, nested>>,
         queue' = queue \/ queue' = <<>>, InOneSlot'
  PROVE  DInv'
<1>1. BInv /\ CastsAreSound'
  BY DEF DInv, BInv
<1>2. ActivePublishes = {} /\ ActivePublishes' = {}
  <2>1. ActivePublishes = {}
    BY <1>1, ActiveFinite, FS_EmptySet DEF BInv, BusTypeOK, GuardCounts
  <2> QED BY <2>1 DEF ActivePublishes
<1>3. DeliveredOnce'
  BY <1>1, <1>2 DEF DeliveredOnce
<1>4. EachEventOnce' /\ Publishing' \subseteq Publishing /\ Handed' = Handed
  <2>1. Handed' = Handed
    BY DEF Handed
  <2> QED BY <1>1, <1>2, <2>1, EventsStay DEF DInv
<1>5. TakenInOrder' /\ OnePublishAtATime'
  <2>1. \A i \in DOMAIN queue' : i \in DOMAIN queue /\ queue'[i] = queue[i]
    OBVIOUS
  <2>2. TakenInOrder'
    BY <1>2, <1>4, <2>1 DEF DInv, TakenInOrder
  <2>3. OnePublishAtATime'
    BY <1>4 DEF DInv, OnePublishAtATime
  <2> QED BY <2>2, <2>3
<1>6. SeenInOrder'
  BY DEF DInv, SeenInOrder
<1> QED BY <1>3, <1>4, <1>5, <1>6 DEF DInv

\* clear() of the storage and of the queue (AsyncEventBus.hpp:57-61).
LEMMA ClearDelivery ==
  ASSUME DInv, BInv', Clear
  PROVE  DInv'
<1>1. /\ publishCount = 0 /\ slots' = <<>> /\ queue' = <<>>
      /\ UNCHANGED <<deferred, calls, published, received, nested>>
  BY DEF Clear, MayModify, historyVars
<1>2. InOneSlot'
  BY <1>1 DEF InOneSlot
<1> QED BY <1>1, <1>2, ModificationDelivery

\* A callback enters one slot, once (SubscribersStorage.hpp:84-102).
LEMMA SubscribeDelivery ==
  ASSUME DInv, BInv', NEW t \in Types, NEW c \in Callbacks, Subscribe(c, t)
  PROVE  DInv'
<1> DEFINE n == EventIndex(t)
           grown == Resized(n)
<1>1. /\ publishCount = 0 /\ wants[c] = None
      /\ wants' = [wants EXCEPT ![c] = t]
      /\ indexOf' = [indexOf EXCEPT ![t] = n]
      /\ slots' = [grown EXCEPT ![n] = Append(@, c)]
      /\ UNCHANGED <<deferred, queue, calls, published, received, nested>>
  BY DEF Subscribe, MayModify, historyVars
<1>2. n \in Nat \ {0} /\ slots \in Seq(Seq(Callbacks)) /\ wants \in [Callbacks -> Types \cup {None}]
  <2>1. indexOf'[t] \in Nat \ {0} /\ indexOf'[t] = n
    BY <1>1, IndexStep DEF DInv, BInv, BusTypeOK
  <2> QED BY <2>1 DEF DInv, BInv, BusTypeOK
<1>3. /\ grown \in Seq(Seq(Callbacks)) /\ n <= Len(grown)
      /\ \A i \in 1 .. Len(grown) : grown[i] = IF i <= Len(slots) THEN slots[i] ELSE <<>>
  BY <1>2, ResizedSlots
<1> HIDE DEF n, grown
<1>4. /\ DOMAIN slots' = 1 .. Len(grown) /\ n \in 1 .. Len(grown)
      /\ slots'[n] = Append(grown[n], c) /\ grown[n] \in Seq(Callbacks)
      /\ \A m \in 1 .. Len(grown) : m # n => slots'[m] = grown[m]
  BY <1>1, <1>2, <1>3
<1>5. \A m \in 1 .. Len(grown) : \A i, j \in DOMAIN grown[m] :
        /\ grown[m][i] \in Callbacks /\ wants[grown[m][i]] # None
        /\ grown[m][i] = grown[m][j] => i = j
  <2> SUFFICES ASSUME NEW m \in 1 .. Len(grown), NEW i \in DOMAIN grown[m], NEW j \in DOMAIN grown[m]
               PROVE  /\ grown[m][i] \in Callbacks /\ wants[grown[m][i]] # None
                      /\ grown[m][i] = grown[m][j] => i = j
    OBVIOUS
  <2>1. CASE m <= Len(slots)
    <3>1. m \in DOMAIN slots /\ grown[m] = slots[m] /\ slots[m] \in Seq(Callbacks)
      BY <1>2, <1>3, <2>1, LenProperties, ElementOfSeq
    <3>2. slots[m][i] \in Callbacks
      BY <3>1, LenProperties, ElementOfSeq
    <3> QED BY <3>1, <3>2 DEF DInv, InOneSlot
  <2>2. CASE ~(m <= Len(slots))
    <3>1. grown[m] = <<>>
      BY <1>3, <2>2
    <3> QED BY <3>1
  <2> QED BY <2>1, <2>2
<1>6. \A x \in Callbacks : wants[x] # None => x # c /\ wants'[x] = wants[x]
  BY <1>1, <1>2
<1>7. wants'[c] # None
  BY <1>1, <1>2, NoTypeAssumption
<1>8. InOneSlot'
  <2> SUFFICES ASSUME NEW m \in DOMAIN slots', NEW i \in DOMAIN slots'[m], NEW j \in DOMAIN slots'[m]
               PROVE  /\ wants'[slots'[m][i]] # None
                      /\ slots'[m][i] = slots'[m][j] => i = j
    BY DEF InOneSlot
  <2>1. CASE m # n
    BY <1>4, <1>5, <1>6, <2>1
  <2>2. CASE m = n
    <3> DEFINE g == grown[n]
    <3>1. /\ slots'[m] = Append(g, c) /\ g \in Seq(Callbacks)
      BY <1>4, <2>2
    <3>2. \A a, b \in DOMAIN g : /\ wants'[g[a]] # None /\ g[a] # c
                                 /\ g[a] = g[b] => a = b
      BY <1>4, <1>5, <1>6
    <3> HIDE DEF g
    <3>3. /\ DOMAIN Append(g, c) = 1 .. Len(g) + 1 /\ DOMAIN g = 1 .. Len(g) /\ Len(g) \in Nat
          /\ Append(g, c)[Len(g) + 1] = c
          /\ \A a \in 1 .. Len(g) : Append(g, c)[a] = g[a]
      BY <3>1
    <3>4. \A a \in 1 .. Len(g) + 1 : a \in 1 .. Len(g) \/ a = Len(g) + 1
      BY <3>3
    <3>5. /\ i \in DOMAIN g \/ i = Len(g) + 1
          /\ j \in DOMAIN g \/ j = Len(g) + 1
      BY <3>1, <3>3, <3>4
    <3>6. \A a \in DOMAIN g : slots'[m][a] = g[a]
      BY <3>1, <3>3
    <3>7. slots'[m][Len(g) + 1] = c
      BY <3>1, <3>3
    <3>8. wants'[slots'[m][i]] # None
      BY <1>7, <3>2, <3>5, <3>6, <3>7
    <3>9. slots'[m][i] = slots'[m][j] => i = j
      BY <3>2, <3>5, <3>6, <3>7
    <3> QED BY <3>8, <3>9
  <2> QED BY <2>1, <2>2
<1> QED BY <1>1, <1>8, ModificationDelivery

\* publish() of an AsyncEventBus: the event waits behind all others (AsyncEventBus.hpp:38-44).
LEMMA PublishLaterDelivery ==
  ASSUME DInv, BInv', NEW t \in Types, PublishLater(t)
  PROVE  DInv'
<1> DEFINE n == published + 1
           l == Len(queue)
<1>1. /\ published' = n /\ queue' = Append(queue, [no |-> n, type |-> t])
      /\ UNCHANGED <<deferred, indexOf, slots, wants, calls, received, nested>>
  BY DEF PublishLater, NewEvent, storageVars, historyVars
<1>2. BInv /\ CastsAreSound'
  BY DEF DInv, BInv
<1>3. /\ Handed \subseteq Nat /\ Publishing \subseteq Nat /\ published \in Nat
      /\ \A i \in DOMAIN queue : queue[i].no \in Nat
      /\ l \in Nat /\ DOMAIN queue = 1 .. l
  BY <1>2, EventNumbers, LenProperties DEF BInv, BusTypeOK
<1>4. /\ DOMAIN queue' = 1 .. l + 1 /\ queue'[l + 1].no = n
      /\ \A i \in 1 .. l : queue'[i] = queue[i]
  <2>1. queue \in Seq(Event) /\ [no |-> n, type |-> t] \in Event
    BY <1>2, <1>3 DEF BInv, BusTypeOK, Event
  <2> QED BY <1>1, <2>1, AppendProperties
<1> HIDE DEF l
<1>5. \A i \in 1 .. l + 1 : i \in 1 .. l \/ i = l + 1
  BY <1>3
<1>6. n \in Nat /\ \A m \in Nat : m <= published => m < n /\ m <= n /\ m # n
  BY <1>3
<1>7. /\ \A i \in 1 .. l : queue[i].no \in Nat /\ queue[i].no <= published
      /\ \A m \in Handed \cup Publishing : m \in Nat /\ m <= published
      /\ \A m \in Handed \cup Publishing : \A i \in 1 .. l : queue[i].no # m
      /\ \A i, j \in 1 .. l : i < j => queue[i].no < queue[j].no
      /\ \A i, j \in ActivePublishes : calls[i].event.no = calls[j].event.no => i = j
  BY <1>3 DEF DInv, EachEventOnce
<1>8. Handed' = Handed /\ Publishing' = Publishing /\ ActivePublishes' = ActivePublishes
  BY <1>1 DEF Handed, Publishing, ActivePublishes
<1> HIDE DEF n
<1>9. EachEventOnce'
  <2>1. \A i \in DOMAIN queue' : queue'[i].no <= published'
    <3>1. \A i \in 1 .. l : queue'[i].no <= n
      BY <1>4, <1>6, <1>7
    <3>2. queue'[l + 1].no <= n
      BY <1>4, <1>6
    <3> QED BY <1>1, <1>4, <1>5, <3>1, <3>2
  <2>2. \A i, j \in DOMAIN queue' : i < j => queue'[i].no < queue'[j].no
    <3> SUFFICES ASSUME NEW i \in 1 .. l + 1, NEW j \in 1 .. l + 1, i < j
                 PROVE  queue'[i].no < queue'[j].no
      BY <1>4
    <3>1. i \in 1 .. l
      BY <1>3
    <3>2. CASE j \in 1 .. l
      BY <1>4, <1>7, <3>1, <3>2
    <3>3. CASE j = l + 1
      BY <1>4, <1>6, <1>7, <3>1, <3>3
    <3> QED BY <1>5, <3>2, <3>3
  <2>3. \A m \in Handed \cup Publishing : m <= published' /\ \A i \in DOMAIN queue' : queue'[i].no # m
    BY <1>1, <1>4, <1>5, <1>6, <1>7, ZenonT(40)
  <2> QED BY <1>1, <1>7, <1>8, <2>1, <2>2, <2>3 DEF EachEventOnce
<1>10. DeliveredOnce'
  <2>1. \A i \in ActivePublishes' : i \in ActivePublishes /\ calls'[i] = calls[i]
    BY <1>1, <1>8
  <2>2. UNCHANGED <<slots, received>> /\ \A u \in Used : indexOf'[u] = indexOf[u]
    BY <1>1
  <2> QED BY <1>2, <2>1, <2>2, DeliveryStays DEF DInv
<1>11. InOneSlot' /\ SeenInOrder'
  BY <1>1 DEF DInv, InOneSlot, SeenInOrder
<1>12. TakenInOrder' /\ OnePublishAtATime'
  <2>1. ASSUME deferred
        PROVE  \A m \in Handed \cup Publishing : \A i \in DOMAIN queue' : m < queue'[i].no
    <3>1. \A m \in Handed \cup Publishing : \A i \in 1 .. l : m < queue[i].no
      BY <1>3, <2>1 DEF DInv, TakenInOrder
    <3> QED BY <1>4, <1>5, <1>6, <1>7, <3>1
  <2>2. TakenInOrder'
    BY <1>1, <1>8, <2>1 DEF DInv, TakenInOrder
  <2>3. OnePublishAtATime'
    BY <1>1, <1>8 DEF DInv, OnePublishAtATime
  <2> QED BY <2>2, <2>3
<1> QED BY <1>9, <1>10, <1>11, <1>12 DEF DInv

\* What a publish that is entered finds: its event was given to nobody; one that left a
\* queue is later than all before it, and if no callback ever dispatched, the stack is
\* the dispatch() that took it out.
Entering(e) ==
  /\ e.no \notin Handed \cup Publishing /\ e.no <= published'
  /\ published <= published'
  /\ \A i \in DOMAIN queue' : /\ queue'[i].no <= published' /\ queue'[i].no # e.no
                              /\ queue'[i].no \notin Handed \cup Publishing
  /\ \A i, j \in DOMAIN queue' : i < j => queue'[i].no < queue'[j].no
  /\ deferred =>
       /\ \A n \in Handed : n < e.no
       /\ \A n \in Handed \cup Publishing \cup {e.no} : \A i \in DOMAIN queue' : n < queue'[i].no
       /\ \A i \in ActivePublishes : calls[i].next # 1
  /\ deferred /\ ~nested => Len(calls) = 1 /\ calls[1].kind = "dispatch"

\* A publish is entered: nobody has seen its event yet (SubscribersStorage.hpp:104-111).
LEMMA EnterDelivery ==
  ASSUME DInv, BInv', NEW e \in Event, StorePublish(e, calls), Entering(e),
         UNCHANGED <<deferred, slots, wants, received, nested>>
  PROVE  DInv'
<1>1. BInv /\ CastsAreSound' /\ e.type \in Types /\ e.no \in Nat
  BY DEF DInv, BInv, Event
<1>2. \A u \in Used : indexOf'[u] = indexOf[u]
  BY <1>1, IndexStep DEF StorePublish, BInv
<1>3. /\ Handed' = Handed /\ Handed \subseteq Nat /\ Publishing \subseteq Nat
      /\ published \in Nat /\ published' \in Nat
      /\ \A m \in Handed \cup Publishing : m <= published
      /\ \A i, j \in ActivePublishes : calls[i].event.no = calls[j].event.no => i = j
  BY <1>1, EventNumbers DEF Handed, DInv, EachEventOnce, BInv, BusTypeOK
<1>4. InOneSlot' /\ SeenInOrder'
  BY DEF DInv, InOneSlot, SeenInOrder
<1>5. /\ \A m \in Handed \cup Publishing \cup {e.no} :
           m <= published' /\ \A i \in DOMAIN queue' : queue'[i].no # m
      /\ \A i \in DOMAIN queue' : queue'[i].no <= published'
      /\ \A i, j \in DOMAIN queue' : i < j => queue'[i].no < queue'[j].no
  <2>1. \A a, b, c \in Nat : a <= b /\ b <= c => a <= c
    OBVIOUS
  <2>2. \A m \in Handed \cup Publishing : m <= published'
    BY <1>3, <2>1 DEF Entering
  <2> QED BY <2>2 DEF Entering
<1>6. CASE calls' = calls
  <2>1. ActivePublishes' = ActivePublishes
    BY <1>6 DEF ActivePublishes
  <2>2. Publishing' = Publishing
    BY <1>6, <2>1 DEF Publishing
  <2>3. \A i \in ActivePublishes' : i \in ActivePublishes /\ calls'[i] = calls[i]
    BY <1>6, <2>1
  <2>4. DeliveredOnce'
    BY <1>1, <1>2, <2>3, DeliveryStays DEF DInv
  <2>5. EachEventOnce'
    BY <1>3, <1>5, <1>6, <2>1, <2>2 DEF EachEventOnce
  <2>6. OnePublishAtATime'
    <3> SUFFICES ASSUME deferred, ~nested PROVE OnePublishAtATime'
      BY DEF OnePublishAtATime
    <3>1. Len(calls) <= 2
          /\ \A i \in DOMAIN calls : calls[i].kind = IF i = 1 THEN "dispatch" ELSE "publish"
      BY DEF DInv, OnePublishAtATime
    <3>2. \A i \in DOMAIN calls : i = 1 /\ calls[i].kind # "publish"
      BY <1>1, <3>1 DEF Entering, BInv, BusTypeOK
    <3>3. Publishing = {}
      BY <3>2 DEF Publishing, ActivePublishes
    <3> QED BY <1>3, <1>6, <2>2, <3>1, <3>3 DEF OnePublishAtATime
  <2>7. TakenInOrder'
    BY <1>3, <1>6, <2>1, <2>2 DEF TakenInOrder, Entering
  <2> QED BY <1>4, <2>4, <2>5, <2>6, <2>7 DEF DInv
<1>7. CASE calls' # calls
  <2> DEFINE n == Len(calls) + 1
             call == [kind |-> "publish", event |-> e, next |-> 1]
  <2>1. calls' = Append(calls, call)
    BY <1>7 DEF StorePublish
  <2>2. call \in Call /\ call.event = e /\ call.next = 1 /\ call.kind = "publish"
    BY DEF Call
  <2>3. /\ calls' \in Seq(Call) /\ n \in Nat \ {0} /\ Len(calls') = n /\ Len(calls) = n - 1
        /\ DOMAIN calls' = 1 .. n /\ DOMAIN calls = 1 .. n - 1
        /\ calls'[n] = call /\ \A i \in 1 .. n - 1 : calls'[i] = calls[i]
    BY <1>1, <2>1, <2>2 DEF BInv, BusTypeOK
  <2> HIDE DEF n, call
  <2>4. ActivePublishes' = ActivePublishes \cup {n} /\ n \notin ActivePublishes
        /\ \A i \in ActivePublishes : calls'[i] = calls[i]
    BY <2>2, <2>3 DEF ActivePublishes
  <2>5. Publishing' = Publishing \cup {e.no}
    BY <2>2, <2>3, <2>4 DEF Publishing
  <2>6. EachEventOnce'
    <3>1. \A i, j \in ActivePublishes' : calls'[i].event.no = calls'[j].event.no => i = j
      <4>1. \A i \in ActivePublishes : calls'[i].event.no # e.no
        BY <2>4 DEF Entering, Publishing
      <4> QED BY <1>3, <2>2, <2>3, <2>4, <4>1
    <3> QED BY <1>3, <1>5, <2>5, <3>1 DEF EachEventOnce
  <2>7. DeliveredOnce'
    <3> SUFFICES ASSUME NEW i \in ActivePublishes'
                 PROVE  LET Got == Deliveries(calls[i].event)' IN
                          /\ Cardinality(Got) = calls'[i].next - 1
                          /\ \A k \in Got : received'[k].by =
                               Audience(calls[i])'[Cardinality({j \in Got : j <= k})]
      BY <1>1 DEF DeliveredOnce
    <3>1. CASE i = n
      <4>1. calls'[i].event = e /\ calls'[i].next = 1
        BY <2>2, <2>3, <3>1
      <4>2. Deliveries(calls[i].event)' = {}
        BY <4>1 DEF Deliveries, Entering, Handed
      <4> QED BY <4>1, <4>2, FS_EmptySet
    <3>2. CASE i # n
      <4>1. i \in ActivePublishes /\ calls'[i] = calls[i] /\ calls[i].event.type \in Used
        BY <1>1, <2>4, <3>2 DEF BInv, SlotsMatch
      <4>2. Deliveries(calls[i].event)' = Deliveries(calls[i].event)
        BY <4>1 DEF Deliveries
      <4>3. Audience(calls[i])' = Audience(calls[i])
        BY <1>2, <4>1 DEF Audience
      <4> QED BY <4>1, <4>2, <4>3 DEF DInv, DeliveredOnce
    <3> QED BY <3>1, <3>2
  <2>8. OnePublishAtATime'
    <3> SUFFICES ASSUME deferred, ~nested PROVE OnePublishAtATime'
      BY DEF OnePublishAtATime
    <3>1. n = 2 /\ calls[1].kind = "dispatch"
      BY <2>3 DEF Entering
    <3>2. /\ Len(calls') <= 2
          /\ \A i \in DOMAIN calls' : calls'[i].kind = IF i = 1 THEN "dispatch" ELSE "publish"
      BY <2>2, <2>3, <3>1
    <3>3. Publishing = {}
      BY <2>3, <3>1 DEF Publishing, ActivePublishes
    <3>4. \A m \in Handed : m <= e.no
      BY <1>1, <1>3 DEF Entering
    <3> QED BY <1>3, <2>5, <3>2, <3>3, <3>4 DEF OnePublishAtATime
  <2>9. TakenInOrder'
    <3> SUFFICES ASSUME deferred PROVE TakenInOrder'
      BY DEF TakenInOrder
    <3>1. \A m \in (Handed \cup Publishing)' : \A i \in DOMAIN queue' : m < queue'[i].no
      BY <1>3, <2>5 DEF Entering
    <3>2. \A i \in ActivePublishes' : calls'[i].next = 1 => i = n
      BY <2>4 DEF Entering
    <3>3. \A m \in Handed : m < calls'[n].event.no
      BY <2>2, <2>3 DEF Entering
    <3> QED BY <1>3, <2>3, <3>1, <3>2, <3>3 DEF TakenInOrder
  <2> QED BY <1>4, <2>6, <2>7, <2>8, <2>9 DEF DInv
<1> QED BY <1>6, <1>7

\* SyncEventBus::publish, and one iteration of dispatch()
\* (SyncEventBus.hpp:32-36, AsyncEventBus.hpp:46-55).
LEMMA PublishDelivery ==
  ASSUME DInv, BInv', DispatchNext \/ \E t \in Types : PublishNow(t)
  PROVE  DInv'
<1>1. /\ BInv /\ Handed \subseteq Nat /\ Publishing \subseteq Nat /\ published \in Nat
      /\ \A i \in DOMAIN queue : queue[i] \in Event /\ queue[i].no \in Nat
  BY EventNumbers DEF DInv
<1>2. /\ \A i \in DOMAIN queue : queue[i].no <= published
      /\ \A i, j \in DOMAIN queue : i < j => queue[i].no < queue[j].no
      /\ \A m \in Handed \cup Publishing :
           m <= published /\ \A i \in DOMAIN queue : queue[i].no # m
  BY DEF DInv, EachEventOnce
<1>3. ASSUME NEW t \in Types, PublishNow(t)
      PROVE  DInv'
  <2> DEFINE e == NewEvent(t)
  <2>1. /\ StorePublish(e, calls) /\ ~deferred /\ published' = published + 1
        /\ UNCHANGED <<deferred, slots, wants, queue, received, nested>>
    BY <1>3 DEF PublishNow, historyVars
  <2>2. e \in Event /\ e.no = published + 1
    BY <1>1 DEF NewEvent, Event
  <2>3. \A m \in Nat : m <= published => m # published + 1 /\ m <= published + 1
    BY <1>1
  <2> HIDE DEF e
  <2>4. Entering(e)
    <3>1. e.no \notin Handed \cup Publishing /\ e.no <= published'
      BY <1>1, <1>2, <2>1, <2>2, <2>3
    <3>2. \A i \in DOMAIN queue' : /\ queue'[i].no <= published' /\ queue'[i].no # e.no
                                   /\ queue'[i].no \notin Handed \cup Publishing
      BY <1>1, <1>2, <2>1, <2>2, <2>3
    <3>3. published <= published'
      BY <1>1, <2>1
    <3> QED BY <1>2, <2>1, <3>1, <3>2, <3>3 DEF Entering
  <2> QED BY <2>1, <2>2, <2>4, EnterDelivery
<1>4. CASE DispatchNext
  <2> DEFINE e == Head(queue)
             l == Len(queue)
  <2>1. /\ StorePublish(e, calls) /\ queue # <<>> /\ queue' = Tail(queue)
        /\ calls # <<>> /\ Last(calls).kind = "dispatch"
        /\ UNCHANGED <<deferred, slots, wants, published, received, nested>>
    BY <1>4 DEF DispatchNext, InDispatch, historyVars
  <2>2. /\ l \in Nat \ {0} /\ DOMAIN queue = 1 .. l /\ DOMAIN queue' = 1 .. l - 1
        /\ e = queue[1] /\ \A i \in 1 .. l - 1 : queue'[i] = queue[i + 1]
    <3>1. queue \in Seq(Event)
      BY <1>1 DEF BInv, BusTypeOK
    <3> QED BY <2>1, <3>1, HeadTailProperties, EmptySeq, LenProperties
  <2>3. \A i \in 1 .. l - 1 : i + 1 \in 1 .. l /\ 1 < i + 1
    BY <2>2
  <2>4. 1 \in 1 .. l
    BY <2>2
  <2> HIDE DEF e, l
  <2>5. e \in Event /\ e.no = queue[1].no
    BY <1>1, <2>2, <2>4
  <2>6. \A i \in DOMAIN queue' : /\ queue'[i].no <= published' /\ e.no < queue'[i].no
                                 /\ queue'[i].no \in Nat
                                 /\ queue'[i].no \notin Handed \cup Publishing
    <3> SUFFICES ASSUME NEW i \in 1 .. l - 1
                 PROVE  /\ queue'[i].no <= published' /\ e.no < queue'[i].no
                        /\ queue'[i].no \in Nat
                        /\ queue'[i].no \notin Handed \cup Publishing
      BY <2>2
    <3>1. /\ i + 1 \in DOMAIN queue /\ 1 \in DOMAIN queue /\ 1 < i + 1
          /\ queue'[i] = queue[i + 1]
      BY <2>2, <2>3, <2>4
    <3>2. queue[i + 1].no \in Nat /\ queue[i + 1].no <= published /\ published' = published
      BY <1>1, <1>2, <2>1, <3>1
    <3>3. e.no < queue[i + 1].no
      BY <1>2, <2>2, <3>1
    <3>4. queue[i + 1].no \notin Handed \cup Publishing
      BY <1>2, <3>1
    <3> QED BY <3>1, <3>2, <3>3, <3>4
  <2>7. \A i, j \in DOMAIN queue' : i < j => queue'[i].no < queue'[j].no
    <3> SUFFICES ASSUME NEW i \in 1 .. l - 1, NEW j \in 1 .. l - 1, i < j
                 PROVE  queue'[i].no < queue'[j].no
      BY <2>2
    <3>1. i + 1 < j + 1
      OBVIOUS
    <3> QED BY <1>2, <2>2, <2>3, <3>1
  <2>8. ASSUME deferred, ~nested
        PROVE  Len(calls) = 1 /\ calls[1].kind = "dispatch"
    <3>1. Len(calls) <= 2
          /\ \A i \in DOMAIN calls : calls[i].kind = IF i = 1 THEN "dispatch" ELSE "publish"
      BY <2>8 DEF DInv, OnePublishAtATime
    <3>2. /\ Len(calls) \in Nat \ {0} /\ Last(calls) = calls[Len(calls)]
          /\ DOMAIN calls = 1 .. Len(calls)
      BY <1>1, <2>1, TopOfStack, LenProperties DEF BInv, BusTypeOK
    <3>3. Len(calls) = 1
      <4>1. Len(calls) \in DOMAIN calls
        BY <3>2
      <4>2. calls[Len(calls)].kind = "dispatch"
        BY <2>1, <3>2
      <4> QED BY <3>1, <4>1, <4>2
    <3>4. calls[1].kind = "dispatch"
      BY <2>1, <3>2, <3>3
    <3> QED BY <3>3, <3>4
  <2>9. ASSUME deferred
        PROVE  /\ \A n \in Handed : n < e.no
               /\ \A n \in Handed \cup Publishing \cup {e.no} :
                    \A i \in DOMAIN queue' : n < queue'[i].no
               /\ \A i \in ActivePublishes : calls[i].next # 1
    <3>1. \A n \in Handed \cup Publishing : \A i \in 1 .. l : n < queue[i].no
      BY <2>2, <2>9 DEF DInv, TakenInOrder
    <3>2. \A n \in Handed : n < e.no
      BY <2>4, <2>5, <3>1
    <3>3. \A n \in Handed \cup Publishing : \A i \in DOMAIN queue' : n < queue'[i].no
      BY <2>2, <2>3, <3>1
    <3>4. \A i \in ActivePublishes : i # Len(calls)
      <4>1. Last(calls) = calls[Len(calls)]
        BY <1>1, <2>1, TopOfStack DEF BInv, BusTypeOK
      <4> QED BY <2>1, <4>1 DEF ActivePublishes
    <3>5. \A i \in ActivePublishes : calls[i].next # 1
      BY <2>9, <3>4 DEF DInv, TakenInOrder
    <3> QED BY <2>6, <3>2, <3>3, <3>5
  <2>10. Entering(e)
    <3>1. e.no \notin Handed \cup Publishing /\ e.no <= published'
      BY <1>2, <2>1, <2>2, <2>4, <2>5
    <3>2. published <= published'
      BY <1>1, <2>1
    <3>3. \A i \in DOMAIN queue' : queue'[i].no # e.no
      BY <2>5, <2>6 DEF Event
    <3> QED BY <2>6, <2>7, <2>8, <2>9, <3>1, <3>2, <3>3 DEF Entering
  <2> QED BY <2>1, <2>5, <2>10, EnterDelivery
<1> QED BY <1>3, <1>4

\* A callback is given the event: those before it have it, it has not
\* (SubscribersStorage.hpp:112-115).
LEMMA InvokeDelivery ==
  ASSUME DInv, BInv', InvokeNext
  PROVE  DInv'
<1> DEFINE l == Len(calls)
           r == Len(received) + 1
           call == calls[l]
           who == Audience(call)[call.next]
           next == [call EXCEPT !.next = @ + 1]
<1>1. /\ BInv /\ CastsAreSound' /\ DOMAIN received = 1 .. r - 1 /\ r \in Nat \ {0}
      /\ Handed \subseteq Nat /\ Publishing \subseteq Nat
      /\ \A i \in ActivePublishes : calls[i].event \in Event /\ calls[i].next \in Nat \ {0}
  BY EventNumbers DEF DInv, BInv
<1>2. /\ calls # <<>> /\ Last(calls).kind = "publish"
      /\ Last(calls).next <= Len(Audience(Last(calls)))
      /\ received' = Append(received, [by |-> Audience(Last(calls))[Last(calls).next],
                                       event |-> Last(calls).event])
      /\ calls' = Append(Front(calls), [Last(calls) EXCEPT !.next = @ + 1])
      /\ UNCHANGED <<deferred, indexOf, slots, wants, queue, published, nested>>
  BY DEF InvokeNext, storageVars
<1>3. /\ l \in Nat \ {0} /\ Last(calls) = call /\ call \in Call /\ DOMAIN calls = 1 .. l
      /\ Front(calls) \in Seq(Call) /\ Len(Front(calls)) = l - 1
      /\ \A i \in 1 .. l - 1 : Front(calls)[i] = calls[i]
  BY <1>1, <1>2, TopOfStack, LenProperties DEF BInv, BusTypeOK
<1>4. PICK e \in Event : e = call.event
  BY <1>1, <1>2, <1>3, TopHasAudience
<1>5. /\ l \in ActivePublishes /\ e \in Event /\ e.no \in Nat /\ call.next \in Nat \ {0}
      /\ indexOf[e.type] \in DOMAIN slots
      /\ Audience(call) = slots[indexOf[e.type]] /\ Audience(call) \in Seq(Callbacks)
      /\ call.next \in DOMAIN Audience(call) /\ who \in Callbacks
  <2>1. /\ l \in ActivePublishes /\ e \in Event /\ call.next \in Nat \ {0}
        /\ indexOf[e.type] \in 1 .. Len(slots)
        /\ Audience(call) = slots[indexOf[e.type]] /\ Audience(call) \in Seq(Callbacks)
    BY <1>1, <1>2, <1>3, <1>4, TopHasAudience
  <2>2. e.no \in Nat
    BY <2>1 DEF Event
  <2>3. call.next \in DOMAIN Audience(call) /\ who \in Callbacks
    BY <1>2, <1>3, <2>1
  <2>4. DOMAIN slots = 1 .. Len(slots)
    BY <1>1, LenProperties DEF BInv, BusTypeOK
  <2> QED BY <2>1, <2>2, <2>3, <2>4
<1>6. next \in Call /\ next.kind = "publish" /\ next.event = e /\ next.next = call.next + 1
  <2>1. call \in [kind : {"publish"}, event : Event, next : Nat \ {0}]
    BY <1>2, <1>3 DEF Call
  <2>2. next \in [kind : {"publish"}, event : Event, next : Nat \ {0}]
        /\ next.event = e /\ next.next = call.next + 1
    BY <1>4, <2>1
  <2> QED BY <2>2 DEF Call
<1>7. /\ received' = Append(received, [by |-> who, event |-> e])
      /\ calls' = Append(Front(calls), next)
  BY <1>2, <1>3, <1>4
<1>8. /\ DOMAIN received' = 1 .. r /\ received'[r].by = who /\ received'[r].event = e
      /\ \A k \in 1 .. r - 1 : received'[k] = received[k]
  <2>1. received \in Seq([by : Callbacks, event : Event])
        /\ [by |-> who, event |-> e] \in [by : Callbacks, event : Event]
    BY <1>1, <1>5 DEF BInv, BusTypeOK
  <2> QED BY <1>7, <2>1, AppendProperties
<1> HIDE DEF r, call, who, next
<1>9. /\ Len(calls') = l /\ DOMAIN calls' = 1 .. l /\ calls'[l] = next
      /\ \A i \in 1 .. l - 1 : calls'[i] = calls[i]
  <2>1. Front(calls) \in Seq(Call) /\ next \in Call /\ Len(Front(calls)) + 1 = l
    BY <1>3, <1>6
  <2>2. /\ Len(calls') = Len(Front(calls)) + 1
        /\ DOMAIN calls' = 1 .. Len(Front(calls)) + 1 /\ calls'[Len(Front(calls)) + 1] = next
        /\ \A i \in 1 .. Len(Front(calls)) : calls'[i] = Front(calls)[i]
    BY <1>7, <2>1, AppendProperties
  <2> QED BY <1>3, <2>1, <2>2
<1> HIDE DEF l
<1>10. ActivePublishes' = ActivePublishes
      /\ \A i \in ActivePublishes : calls'[i].event = calls[i].event
  <2>1. \A i \in 1 .. l : calls'[i].kind = "publish" <=> calls[i].kind = "publish"
    <3>1. calls'[l].kind = "publish" /\ calls[l].kind = "publish"
      BY <1>2, <1>3, <1>6, <1>9 DEF call
    <3> QED BY <1>3, <1>9, <3>1
  <2>2. ActivePublishes' = ActivePublishes
    BY <1>3, <1>9, <2>1 DEF ActivePublishes
  <2>3. calls'[l].event = calls[l].event
    BY <1>6, <1>9, <1>4 DEF call
  <2> QED BY <1>3, <1>9, <2>2, <2>3 DEF ActivePublishes
<1>11. Publishing' = Publishing /\ e.no \in Publishing
  BY <1>4, <1>5, <1>10 DEF Publishing, call
<1>12. Handed' = Handed \cup {e.no}
  <2>1. \A k \in 1 .. r : k \in 1 .. r - 1 \/ k = r
    BY <1>1
  <2>2. r \in 1 .. r /\ \A k \in 1 .. r - 1 : k \in 1 .. r
    BY <1>1
  <2> QED BY <1>1, <1>8, <2>1, <2>2 DEF Handed
<1>13. EachEventOnce'
  BY <1>1, <1>2, <1>10, <1>11, <1>12, EventsStay DEF DInv
<1>14. InOneSlot'
  BY <1>2 DEF DInv, InOneSlot
<1>15. /\ \A f \in Event : f.no # e.no => Deliveries(f)' = Deliveries(f)
       /\ Deliveries(e)' = Deliveries(e) \cup {r} /\ r \notin Deliveries(e)
       /\ IsFiniteSet(Deliveries(e)) /\ \A k \in Deliveries(e) : k \in 1 .. r - 1
  <2>1. \A k \in 1 .. r : k \in 1 .. r - 1 \/ k = r
    BY <1>1
  <2>2. r \in 1 .. r /\ r \notin 1 .. r - 1 /\ r - 1 \in Nat /\ \A k \in 1 .. r - 1 : k \in 1 .. r
    BY <1>1
  <2>3. \A f \in Event : f.no # e.no => Deliveries(f)' = Deliveries(f)
    BY <1>1, <1>8, <2>1, <2>2 DEF Deliveries
  <2>4. Deliveries(e)' = Deliveries(e) \cup {r}
    BY <1>1, <1>8, <2>1, <2>2 DEF Deliveries
  <2>5. Deliveries(e) \subseteq 1 .. r - 1
    BY <1>1 DEF Deliveries
  <2>6. IsFiniteSet(Deliveries(e))
    <3>1. IsFiniteSet(1 .. r - 1)
      BY <2>2, FS_Interval
    <3> HIDE DEF r
    <3> QED BY <2>5, <3>1, FS_Subset
  <2> QED BY <2>2, <2>3, <2>4, <2>5, <2>6
<1>16. /\ Cardinality(Deliveries(e)) = call.next - 1
       /\ \A k \in Deliveries(e) : received[k].by =
            Audience(call)[Cardinality({j \in Deliveries(e) : j <= k})]
  BY <1>4, <1>5 DEF DInv, DeliveredOnce, call
<1>17. DeliveredOnce'
  <2> SUFFICES ASSUME NEW i \in ActivePublishes
               PROVE  LET Got == Deliveries(calls[i].event)' IN
                        /\ Cardinality(Got) = calls'[i].next - 1
                        /\ \A k \in Got : received'[k].by =
                             Audience(calls[i])'[Cardinality({j \in Got : j <= k})]
    BY <1>1, <1>10 DEF DeliveredOnce
  <2>1. CASE i = l
    <3> DEFINE Old == Deliveries(e)
               New == Old \cup {r}
    <3>1. calls'[i].event = e /\ calls'[i].next = call.next + 1
      BY <1>6, <1>9, <2>1
    <3>2. Deliveries(calls[i].event)' = New
      BY <1>15, <3>1 DEF Deliveries
    <3>3. Audience(calls[i])' = Audience(call)
      BY <1>2, <2>1, <3>1, <1>4 DEF Audience, call
    <3>4. r \notin Old /\ IsFiniteSet(Old) /\ \A k \in Old : k \in 1 .. r - 1
      BY <1>15
    <3>5. Cardinality(Old) = call.next - 1
      BY <1>16
    <3>6. \A k \in Old : received[k].by = Audience(call)[Cardinality({j \in Old : j <= k})]
      BY <1>16
    <3> HIDE DEF Old
    <3>7. Cardinality(New) = call.next
      <4>1. Cardinality(New) = Cardinality(Old) + 1
        BY <3>4, FS_AddElement
      <4> QED BY <1>5, <3>5, <4>1
    <3>8. \A k \in New : received'[k].by = Audience(call)[Cardinality({j \in New : j <= k})]
      <4> SUFFICES ASSUME NEW k \in New
                   PROVE  received'[k].by = Audience(call)[Cardinality({j \in New : j <= k})]
        OBVIOUS
      <4>1. CASE k = r
        <5>1. {j \in New : j <= r} = New
          BY <1>1, <3>4
        <5> QED BY <1>8, <3>7, <4>1, <5>1 DEF who
      <4>2. CASE k # r
        <5>1. k \in Old /\ k \in 1 .. r - 1 /\ ~(r <= k)
          BY <1>1, <3>4, <4>2
        <5>2. {j \in New : j <= k} = {j \in Old : j <= k}
          BY <5>1
        <5> QED BY <1>8, <3>6, <5>1, <5>2
      <4> QED BY <4>1, <4>2
    <3> HIDE DEF New
    <3>9. Cardinality(New) = calls'[i].next - 1
      BY <1>5, <3>1, <3>7
    <3> QED BY <3>2, <3>3, <3>8, <3>9
  <2>2. CASE i # l
    <3>1. calls'[i] = calls[i] /\ calls[i].event \in Event
      BY <1>1, <1>3, <1>9, <2>2 DEF ActivePublishes
    <3>2. calls[i].event.no # e.no
      BY <1>5, <2>2, <1>4 DEF DInv, EachEventOnce, call
    <3>3. Deliveries(calls[i].event)' = Deliveries(calls[i].event)
      BY <1>15, <3>1, <3>2 DEF Deliveries
    <3>4. Audience(calls[i])' = Audience(calls[i])
      BY <1>2, <3>1 DEF Audience
    <3>5. \A k \in Deliveries(calls[i].event) : received'[k] = received[k]
      BY <1>1, <1>8 DEF Deliveries
    <3> QED BY <3>1, <3>3, <3>4, <3>5 DEF DInv, DeliveredOnce
  <2> QED BY <2>1, <2>2
<1>18. OnePublishAtATime'
  <2> SUFFICES ASSUME deferred, ~nested PROVE OnePublishAtATime'
    BY <1>2 DEF OnePublishAtATime
  <2>1. /\ Len(calls) <= 2
        /\ \A i \in DOMAIN calls : calls[i].kind = IF i = 1 THEN "dispatch" ELSE "publish"
        /\ \A m \in Publishing : \A n \in Handed : n <= m
    BY DEF DInv, OnePublishAtATime
  <2>2. \A i \in DOMAIN calls' : calls'[i].kind = calls[i].kind
    BY <1>2, <1>3, <1>6, <1>9 DEF call
  <2>3. \A m \in Publishing : m = e.no
    <3>1. \A i \in ActivePublishes : i = 2
      BY <1>3, <2>1 DEF ActivePublishes, l
    <3> QED BY <1>5, <3>1, <1>4 DEF Publishing, call
  <2>4. e.no <= e.no
    BY <1>5
  <2>5. \A m \in Publishing' : \A n \in Handed' : n <= m
    BY <1>11, <1>12, <2>1, <2>3, <2>4
  <2>6. Len(calls') <= 2
    BY <1>9, <2>1 DEF l
  <2>7. \A i \in DOMAIN calls' : calls'[i].kind = IF i = 1 THEN "dispatch" ELSE "publish"
    BY <1>3, <1>9, <2>1, <2>2
  <2> QED BY <2>5, <2>6, <2>7 DEF OnePublishAtATime
<1>19. ASSUME deferred, ~nested, NEW j \in 1 .. r - 1, received[j].by = who
       PROVE  received[j].event.no < e.no
  <2>1. received[j].event.no \in Handed
    BY <1>1 DEF Handed
  <2>2. received[j].event.no <= e.no
    BY <1>11, <1>19, <2>1 DEF DInv, OnePublishAtATime
  <2>3. received[j].event.no # e.no
    <3> SUFFICES ASSUME received[j].event.no = e.no PROVE FALSE
      OBVIOUS
    <3> DEFINE Old == Deliveries(e)
               c == Cardinality({k \in Old : k <= j})
    <3>1. j \in Old
      BY <1>1 DEF Deliveries
    <3>2. received[j].by = Audience(call)[c]
      BY <1>16, <3>1
    <3>3. c \in Nat /\ c <= call.next - 1 /\ c # 0
      <4> DEFINE Up == {k \in Old : k <= j}
      <4>1. Up \subseteq Old /\ j \in Up
        BY <3>1
      <4>2. IsFiniteSet(Old)
        BY <1>15
      <4> HIDE DEF Up, Old
      <4>3. IsFiniteSet(Up) /\ Cardinality(Up) <= Cardinality(Old)
        BY <4>1, <4>2, FS_Subset
      <4>4. Cardinality(Up) \in Nat /\ Cardinality(Up) # 0
        BY <4>1, <4>3, FS_CardinalityType, FS_EmptySet
      <4> QED BY <1>16, <4>3, <4>4 DEF Up, Old
    <3> HIDE DEF c
    <3>4. c \in DOMAIN Audience(call) /\ c # call.next
      BY <1>5, <3>3
    <3>5. Audience(call)[c] = Audience(call)[call.next]
      BY <1>19, <3>2 DEF who
    <3> QED BY <1>5, <3>4, <3>5 DEF DInv, InOneSlot
  <2>4. \A a, b \in Nat : a <= b /\ a # b => a < b
    OBVIOUS
  <2> QED BY <1>1, <1>5, <2>1, <2>2, <2>3, <2>4
<1>20. TakenInOrder'
  <2> SUFFICES ASSUME deferred PROVE TakenInOrder'
    BY <1>2 DEF TakenInOrder
  <2>1. \A n \in (Handed \cup Publishing)' : \A i \in DOMAIN queue' : n < queue'[i].no
    BY <1>2, <1>11, <1>12 DEF DInv, TakenInOrder
  <2>2. \A i \in ActivePublishes : calls'[i].next # 1
    <3>1. calls'[l].next # 1
      BY <1>5, <1>6, <1>9
    <3>2. \A i \in ActivePublishes : i # l => calls'[i] = calls[i] /\ calls[i].next # 1
      BY <1>3, <1>9 DEF DInv, TakenInOrder, ActivePublishes, l
    <3> QED BY <3>1, <3>2
  <2> QED BY <1>10, <2>1, <2>2 DEF TakenInOrder
<1>21. ASSUME deferred, NEW j \in 1 .. r - 1, e.no < received[j].event.no
       PROVE  \E i \in 1 .. r - 1 : i < j /\ received[i].event.no = e.no
  <2>1. received[j].event.no \in Handed /\ received[j].event.no \in Nat /\ j \in Nat
    BY <1>1 DEF Handed
  <2>2. call.next # 1
    <3> SUFFICES ASSUME call.next = 1 PROVE FALSE
      OBVIOUS
    <3>1. received[j].event.no < e.no
      BY <1>4, <1>5, <1>21, <2>1 DEF DInv, TakenInOrder, call
    <3> QED BY <1>5, <1>21, <2>1, <3>1
  <2>3. PICK p \in 1 .. r - 1 : received[p].event.no = e.no
    <3>1. Cardinality(Deliveries(e)) # 0
      BY <1>5, <1>16, <2>2
    <3>2. Deliveries(e) # {}
      BY <3>1, FS_EmptySet
    <3> QED BY <1>1, <3>2 DEF Deliveries
  <2>4. CASE p < j
    BY <2>3, <2>4
  <2>5. CASE p = j
    BY <1>5, <1>21, <2>3, <2>5
  <2>6. CASE j < p
    BY <1>1, <1>21, <2>3, <2>6 DEF DInv, SeenInOrder
  <2> QED BY <1>1, <2>4, <2>5, <2>6
<1>22. SeenInOrder'
  <2> SUFFICES ASSUME deferred, NEW j \in 1 .. r, NEW k \in 1 .. r, j < k
               PROVE  /\ received'[k].event.no < received'[j].event.no =>
                           \E i \in 1 .. r : i < j /\ received'[i].event.no = received'[k].event.no
                      /\ ~nested /\ received'[j].by = received'[k].by =>
                           received'[j].event.no < received'[k].event.no
    <3>1. deferred' = deferred /\ nested' = nested /\ DOMAIN received' = 1 .. r
      BY <1>2, <1>8
    <3> QED BY <3>1, Zenon DEF SeenInOrder
  <2>1. j \in 1 .. r - 1 /\ \A i \in 1 .. r - 1 : i \in 1 .. r /\ received'[i] = received[i]
    BY <1>1, <1>8
  <2>2. CASE k = r
    BY <1>8, <1>19, <1>21, <2>1, <2>2
  <2>3. CASE k # r
    <3>1. k \in 1 .. r - 1
      BY <1>1, <2>3
    <3>2. received[k].event.no < received[j].event.no =>
            \E i \in 1 .. r - 1 : i < j /\ received[i].event.no = received[k].event.no
      BY <1>1, <2>1, <3>1 DEF DInv, SeenInOrder
    <3>3. ~nested /\ received[j].by = received[k].by => received[j].event.no < received[k].event.no
      BY <1>1, <2>1, <3>1 DEF DInv, SeenInOrder
    <3> QED BY <2>1, <3>1, <3>2, <3>3
  <2> QED BY <2>2, <2>3
<1> QED BY <1>13, <1>14, <1>17, <1>18, <1>20, <1>22 DEF DInv

\* A bus that was not used yet has delivered nothing.
LEMMA DeliveryInit == Init => DInv
<1> SUFFICES ASSUME Init PROVE DInv
  OBVIOUS
<1>1. Handed = {} /\ Publishing = {} /\ ActivePublishes = {}
  BY DEF Init, Handed, Publishing, ActivePublishes
<1>2. BInv
  BY BusInitEstablishes
<1>3. EachEventOnce /\ InOneSlot /\ TakenInOrder /\ OnePublishAtATime
  BY <1>1 DEF Init, EachEventOnce, InOneSlot, TakenInOrder, OnePublishAtATime
<1>4. DeliveredOnce /\ SeenInOrder
  BY <1>1, <1>2 DEF Init, DeliveredOnce, SeenInOrder, BInv
<1> QED BY <1>2, <1>3, <1>4 DEF DInv

\* Every step of a bus and of its callbacks delivers each event once and in order.
LEMMA DeliveryStepKeeps == DInv /\ [Next]_vars => DInv'
<1> SUFFICES ASSUME DInv, [Next]_vars PROVE DInv'
  OBVIOUS
<1>1. BInv'
  BY BusStepKeeps DEF DInv
<1>2. CASE UNCHANGED vars
  <2>1. UNCHANGED <<deferred, indexOf, slots, wants, queue, calls, published, received, nested>>
    BY <1>2 DEF vars, storageVars, historyVars
  <2>2. TakenInOrder' /\ OnePublishAtATime' /\ ActivePublishes' = ActivePublishes
    BY <2>1 DEF DInv, TakenInOrder, OnePublishAtATime, Publishing, Handed, ActivePublishes
  <2> QED BY <1>1, <2>1, <2>2, QuietDelivery
<1> QED
  BY <1>1, <1>2, SubscribeDelivery, UsedElsewhereDelivery, PublishDelivery,
     PublishLaterDelivery, DispatchDelivery, ClearDelivery, InvokeDelivery, ReturnDelivery
     DEF Next, BusRuns

\* DInv is an inductive invariant of a bus and its callbacks.
THEOREM DeliveryInvariance == Spec => []DInv
BY DeliveryInit, DeliveryStepKeeps, PTL DEF Spec

\* An event is given to each callback of its type once and in the order of their
\* subscription, at any depth of callbacks that publish, dispatch, subscribe or clear
\* (SubscribersStorage.hpp:96-129, AsyncEventBus.hpp:46-55).
THEOREM EachDeliveredOnce == Spec => []DeliveredOnce
<1>1. DInv => DeliveredOnce
  BY DEF DInv
<1> QED BY <1>1, DeliveryInvariance, PTL

\* An AsyncEventBus starts the events in the order of their publication, also where
\* callbacks dispatch, and shows them to each callback in that order as long as none does
\* (AsyncEventBus.hpp:38-55).
THEOREM InOrderOfPublication == Spec => []SeenInOrder
<1>1. DInv => SeenInOrder
  BY DEF DInv
<1> QED BY <1>1, DeliveryInvariance, PTL
===============================================================================
