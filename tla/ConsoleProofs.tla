--------------------------- MODULE ConsoleProofs ----------------------------
(***************************************************************************)
(* Theorems of Console, for any number of requests, clicks and handlers    *)
(* that wait at once: no codes are lost, the page never runs ahead of the  *)
(* chain, the bid it picked is the bid it accepts, and a refresh that      *)
(* nothing disturbs puts the page right.                                   *)
(***************************************************************************)
EXTENDS Console, MarketProofs

-----------------------------------------------------------------------------
(* The next await of a plan.                                               *)

\* A finite set of numbers has a least one.
LEMMA LeastExists ==
  ASSUME NEW S, IsFiniteSet(S), S \subseteq Nat, S # {}
  PROVE  Min(S) \in S /\ \A i \in S : Min(S) <= i
BY LeastOfFinite DEF Min

Awaits == {"send", "list", "details", "status", "bids", "rank", "adopt"}

\* Steps that take what the click gave them.
Acts == {"send", "rank"}

\* A handler is a record, and acts at most once: first of all.
Shape(h) ==
    /\ h = [name |-> h.name, plan |-> h.plan, arg |-> h.arg, answer |-> h.answer,
            event |-> h.event, alone |-> h.alone]
    /\ h.plan \in Seq(Awaits)
    /\ \A i \in DOMAIN h.plan : i > 1 => h.plan[i] \notin Acts

\* The codes on their way to the registry are those in the browser's storage.
CodesOf(h, storage) ==
    h.name = "publishHashes" /\ h.plan # <<>> /\ h.plan[1] = "send" =>
        /\ h.arg.id \in Ids
        /\ h.arg.codes = storage[h.arg.id] /\ h.arg.codes # 0

Waits(h, storage) == Shape(h) /\ h.plan # <<>> /\ CodesOf(h, storage)

Sound(running, storage) ==
    /\ running = [t \in Slots |-> running[t]]
    /\ \A t \in Slots : running[t] # Nothing =>
         Waits(running[t], storage)

PageShape(p) ==
    /\ p = [on |-> p.on, id |-> p.id, vault |-> p.vault, index |-> p.index,
            codes |-> p.codes, pick |-> p.pick]
    /\ p.id \in Ids \cup {Nothing}

\* A handler at its next await, with rest to do and the fields p.
Waiting(h, rest, p) ==
    [name |-> h.name, plan |-> rest, arg |-> Asked(Head(rest), p, h.arg),
     answer |-> Nothing, event |-> h.event, alone |-> h.alone]

\* To run on to the next await: the plan loses the steps that return before
\* they wait, and the fields are read for the first that does not.
RunsTo(running, t, h, p, rest, k) ==
    LET to(r) == handlers' = [running EXCEPT ![t] = r]
    IN  /\ \A i \in 1..k - 1 : Skipped(h.plan[i], p)
        /\ DOMAIN rest = 1..Len(h.plan) - k + 1
        /\ \A i \in DOMAIN rest : rest[i] = h.plan[i + k - 1]
        /\ rest # <<>> => ~Skipped(rest[1], p)
        /\ \/ rest = <<>> /\ page' = p /\ to(Nothing)
           \/ rest = <<"adopt">> /\ page' = Adopt(p, h.event) /\ to(Nothing)
           \/ rest \notin {<<>>, <<"adopt">>} /\ page' = p /\ to(Waiting(h, rest, p))

LEMMA RunsOn ==
  ASSUME NEW running, NEW t, NEW h, NEW p, RunOn(running, t, h, p), Shape(h)
  PROVE  \E rest \in Seq(Awaits), k \in 1..Len(h.plan) + 1 :
           RunsTo(running, t, h, p, rest, k)
<1> DEFINE n == Len(h.plan)
           due == {i \in DOMAIN h.plan : ~Skipped(h.plan[i], p)}
           rest == IF due = {} THEN <<>> ELSE SubSeq(h.plan, Min(due), n)
           adopts == rest = <<"adopt">>
           a == Asked(Head(rest), p, h.arg)
           next == Waiting(h, rest, p)
<1>0. n \in Nat /\ DOMAIN h.plan = 1..n /\ h.plan \in Seq(Awaits)
  BY DEF Shape
<1>1. /\ page' = IF adopts THEN Adopt(p, h.event) ELSE p
      /\ handlers' = [running EXCEPT ![t] =
             IF adopts \/ rest = <<>> THEN Nothing
             ELSE [h EXCEPT !.plan = rest, !.arg = a, !.answer = Nothing]]
  BY DEF RunOn
<1>2. [h EXCEPT !.plan = rest, !.arg = a, !.answer = Nothing] = next
  <2> DEFINE e == [h EXCEPT !.plan = rest, !.arg = a, !.answer = Nothing]
  <2>1. /\ e = [h EXCEPT !.plan = rest, !.arg = a, !.answer = Nothing]
        /\ next = [name |-> h.name, plan |-> rest, arg |-> a, answer |-> Nothing,
                   event |-> h.event, alone |-> h.alone]
    BY DEF Waiting
  <2> HIDE DEF rest, a, e, next
  <2>2. e = [name |-> h.name, plan |-> rest, arg |-> a, answer |-> Nothing,
             event |-> h.event, alone |-> h.alone]
    BY <2>1 DEF Shape
  <2> QED BY <2>1, <2>2 DEF e
<1>3. PICK k \in 1..n + 1 :
        /\ \A i \in 1..k - 1 : Skipped(h.plan[i], p)
        /\ rest \in Seq(Awaits) /\ DOMAIN rest = 1..n - k + 1
        /\ \A i \in DOMAIN rest : rest[i] = h.plan[i + k - 1]
        /\ rest # <<>> => ~Skipped(rest[1], p)
  <2>1. CASE due = {}
    <3>1. rest = <<>> /\ rest \in Seq(Awaits) /\ n + 1 \in 1..n + 1
      BY <1>0, <2>1
    <3>2. \A i \in 1..(n + 1) - 1 : Skipped(h.plan[i], p)
      BY <1>0, <2>1
    <3>3. DOMAIN rest = 1..n - (n + 1) + 1
      <4>1. n - (n + 1) + 1 = 0 /\ DOMAIN <<>> = 1..0
        BY <1>0
      <4> QED BY <3>1, <4>1
    <3> HIDE DEF rest, n, due
    <3> QED BY <3>1, <3>2, <3>3
  <2>2. CASE due # {}
    <3> DEFINE k == Min(due)
    <3>1. due \subseteq 1..n /\ due \subseteq Nat /\ IsFiniteSet(due)
      <4>1. due \subseteq 1..n /\ due \subseteq Nat
        BY <1>0
      <4>2. IsFiniteSet(1..n)
        BY <1>0, FS_Interval
      <4> QED BY <4>1, <4>2, FS_Subset
    <3>2. k \in due /\ \A i \in due : k <= i
      BY <2>2, <3>1, LeastExists
    <3>3. \A i \in 1..k - 1 : i \notin due /\ i \in DOMAIN h.plan
      <4> HIDE DEF k, due, n
      <4> QED BY <1>0, <3>1, <3>2
    <3>4. \A i \in 1..k - 1 : Skipped(h.plan[i], p)
      BY <3>3
    <3>5. ~Skipped(h.plan[k], p)
      BY <3>2
    <3>6. rest = SubSeq(h.plan, k, n) /\ k \in 1..n
      BY <2>2, <3>1, <3>2
    <3> HIDE DEF due, k, n, rest
    <3>7. /\ rest \in Seq(Awaits) /\ DOMAIN rest = 1..(n - k + 1)
          /\ \A i \in 1..(n - k + 1) : rest[i] = h.plan[i + k - 1]
      BY <1>0, <3>6
    <3>8. rest[1] = h.plan[k] /\ k \in 1..n + 1
      BY <1>0, <3>6, <3>7
    <3> QED BY <3>4, <3>5, <3>7, <3>8
  <2> QED BY <2>1, <2>2
<1>4. \/ rest = <<>> /\ page' = p /\ handlers' = [running EXCEPT ![t] = Nothing]
      \/ rest = <<"adopt">> /\ page' = Adopt(p, h.event)
           /\ handlers' = [running EXCEPT ![t] = Nothing]
      \/ rest \notin {<<>>, <<"adopt">>} /\ page' = p
           /\ handlers' = [running EXCEPT ![t] = next]
  <2>1. <<>> # <<"adopt">>
    OBVIOUS
  <2> HIDE DEF rest, a, next
  <2> QED BY Zenon, <1>1, <1>2, <2>1
<1> HIDE DEF rest, n
<1> QED BY <1>3, <1>4 DEF n, RunsTo

\* What the click gave is for the first step only.
LEMMA ActsFirst ==
  ASSUME NEW running, NEW t, NEW h, NEW p, Shape(h),
         NEW rest \in Seq(Awaits), NEW k \in 1..Len(h.plan) + 1,
         RunsTo(running, t, h, p, rest, k)
  PROVE  /\ \A i \in DOMAIN rest : i > 1 => rest[i] \notin Acts
         /\ rest # <<>> /\ rest[1] \in Acts => h.plan # <<>> /\ h.plan[1] = rest[1]
<1>1. Len(h.plan) \in Nat /\ DOMAIN h.plan = 1..Len(h.plan)
  BY DEF Shape
<1>2. \A i \in DOMAIN rest : i > 1 => rest[i] \notin Acts
  <2> SUFFICES ASSUME NEW i \in DOMAIN rest, i > 1 PROVE rest[i] \notin Acts
    OBVIOUS
  <2>1. i + k - 1 \in DOMAIN h.plan /\ i + k - 1 > 1
    BY <1>1 DEF RunsTo
  <2> QED BY <2>1 DEF Shape, RunsTo
<1>3. rest # <<>> /\ rest[1] \in Acts => h.plan # <<>> /\ h.plan[1] = rest[1]
  <2> SUFFICES ASSUME rest # <<>>, rest[1] \in Acts
               PROVE  h.plan # <<>> /\ h.plan[1] = rest[1]
    OBVIOUS
  <2>1. 1 \in DOMAIN rest /\ k \in DOMAIN h.plan /\ rest[1] = h.plan[k]
    BY <1>1 DEF RunsTo
  <2>2. k = 1
    BY <1>1, <2>1 DEF Shape
  <2> QED BY <1>1, <2>1, <2>2
<1> QED BY <1>2, <1>3

\* To run on to the next await keeps handlers and page as they should be.
LEMMA RunOnSound ==
  ASSUME NEW running, NEW t \in Slots, NEW h, NEW p, NEW storage,
         RunOn(running, t, h, p), Sound(running, storage),
         Shape(h), CodesOf(h, storage), PageShape(p)
  PROVE  /\ PageShape(page')
         /\ Sound(handlers', storage)
<1>1. PICK rest \in Seq(Awaits), k \in 1..Len(h.plan) + 1 :
        RunsTo(running, t, h, p, rest, k)
  BY RunsOn
<1>2. PageShape(page')
  <2>1. PageShape(Adopt(p, h.event))
    BY DEF PageShape, Adopt, SetDelivery, SetVaultAddress
  <2> QED BY <1>1, <2>1 DEF RunsTo
<1>3. /\ \A i \in DOMAIN rest : i > 1 => rest[i] \notin Acts
      /\ rest # <<>> /\ rest[1] \in Acts => h.plan # <<>> /\ h.plan[1] = rest[1]
  BY <1>1, ActsFirst
<1>6. rest # <<>> => Waits(Waiting(h, rest, p), storage)
  <2> SUFFICES ASSUME rest # <<>> PROVE Waits(Waiting(h, rest, p), storage)
    OBVIOUS
  <2> DEFINE a == Asked(Head(rest), p, h.arg)
             new == Waiting(h, rest, p)
  <2>1. rest[1] = "send" => a = h.arg /\ h.plan # <<>> /\ h.plan[1] = "send"
    BY <1>3 DEF Asked, Acts
  <2>2. new.name = h.name /\ new.plan = rest /\ new.arg = a /\ Shape(new)
    <3>1. new = [name |-> h.name, plan |-> rest, arg |-> a, answer |-> Nothing,
                 event |-> h.event, alone |-> h.alone]
      BY DEF Waiting
    <3> HIDE DEF a, new
    <3> QED BY <1>1, <1>3, <3>1 DEF Shape
  <2> HIDE DEF a, new
  <2>3. CodesOf(new, storage)
    BY <2>1, <2>2 DEF CodesOf
  <2> QED BY <2>2, <2>3 DEF Waits, new
<1>7. Sound(handlers', storage)
  <2> QED BY <1>1, <1>6 DEF Sound, RunsTo
<1> QED BY <1>2, <1>7

-----------------------------------------------------------------------------
(* The invariant.                                                          *)

\* What is locked is kept, and what is on its way is kept: codes are stored
\* before they are sent, and never overwritten.
KeptInv ==
    /\ PageShape(page)
    /\ kept \in [Ids -> Nat] /\ locked \in [Ids -> Nat] /\ draws \in Nat
    /\ Sound(handlers, kept)
    /\ CodesAreKept

LEMMA KeptInit == ConsoleInit => KeptInv
<1> SUFFICES ASSUME ConsoleInit PROVE KeptInv
  OBVIOUS
<1>1. PICK start \in {Nothing} \cup {id \in Ids : id[2] = 1} :
         page = [on |-> start # Nothing, id |-> start, vault |-> Nothing, index |-> 1,
                 codes |-> 0, pick |-> Nothing]
  BY DEF ConsoleInit
<1>2. PageShape(page)
  BY <1>1 DEF PageShape
<1>3. MaxRequests \in Nat
  BY RegistryConstants
<1>4. locked = [id \in Ids |-> IF Opened(id) THEN id[2] ELSE 0] /\ kept = locked
      /\ draws = MaxRequests /\ handlers = [t \in Slots |-> Nothing]
  BY DEF ConsoleInit
<1>5. \A id \in Ids : id[2] \in Nat
  BY <1>3 DEF Ids
<1>6. locked \in [Ids -> Nat]
  BY <1>4, <1>5
<1> QED BY <1>2, <1>3, <1>4, <1>6 DEF KeptInv, Sound, CodesAreKept

\* Who waits is not changed by being disturbed, or by an answer.
LEMMA MarkWaits ==
  ASSUME NEW h, NEW storage, Waits(h, storage), NEW mark
  PROVE  /\ Waits([h EXCEPT !.alone = mark], storage)
         /\ Waits([h EXCEPT !.answer = mark], storage)
<1> DEFINE d == [h EXCEPT !.alone = mark]
           e == [h EXCEPT !.answer = mark]
<1>1. d = [name |-> h.name, plan |-> h.plan, arg |-> h.arg, answer |-> h.answer,
           event |-> h.event, alone |-> mark]
  BY DEF Waits, Shape
<1>2. e = [name |-> h.name, plan |-> h.plan, arg |-> h.arg, answer |-> mark,
           event |-> h.event, alone |-> h.alone]
  BY DEF Waits, Shape
<1> HIDE DEF d, e
<1>3. Waits(d, storage)
  BY <1>1 DEF Waits, Shape, CodesOf
<1>4. Waits(e, storage)
  BY <1>2 DEF Waits, Shape, CodesOf
<1> QED BY <1>3, <1>4 DEF d, e

LEMMA DisturbedSound ==
  ASSUME NEW storage, Sound(handlers, storage)
  PROVE  Sound(Disturbed, storage)
<1>1. Disturbed = [t \in Slots |-> Disturbed[t]]
  BY DEF Disturbed
<1>2. ASSUME NEW t \in Slots, Disturbed[t] # Nothing
      PROVE  Waits(Disturbed[t], storage)
  <2> DEFINE h == handlers[t]
             no == FALSE
  <2>1. h # Nothing /\ Disturbed[t] = [h EXCEPT !.alone = no]
    BY <1>2 DEF Disturbed
  <2>2. Waits(h, storage)
    BY <2>1 DEF Sound
  <2> HIDE DEF h, no
  <2>3. Waits([h EXCEPT !.alone = no], storage)
    BY <2>2, MarkWaits
  <2> QED BY <2>1, <2>3
<1> QED BY <1>1, <1>2 DEF Sound

\* A click that starts a handler.
LEMMA StartsSound ==
  ASSUME NEW storage, Sound(handlers, storage), NEW name, NEW plan, NEW arg, NEW p,
         Starts(name, plan, arg, p), PageShape(p),
         plan \in Seq(Awaits), \A i \in DOMAIN plan : i > 1 => plan[i] \notin Acts,
         name = "publishHashes" /\ plan # <<>> /\ plan[1] = "send" =>
           /\ arg.id \in Ids /\ arg.codes = storage[arg.id] /\ arg.codes # 0
  PROVE  PageShape(page') /\ Sound(handlers', storage)
<1> DEFINE h == Handler(name, plan, arg)
<1>1. PICK t \in Slots : RunOn(Disturbed, t, h, p)
  BY DEF Starts
<1>2. /\ h.name = name /\ h.plan = plan /\ h.arg = arg /\ Shape(h)
  BY DEF Handler, Shape
<1> HIDE DEF h
<1>3. CodesOf(h, storage)
  BY <1>2 DEF CodesOf
<1>4. Sound(Disturbed, storage)
  BY DisturbedSound
<1> QED BY <1>1, <1>2, <1>3, <1>4, RunOnSound

\* Plans that only read.
ReadOnly(plan) ==
    plan \in Seq(Awaits) /\ \A i \in DOMAIN plan : plan[i] \notin Acts

LEMMA ReadingPlans ==
  /\ ReadOnly(Refresh)
  /\ ReadOnly(<<"status">>) /\ ReadOnly(<<"bids">>)
  /\ ReadOnly(<<"adopt">>) /\ ReadOnly(<<>>)
  /\ ReadOnly(<<"details", "status", "bids">>)
<1>1. ReadOnly(<<"list", "details", "status">>)
  BY DEF ReadOnly, Awaits, Acts
<1>2. ReadOnly(<<"status">>) /\ ReadOnly(<<"bids">>)
  BY DEF ReadOnly, Awaits, Acts
<1>3. ReadOnly(<<"adopt">>) /\ ReadOnly(<<>>)
  BY DEF ReadOnly, Awaits, Acts
<1>4. ReadOnly(<<"details", "status", "bids">>)
  BY DEF ReadOnly, Awaits, Acts
<1> QED BY <1>1, <1>2, <1>3, <1>4 DEF Refresh

\* Plans that send first.
LEMMA SendsFirst ==
  ASSUME NEW plan, plan \in Seq(Awaits), NEW more, ReadOnly(more), plan # <<>>,
         \A i \in DOMAIN plan : i > 1 => plan[i] \notin Acts
  PROVE  /\ plan \o more \in Seq(Awaits) /\ plan \o more # <<>>
         /\ \A i \in DOMAIN (plan \o more) : i > 1 => (plan \o more)[i] \notin Acts
<1>1. more \in Seq(Awaits) /\ \A i \in 1..Len(more) : more[i] \notin Acts
  BY DEF ReadOnly, Awaits, Acts
<1>2. /\ plan \o more \in Seq(Awaits)
      /\ Len(plan \o more) = Len(plan) + Len(more)
      /\ Len(plan) \in Nat /\ Len(more) \in Nat /\ Len(plan) # 0
  BY <1>1
<1>3. ASSUME NEW i \in 1..Len(plan \o more), i > 1 PROVE (plan \o more)[i] \notin Acts
  <2>1. CASE i <= Len(plan)
    <3>1. i \in DOMAIN plan /\ (plan \o more)[i] = plan[i]
      BY <1>1, <1>2, <1>3, <2>1
    <3> QED BY <1>3, <3>1
  <2>2. CASE i > Len(plan)
    <3>1. i - Len(plan) \in 1..Len(more) /\ (plan \o more)[i] = more[i - Len(plan)]
      BY <1>1, <1>2, <1>3, <2>2
    <3> QED BY <1>1, <3>1
  <2> QED BY <1>2, <2>1, <2>2
<1> QED BY <1>2, <1>3

LEMMA SendingPlans ==
  ASSUME NEW last, ReadOnly(last)
  PROVE  LET plan == <<"send">> \o Refresh \o last
         IN  /\ plan \in Seq(Awaits)
             /\ \A i \in DOMAIN plan : i > 1 => plan[i] \notin Acts
<1> DEFINE first == <<"send">>
           both == first \o Refresh
<1>1. /\ first \in Seq(Awaits) /\ first # <<>>
      /\ \A i \in DOMAIN first : i > 1 => first[i] \notin Acts
  BY DEF Awaits
<1>2. ReadOnly(Refresh)
  BY ReadingPlans
<1> HIDE DEF first
<1>3. /\ both \in Seq(Awaits) /\ both # <<>>
      /\ \A i \in DOMAIN both : i > 1 => both[i] \notin Acts
  BY <1>1, <1>2, SendsFirst
<1> HIDE DEF both
<1>4. /\ both \o last \in Seq(Awaits)
      /\ \A i \in DOMAIN (both \o last) : i > 1 => (both \o last)[i] \notin Acts
  BY <1>3, SendsFirst
<1> QED BY <1>4 DEF both, first


-----------------------------------------------------------------------------
(* The steps.                                                              *)

\* Where neither storage nor locks change, the rest is to stay in shape.
LEMMA StorageAlone ==
  ASSUME KeptInv, UNCHANGED <<kept, locked, draws>>,
         PageShape(page'), Sound(handlers', kept)
  PROVE  KeptInv'
BY DEF KeptInv, CodesAreKept, PageShape, Sound, Waits, Shape, CodesOf

\* Edits of the fields.
LEMMA Edited ==
  ASSUME NEW p, PageShape(p), NEW id \in Ids, NEW x
  PROVE  /\ PageShape([p EXCEPT !.on = x]) /\ PageShape([p EXCEPT !.codes = x])
         /\ PageShape(SetDelivery(p, id))
<1>1. PageShape([p EXCEPT !.on = x])
  BY DEF PageShape
<1>2. PageShape([p EXCEPT !.codes = x])
  BY DEF PageShape
<1> DEFINE c == IF kept[id] # 0 THEN kept[id] ELSE p.codes
           q == [p EXCEPT !.id = id, !.codes = c]
<1>3. SetDelivery(p, id) = q
  BY DEF SetDelivery
<1>4. PageShape(q)
  <2> HIDE DEF c
  <2>1. p = [on |-> p.on, id |-> p.id, vault |-> p.vault, index |-> p.index,
             codes |-> p.codes, pick |-> p.pick]
    BY DEF PageShape
  <2>2. q = [on |-> p.on, id |-> id, vault |-> p.vault, index |-> p.index,
             codes |-> c, pick |-> p.pick]
    <3> DEFINE r == [p EXCEPT !.id = id]
    <3>1. r = [on |-> p.on, id |-> id, vault |-> p.vault, index |-> p.index,
               codes |-> p.codes, pick |-> p.pick]
      BY <2>1
    <3>2. q = [r EXCEPT !.codes = c]
      OBVIOUS
    <3> HIDE DEF r, q
    <3> QED BY <3>1, <3>2
  <2> HIDE DEF q
  <2> QED BY <2>2 DEF PageShape
<1> QED BY <1>1, <1>2, <1>3, <1>4

LEMMA StartsReading ==
  ASSUME KeptInv, UNCHANGED <<kept, locked, draws>>,
         NEW name, NEW plan, ReadOnly(plan), NEW arg, NEW p, PageShape(p),
         Starts(name, plan, arg, p)
  PROVE  KeptInv'
<1>1. /\ plan \in Seq(Awaits) /\ \A i \in DOMAIN plan : i > 1 => plan[i] \notin Acts
      /\ plan # <<>> => plan[1] # "send"
  BY DEF ReadOnly, Acts
<1>2. PageShape(page') /\ Sound(handlers', kept)
  BY <1>1, StartsSound DEF KeptInv
<1> QED BY <1>2, StorageAlone

LEMMA ReadingStep == KeptInv /\ Reading => KeptInv'
<1> SUFFICES ASSUME KeptInv, Reading PROVE KeptInv'
  OBVIOUS
<1>0. /\ UNCHANGED <<kept, locked, draws>> /\ PageShape(page)
      /\ Sound(Disturbed, kept)
  BY DisturbedSound DEF Reading, ChainUnchanged, KeptInv
<1>1. CASE Connect
  <2> DEFINE yes == TRUE
             p == [page EXCEPT !.on = yes]
  <2>1. PageShape(p)
    <3> HIDE DEF yes
    <3>1. page.id \in Ids \cup {Nothing}
      BY <1>0 DEF PageShape
    <3>2. p = [on |-> yes, id |-> page.id, vault |-> page.vault, index |-> page.index,
               codes |-> page.codes, pick |-> page.pick]
      BY <1>0 DEF PageShape
    <3> HIDE DEF p
    <3> QED BY <3>1, <3>2 DEF PageShape
  <2>2. Starts("connect", Refresh, Nothing, p)
    BY <1>1 DEF Connect
  <2> HIDE DEF p
  <2> QED BY <1>0, <2>1, <2>2, ReadingPlans, StartsReading
<1>2. CASE Disconnect
  <2>1. PageShape(page')
    BY <1>0, <1>2 DEF Disconnect, PageShape
  <2> QED BY <1>0, <1>2, <2>1, StorageAlone DEF Disconnect
<1>3. CASE \/ Starts("refresh", Refresh, Nothing, page)
           \/ Starts("status", <<"status">>, Nothing, page)
           \/ Starts("bids", <<"bids">>, Nothing, page)
  BY <1>0, <1>3, ReadingPlans, StartsReading
<1>4. ASSUME NEW id \in Ids, Select(id) PROVE KeptInv'
  <2>1. PageShape(SetDelivery(page, id))
    BY <1>0, Edited
  <2> QED BY <1>0, <1>4, <2>1, ReadingPlans, StartsReading DEF Select
<1>5. ASSUME NEW id \in Ids, TypeId(id) PROVE KeptInv'
  <2>1. PageShape(page')
    BY <1>0, <1>5 DEF TypeId, PageShape
  <2> QED BY <1>0, <1>5, <2>1, StorageAlone DEF TypeId
<1>6. ASSUME NEW i \in 1..MaxBids, TypeIndex(i) PROVE KeptInv'
  <2>1. PageShape(page')
    BY <1>0, <1>6 DEF TypeIndex, PageShape
  <2> QED BY <1>0, <1>6, <2>1, StorageAlone DEF TypeIndex
<1> QED BY <1>1, <1>2, <1>3, <1>4, <1>5, <1>6 DEF Reading

LEMMA ReloadStep == KeptInv /\ Reload => KeptInv'
<1> SUFFICES ASSUME KeptInv, Reload PROVE KeptInv'
  OBVIOUS
<1>1. UNCHANGED <<kept, locked, draws>> /\ PageShape(page) /\ Sound(handlers, kept)
  BY DEF Reload, ChainUnchanged, KeptInv
<1>2. PageShape(page')
  BY <1>1 DEF Reload, PageShape
<1>3. ASSUME NEW t \in Slots, At(t, "send")
      PROVE  Waits([handlers[t] EXCEPT !.plan = <<"send">>], kept)
  <2> DEFINE h == handlers[t]
             d == [h EXCEPT !.plan = <<"send">>]
  <2>1. Waits(h, kept) /\ Head(h.plan) = "send"
    BY <1>1, <1>3 DEF At, Sound
  <2> HIDE DEF h
  <2>2. d = [name |-> h.name, plan |-> <<"send">>, arg |-> h.arg, answer |-> h.answer,
             event |-> h.event, alone |-> h.alone]
    BY <2>1 DEF Waits, Shape
  <2> HIDE DEF d
  <2>3. /\ d.plan = <<"send">> /\ d.plan \in Seq(Awaits) /\ d.plan # <<>>
        /\ \A i \in DOMAIN d.plan : i > 1 => d.plan[i] \notin Acts
    BY <2>2 DEF Awaits
  <2>4. h.plan[1] = "send" /\ h.plan # <<>>
    BY <2>1 DEF Waits, Shape
  <2> QED BY <2>1, <2>2, <2>3, <2>4 DEF Waits, Shape, CodesOf, d, h
<1>4. handlers' = [t \in Slots |->
         IF At(t, "send") THEN [handlers[t] EXCEPT !.plan = <<"send">>] ELSE Nothing]
  BY DEF Reload
<1>5. Sound(handlers', kept)
  <2>1. \A t \in Slots : handlers'[t] # Nothing => Waits(handlers'[t], kept)
    BY <1>3, <1>4
  <2> QED BY <1>4, <2>1 DEF Sound
<1> QED BY <1>1, <1>2, <1>5, StorageAlone

LEMMA AiPickStep == KeptInv /\ AiPick => KeptInv'
<1> SUFFICES ASSUME KeptInv, AiPick PROVE KeptInv'
  OBVIOUS
<1>1. UNCHANGED <<kept, locked, draws>> /\ PageShape(page)
  BY DEF AiPick, ChainUnchanged, KeptInv
<1> DEFINE arg == [id |-> shown.book.id, book |-> Candidates(shown.book.of), limits |->
            IF shown.request = Nothing THEN [maxPrice |-> FormMaxPrice]
            ELSE [maxPrice |-> FormMaxPrice,
                  maxDeadline |-> shown.request.of.asked.maxDeadline]]
<1>2. Starts("pick", <<"rank">>, arg, page)
  BY DEF AiPick
<1> HIDE DEF arg
<1>3. /\ <<"rank">> \in Seq(Awaits) /\ <<"rank">>[1] # "send"
      /\ \A i \in DOMAIN <<"rank">> : i > 1 => <<"rank">>[i] \notin Acts
  BY DEF Awaits
<1>4. PageShape(page') /\ Sound(handlers', kept)
  BY <1>1, <1>2, <1>3, StartsSound DEF KeptInv
<1> QED BY <1>1, <1>4, StorageAlone


\* More storage is as good, if what was there stays.
LEMMA StorageGrows ==
  ASSUME NEW running, NEW s1, NEW s2, Sound(running, s1),
         \A id \in Ids : s1[id] # 0 => s2[id] = s1[id]
  PROVE  Sound(running, s2)
<1> SUFFICES ASSUME NEW t \in Slots, running[t] # Nothing
             PROVE  Waits(running[t], s2)
  BY DEF Sound
<1>1. Waits(running[t], s1)
  BY DEF Sound
<1> QED BY <1>1 DEF Waits, CodesOf

LEMMA SendHashesStep == KeptInv /\ SendHashes => KeptInv'
<1> SUFFICES ASSUME KeptInv, SendHashes PROVE KeptInv'
  OBVIOUS
<1> DEFINE id == page.id
           codes == IF kept[id] = 0 THEN draws + 1 ELSE kept[id]
           p == [page EXCEPT !.codes = codes]
           plan == <<"send">> \o Refresh \o <<>>
           arg == [id |-> id, codes |-> codes]
<1>1. /\ id \in Ids /\ PageShape(page) /\ Sound(handlers, kept)
      /\ kept \in [Ids -> Nat] /\ draws \in Nat /\ locked' = locked
      /\ draws' = IF kept[id] = 0 THEN draws + 1 ELSE draws
      /\ kept' = [kept EXCEPT ![id] = codes]
      /\ Starts("publishHashes", plan, arg, p)
  BY DEF SendHashes, Send, ChainUnchanged, KeptInv, PageShape
<1>2. codes \in Nat \ {0} /\ kept'[id] = codes /\ kept' \in [Ids -> Nat] /\ draws' \in Nat
  BY <1>1
<1>3. \A i \in Ids : kept[i] # 0 => kept'[i] = kept[i]
  BY <1>1
<1>4. PageShape(p)
  <2> HIDE DEF codes
  <2> QED BY <1>1, Edited
<1>5. plan \in Seq(Awaits) /\ \A i \in DOMAIN plan : i > 1 => plan[i] \notin Acts
  BY ReadingPlans, SendingPlans
<1>6. arg.id = id /\ arg.codes = codes
  OBVIOUS
<1> HIDE DEF id, codes, p, plan, arg
<1>7. Sound(handlers, kept')
  BY <1>1, <1>3, StorageGrows
<1>8. PageShape(page') /\ Sound(handlers', kept')
  <2> DEFINE storage == kept'
  <2>1. storage[id] = codes
    BY <1>2
  <2>2. Sound(handlers, storage)
    BY <1>7
  <2> HIDE DEF storage
  <2>3. PageShape(page') /\ Sound(handlers', storage)
    BY <1>1, <1>2, <1>4, <1>5, <1>6, <2>1, <2>2, StartsSound
  <2> QED BY <2>3 DEF storage
<1>9. CodesAreKept'
  BY <1>1, <1>3 DEF KeptInv, CodesAreKept
<1> QED BY <1>1, <1>2, <1>8, <1>9 DEF KeptInv, PageShape, Sound, Waits, Shape, CodesOf

\* The other clicks that send something leave the codes alone.
LEMMA OtherSends ==
  ASSUME KeptInv, NEW name, name # "publishHashes", NEW last, ReadOnly(last), NEW arg,
         UNCHANGED <<kept, draws>>, Send(name, last, arg, page)
  PROVE  KeptInv'
<1> DEFINE plan == <<"send">> \o Refresh \o last
<1>1. /\ PageShape(page) /\ Sound(handlers, kept)
      /\ UNCHANGED <<kept, locked, draws>>
      /\ Starts(name, plan, arg, page)
  BY DEF Send, ChainUnchanged, KeptInv
<1>2. plan \in Seq(Awaits) /\ \A i \in DOMAIN plan : i > 1 => plan[i] \notin Acts
  BY SendingPlans
<1> HIDE DEF plan
<1>3. PageShape(page') /\ Sound(handlers', kept)
  BY <1>1, <1>2, StartsSound
<1> QED BY <1>1, <1>3, StorageAlone

LEMMA SendingStep == KeptInv /\ Sending => KeptInv'
<1> SUFFICES ASSUME KeptInv, Sending PROVE KeptInv'
  OBVIOUS
<1>1. CASE SendHashes
  BY <1>1, SendHashesStep
<1>2. ReadOnly(<<>>) /\ ReadOnly(<<"adopt">>) /\ ReadOnly(<<"bids">>)
  BY ReadingPlans
<1>3. CASE ~SendHashes
  <2> DEFINE accept == [id |-> page.id, index |-> page.index, pick |-> page.pick]
             about == [id |-> page.id]
             call == [vault |-> page.vault, codes |-> page.codes]
  <2>1. /\ UNCHANGED <<kept, draws>>
        /\ \/ Send("openRequest", <<"adopt">>, Nothing, page)
           \/ Send("pool", <<>>, Nothing, page)
           \/ Send("setAgent", <<>>, Nothing, page)
           \/ Send("acceptBid", <<"adopt">>, accept, page)
           \/ Send("placeBid", <<"bids">>, about, page)
           \/ Send("withdrawBid", <<"bids">>, about, page)
           \/ Send("vault", <<>>, call, page)
    BY <1>3 DEF Sending
  <2> HIDE DEF accept, about, call
  <2> QED BY <1>2, <2>1, OtherSends
<1> QED BY <1>1, <1>3

\* A handler that goes on sends nothing more.
LEMMA RestIsSound ==
  ASSUME NEW h, NEW storage, Waits(h, storage)
  PROVE  /\ Shape(Rest(h)) /\ CodesOf(Rest(h), storage)
         /\ ReadOnly(Rest(h).plan) /\ Rest(h).event = h.event /\ Rest(h).name = h.name
<1> DEFINE tail == Tail(h.plan)
<1>1. h.plan \in Seq(Awaits) /\ h.plan # <<>>
      /\ \A i \in DOMAIN h.plan : i > 1 => h.plan[i] \notin Acts
  BY DEF Waits, Shape
<1>2. ReadOnly(tail)
  <2>1. tail \in Seq(Awaits) /\ Len(tail) = Len(h.plan) - 1
        /\ \A i \in 1..Len(tail) : tail[i] = h.plan[i + 1] /\ i + 1 \in DOMAIN h.plan
    BY <1>1
  <2>2. \A i \in 1..Len(tail) : tail[i] \notin Acts
    <3> TAKE i \in 1..Len(tail)
    <3>1. i + 1 > 1
      BY <2>1
    <3> HIDE DEF tail
    <3> QED BY <1>1, <2>1, <3>1
  <2> HIDE DEF tail
  <2> QED BY <2>1, <2>2 DEF ReadOnly
<1>3. Rest(h) = [h EXCEPT !.plan = tail]
  BY DEF Rest, Waits, Shape
<1> DEFINE r == Rest(h)
<1> HIDE DEF tail
<1>4. r = [name |-> h.name, plan |-> tail, arg |-> h.arg, answer |-> h.answer,
           event |-> h.event, alone |-> h.alone]
  BY <1>3 DEF Waits, Shape
<1> HIDE DEF r
<1> QED BY <1>2, <1>4 DEF Shape, CodesOf, ReadOnly, Acts, r

LEMMA MinedStep == ASSUME NEW t \in Slots PROVE KeptInv /\ Mined(t) => KeptInv'
<1> SUFFICES ASSUME KeptInv, Mined(t) PROVE KeptInv'
  OBVIOUS
<1> DEFINE h == handlers[t]
<1>1. PICK event \in {Nothing} \cup Ids \cup Vaults :
        /\ Executed(h.name, h.arg, event)
        /\ RunOn(handlers, t, [Rest(h) EXCEPT !.event = event], page)
  BY DEF Mined
<1>2. /\ h # Nothing /\ Head(h.plan) = "send" /\ UNCHANGED <<kept, draws>>
      /\ Sound(handlers, kept) /\ PageShape(page) /\ Waits(h, kept)
  BY DEF Mined, At, KeptInv, Sound
<1> HIDE DEF h
<1> DEFINE r == Rest(h)
           g == [r EXCEPT !.event = event]
<1>3. Shape(g) /\ CodesOf(g, kept)
  <2>1. Shape(r) /\ CodesOf(r, kept)
    BY <1>2, RestIsSound
  <2> HIDE DEF r
  <2>2. g = [name |-> r.name, plan |-> r.plan, arg |-> r.arg, answer |-> r.answer,
             event |-> event, alone |-> r.alone]
    BY <2>1 DEF Shape
  <2> HIDE DEF g
  <2> QED BY <2>1, <2>2 DEF Shape, CodesOf
<1>4. PageShape(page') /\ Sound(handlers', kept)
  <2>1. RunOn(handlers, t, g, page)
    BY <1>1
  <2> HIDE DEF g
  <2> QED BY <1>2, <1>3, <2>1, RunOnSound
<1>5. CASE h.name = "publishHashes"
  <2>1. locked' = [locked EXCEPT ![h.arg.id] = h.arg.codes]
    BY <1>1, <1>5 DEF Executed
  <2>2. h.arg.id \in Ids /\ h.arg.codes = kept[h.arg.id]
    BY <1>2, <1>5 DEF Waits, Shape, CodesOf
  <2>3. locked' \in [Ids -> Nat] /\ CodesAreKept'
    BY <1>2, <2>1, <2>2 DEF KeptInv, CodesAreKept
  <2> QED BY <1>2, <1>4, <2>3 DEF KeptInv, PageShape, Sound, Waits, Shape, CodesOf
<1>6. CASE h.name # "publishHashes"
  <2>1. UNCHANGED locked
    BY <1>1, <1>6 DEF Executed
  <2> QED BY <1>2, <1>4, <2>1, StorageAlone
<1> QED BY <1>5, <1>6

LEMMA AnswerStep ==
  ASSUME NEW t \in Slots PROVE KeptInv /\ (Failed(t) \/ Answer(t)) => KeptInv'
<1> SUFFICES ASSUME KeptInv, Failed(t) \/ Answer(t) PROVE KeptInv'
  OBVIOUS
<1>1. /\ handlers[t] # Nothing /\ UNCHANGED <<kept, locked, draws, page>>
      /\ \/ handlers' = [handlers EXCEPT ![t] = Nothing]
         \/ \E a : handlers' = [handlers EXCEPT ![t].answer = a]
  BY DEF Failed, Answer, ChainUnchanged
<1>2. PageShape(page') /\ Sound(handlers, kept) /\ Waits(handlers[t], kept)
  BY <1>1 DEF KeptInv, Sound, PageShape
<1>3. CASE handlers' = [handlers EXCEPT ![t] = Nothing]
  <2>1. Sound(handlers', kept)
    BY <1>2, <1>3 DEF Sound
  <2> QED BY <1>1, <1>2, <2>1, StorageAlone
<1>4. ASSUME NEW a, handlers' = [handlers EXCEPT ![t].answer = a] PROVE KeptInv'
  <2> DEFINE h == handlers[t]
             d == [h EXCEPT !.answer = a]
  <2>1. handlers' = [handlers EXCEPT ![t] = d]
    BY <1>2, <1>4 DEF Sound
  <2>2. Waits(d, kept)
    BY <1>2, MarkWaits
  <2> HIDE DEF d
  <2>3. Sound(handlers', kept)
    BY <1>2, <2>1, <2>2 DEF Sound
  <2> QED BY <1>1, <1>2, <2>3, StorageAlone
<1> QED BY <1>1, <1>3, <1>4

\* A handler that goes on with an answer.
LEMMA GoesOnStep ==
  ASSUME NEW t \in Slots, KeptInv, handlers[t] # Nothing,
         NEW p, PageShape(p), GoesOn(t, p)
  PROVE  KeptInv'
<1> DEFINE h == handlers[t]
<1>1. /\ RunOn(handlers, t, Rest(h), p) /\ UNCHANGED <<kept, locked, draws>>
      /\ Sound(handlers, kept) /\ Waits(h, kept)
  BY DEF GoesOn, ChainUnchanged, KeptInv, Sound
<1> HIDE DEF h
<1>2. Shape(Rest(h)) /\ CodesOf(Rest(h), kept)
  BY <1>1, RestIsSound
<1>3. PageShape(page') /\ Sound(handlers', kept)
  BY <1>1, <1>2, RunOnSound
<1> QED BY <1>1, <1>3, StorageAlone

LEMMA UsingStep ==
  ASSUME NEW t \in Slots
  PROVE  KeptInv /\ (UseList(t) \/ UseDetails(t) \/ UseStatus(t) \/ UseBids(t) \/ UsePick(t))
           => KeptInv'
<1> SUFFICES ASSUME KeptInv,
                    UseList(t) \/ UseDetails(t) \/ UseStatus(t) \/ UseBids(t) \/ UsePick(t)
             PROVE  KeptInv'
  OBVIOUS
<1>1. PageShape(page) /\ handlers[t] # Nothing
  BY DEF KeptInv, UseList, UseDetails, UseStatus, UseBids, UsePick, At
<1>2. CASE UseList(t) \/ UseStatus(t) \/ UseBids(t)
  BY <1>1, <1>2, GoesOnStep DEF UseList, UseStatus, UseBids
<1>3. CASE UseDetails(t)
  <2> DEFINE v == handlers[t].answer.request.vault
  <2>1. GoesOn(t, SetVaultAddress(page, v))
    BY <1>3 DEF UseDetails
  <2> HIDE DEF v
  <2>2. PageShape(SetVaultAddress(page, v))
    BY <1>1 DEF PageShape, SetVaultAddress
  <2> QED BY <1>1, <2>1, <2>2, GoesOnStep
<1>4. CASE UsePick(t)
  <2> DEFINE w == handlers[t].answer.winner
             pick == [id |-> handlers[t].arg.id, bid |-> handlers[t].arg.book[w]]
             q == IF w = 0 THEN page ELSE [page EXCEPT !.index = w, !.pick = pick]
  <2>1. GoesOn(t, q)
    BY <1>4 DEF UsePick
  <2> HIDE DEF w, pick
  <2>2. PageShape([page EXCEPT !.index = w, !.pick = pick])
    <3> DEFINE one == [page EXCEPT !.index = w]
               two == [page EXCEPT !.index = w, !.pick = pick]
    <3>1. page.id \in Ids \cup {Nothing}
      BY <1>1 DEF PageShape
    <3>2. one = [on |-> page.on, id |-> page.id, vault |-> page.vault, index |-> w,
                 codes |-> page.codes, pick |-> page.pick]
      BY <1>1 DEF PageShape
    <3>3. two = [one EXCEPT !.pick = pick]
      OBVIOUS
    <3> HIDE DEF one, two
    <3>4. two = [on |-> page.on, id |-> page.id, vault |-> page.vault, index |-> w,
                 codes |-> page.codes, pick |-> pick]
      BY <3>2, <3>3
    <3>5. PageShape(two)
      BY <3>1, <3>4 DEF PageShape
    <3> QED BY <3>5 DEF two
  <2>3. PageShape(q)
    BY <1>1, <2>2
  <2> HIDE DEF q
  <2> QED BY <1>1, <2>1, <2>3, GoesOnStep
<1> QED BY <1>2, <1>3, <1>4

LEMMA ElsewhereStep == KeptInv /\ Elsewhere => KeptInv'
<1> SUFFICES ASSUME KeptInv, Elsewhere PROVE KeptInv'
  OBVIOUS
<1>1. UNCHANGED <<kept, locked, draws, page>> /\ handlers' = Disturbed
  BY DEF Elsewhere
<1>2. PageShape(page') /\ Sound(handlers', kept)
  BY <1>1, DisturbedSound DEF KeptInv, PageShape
<1> QED BY <1>1, <1>2, StorageAlone

LEMMA KeptStep == KeptInv /\ [ConsoleNext]_consoleVars => KeptInv'
<1> SUFFICES ASSUME KeptInv, [ConsoleNext]_consoleVars PROVE KeptInv'
  OBVIOUS
<1>1. CASE Reading \/ Reload \/ AiPick \/ Sending \/ Elsewhere
  BY <1>1, ReadingStep, ReloadStep, AiPickStep, SendingStep, ElsewhereStep
<1>2. ASSUME NEW t \in Slots,
             \/ Mined(t) \/ Failed(t) \/ Answer(t)
             \/ UseList(t) \/ UseDetails(t) \/ UseStatus(t) \/ UseBids(t) \/ UsePick(t)
      PROVE  KeptInv'
  BY <1>2, MinedStep, AnswerStep, UsingStep
<1>3. CASE UNCHANGED consoleVars
  BY <1>3 DEF consoleVars, KeptInv, CodesAreKept, PageShape, Sound, Waits, Shape, CodesOf
<1> QED BY <1>1, <1>2, <1>3 DEF ConsoleNext

\* Codes that are locked on the chain are in the browser's storage: no click,
\* however often and whatever waits, fails or is reloaded meanwhile, loses
\* what opens a vault.
THEOREM NoCodesAreLost == ConsoleSpec => []CodesAreKept
<1>1. KeptInv => CodesAreKept
  BY DEF KeptInv
<1> QED BY <1>1, KeptInit, KeptStep, PTL DEF ConsoleSpec

-----------------------------------------------------------------------------
(* What the page believes, in a world w of requests, bids and vaults.      *)

World == [req |-> requests, bid |-> bids, vlt |-> vault]

\* The world goes on as the market does.
WorldOn(w, u) ==
    /\ \A id \in Ids : RequestGoesOn(w.req[id], u.req[id])
    /\ \A id \in Ids : StaysIn(w.bid[id], u.bid[id])
    /\ \A v \in Vaults : VaultGoesOn(w.vlt[v], u.vlt[v])

Exists(id, w) == id \in Ids /\ w.req[id] # NoRequest

\* What a vault has told of itself.
OnceSo(status, r) ==
    /\ r # NoVault /\ status.courierFee = r.terms.courierFee
    /\ status.funded => r.funded
    /\ status.disputed => r.disputed
    /\ status.finalized => r.finalized /\ status.state = r.state
    /\ status.state # "Funded" => r.state # "Funded"

OnceAsked(r, id, w) == r \in RequestRecords /\ RequestGoesOn(r, w.req[id])
OnceBid(book, id, w) == book \in Seq(BidRecords) /\ StaysIn(book, w.bid[id])

\* The bid behind a picked index is in its place and within the form's limit.
PickTrue(pick, index, w) ==
    /\ pick.id \in Ids /\ index \in DOMAIN w.bid[pick.id]
    /\ w.bid[pick.id][index].courier = pick.bid.courier
    /\ w.bid[pick.id][index].offered = pick.bid.offered
    /\ pick.bid.offered.price <= FormMaxPrice

PageTrue(p, w) ==
    /\ p.id # Nothing => Exists(p.id, w)
    /\ p.vault # Nothing => p.vault \in Vaults
    /\ p.pick # Nothing => PickTrue(p.pick, p.index, w)

ShownTrue(s, w) ==
    /\ s = [request |-> s.request, status |-> s.status, book |-> s.book]
    /\ s.request # Nothing =>
         Exists(s.request.id, w) /\ OnceAsked(s.request.of, s.request.id, w)
    /\ s.status # Nothing =>
         s.status.vault \in Vaults /\ OnceSo(s.status.of, w.vlt[s.status.vault])
    /\ s.book # Nothing => Exists(s.book.id, w) /\ OnceBid(s.book.of, s.book.id, w)

EventTrue(event, w) ==
    /\ event \in Ids => Exists(event, w)
    /\ event \in Ids \cup Vaults \cup {Nothing}

\* What a call takes along.
CallTrue(name, arg, w) ==
    /\ name \in {"publishHashes", "acceptBid", "placeBid", "withdrawBid"} => arg.id \in Ids
    /\ name = "vault" => arg.vault \in Vaults
    /\ name = "acceptBid" /\ arg.pick # Nothing => PickTrue(arg.pick, arg.index, w)

RankTrue(arg, w) ==
    /\ Exists(arg.id, w) /\ OnceBid(arg.book, arg.id, w)
    /\ "maxPrice" \in DOMAIN arg.limits /\ arg.limits.maxPrice = FormMaxPrice

ArgTrue(step, name, arg, w) ==
    /\ step \in {"details", "bids"} => Exists(arg.id, w)
    /\ step = "status" => arg.vault \in Vaults
    /\ step = "rank" => RankTrue(arg, w)
    /\ step = "send" => CallTrue(name, arg, w)

AnswerTrue(step, arg, answer, w) ==
    /\ step = "details" => OnceAsked(answer.request, arg.id, w)
    /\ step = "status" => OnceSo(answer.status, w.vlt[arg.vault])
    /\ step = "bids" => OnceBid(answer.bids, arg.id, w)
    /\ step = "rank" /\ answer.winner # 0 =>
         /\ answer.winner \in DOMAIN arg.book
         /\ arg.book[answer.winner].offered.price <= FormMaxPrice

Believes(h, w) ==
    /\ EventTrue(h.event, w)
    /\ ArgTrue(h.plan[1], h.name, h.arg, w)
    /\ h.answer # Nothing => AnswerTrue(h.plan[1], h.arg, h.answer, w)

AllBelieve(running, w) == \A t \in Slots : running[t] # Nothing => Believes(running[t], w)

\* What was once true of the world is once true of it later.
LEMMA WorldStands ==
  ASSUME NEW w, NEW u, WorldOn(w, u)
  PROVE  /\ \A id : Exists(id, w) => Exists(id, u)
         /\ \A r, id : id \in Ids /\ OnceAsked(r, id, w) => OnceAsked(r, id, u)
         /\ \A book, id : id \in Ids /\ OnceBid(book, id, w) => OnceBid(book, id, u)
         /\ \A s, v : v \in Vaults /\ OnceSo(s, w.vlt[v]) => OnceSo(s, u.vlt[v])
         /\ \A pick, i : PickTrue(pick, i, w) => PickTrue(pick, i, u)
<1>1. \A id : Exists(id, w) => Exists(id, u)
  BY DEF WorldOn, Exists, RequestGoesOn
<1>2. \A r, id : id \in Ids /\ OnceAsked(r, id, w) => OnceAsked(r, id, u)
  BY RequestGoesOnAndOn DEF WorldOn, OnceAsked
<1>3. \A book, id : id \in Ids /\ OnceBid(book, id, w) => OnceBid(book, id, u)
  BY StayingOn DEF WorldOn, OnceBid
<1>4. \A s, v : v \in Vaults /\ OnceSo(s, w.vlt[v]) => OnceSo(s, u.vlt[v])
  BY DEF WorldOn, OnceSo, VaultGoesOn
<1>5. \A pick, i : PickTrue(pick, i, w) => PickTrue(pick, i, u)
  BY DEF WorldOn, PickTrue, StaysIn
<1> QED BY <1>1, <1>2, <1>3, <1>4, <1>5

LEMMA BeliefsStand ==
  ASSUME NEW w, NEW u, WorldOn(w, u)
  PROVE  /\ \A p : PageTrue(p, w) => PageTrue(p, u)
         /\ \A s : ShownTrue(s, w) => ShownTrue(s, u)
         /\ \A running : AllBelieve(running, w) => AllBelieve(running, u)
<1>1. \A p : PageTrue(p, w) => PageTrue(p, u)
  BY WorldStands DEF PageTrue
<1>2. \A s : ShownTrue(s, w) => ShownTrue(s, u)
  <2> SUFFICES ASSUME NEW s, ShownTrue(s, w) PROVE ShownTrue(s, u)
    OBVIOUS
  <2>1. s.request # Nothing => Exists(s.request.id, u) /\ OnceAsked(s.request.of, s.request.id, u)
    BY WorldStands DEF ShownTrue, Exists
  <2>2. s.status # Nothing => OnceSo(s.status.of, u.vlt[s.status.vault])
    BY WorldStands DEF ShownTrue
  <2>3. s.book # Nothing => Exists(s.book.id, u) /\ OnceBid(s.book.of, s.book.id, u)
    BY WorldStands DEF ShownTrue, Exists
  <2> QED BY <2>1, <2>2, <2>3 DEF ShownTrue
<1>3. \A event : EventTrue(event, w) => EventTrue(event, u)
  BY WorldStands DEF EventTrue
<1>4. ASSUME NEW step, NEW name, NEW arg, ArgTrue(step, name, arg, w)
      PROVE  ArgTrue(step, name, arg, u)
  <2>1. RankTrue(arg, w) => RankTrue(arg, u)
    BY WorldStands DEF RankTrue, Exists
  <2>2. CallTrue(name, arg, w) => CallTrue(name, arg, u)
    BY WorldStands DEF CallTrue
  <2>3. Exists(arg.id, w) => Exists(arg.id, u)
    BY WorldStands
  <2> QED BY <1>4, <2>1, <2>2, <2>3 DEF ArgTrue
<1>5. ASSUME NEW step, NEW name, NEW arg, NEW answer, ArgTrue(step, name, arg, w),
             AnswerTrue(step, arg, answer, w)
      PROVE  AnswerTrue(step, arg, answer, u)
  <2>1. /\ step \in {"details", "bids"} => arg.id \in Ids
        /\ step = "status" => arg.vault \in Vaults
    BY <1>5 DEF ArgTrue, Exists
  <2> QED BY <1>5, <2>1, WorldStands DEF AnswerTrue
<1>6. \A h : Believes(h, w) => Believes(h, u)
  BY <1>3, <1>4, <1>5 DEF Believes
<1> QED BY <1>1, <1>2, <1>6 DEF AllBelieve

\* To run on to the next await keeps what the page believes.
LEMMA RunOnTrue ==
  ASSUME NEW running, NEW t \in Slots, NEW h, NEW p, NEW w, NEW storage,
         RunOn(running, t, h, p), Sound(running, storage), Shape(h),
         PageTrue(p, w), AllBelieve(running, w), EventTrue(h.event, w),
         h.plan # <<>> /\ h.plan[1] \in Acts => ArgTrue(h.plan[1], h.name, h.arg, w)
  PROVE  PageTrue(page', w) /\ AllBelieve(handlers', w)
<1>1. PICK rest \in Seq(Awaits), k \in 1..Len(h.plan) + 1 :
        RunsTo(running, t, h, p, rest, k)
  BY RunsOn
<1>2. PageTrue(page', w)
  <2>1. PageTrue(Adopt(p, h.event), w)
    BY DEF PageTrue, Adopt, SetDelivery, SetVaultAddress, EventTrue
  <2> QED BY <1>1, <2>1 DEF RunsTo
<1>3. rest # <<>> => Believes(Waiting(h, rest, p), w)
  <2> SUFFICES ASSUME rest # <<>> PROVE Believes(Waiting(h, rest, p), w)
    OBVIOUS
  <2> DEFINE a == Asked(Head(rest), p, h.arg)
             new == Waiting(h, rest, p)
  <2>1. rest[1] \in Acts => ArgTrue(rest[1], h.name, h.arg, w)
    BY <1>1, ActsFirst
  <2>2. ~Skipped(rest[1], p) /\ Head(rest) = rest[1]
    BY <1>1 DEF RunsTo
  <2>3. ArgTrue(rest[1], h.name, a, w)
    <3>1. CASE rest[1] \in Acts
      <4>1. a = h.arg
        BY <2>2, <3>1 DEF Asked, Acts
      <4> QED BY <2>1, <3>1, <4>1
    <3>2. CASE rest[1] \in {"details", "bids"}
      <4>1. a = [id |-> p.id] /\ p.id # Nothing
        BY <2>2, <3>2 DEF Asked, Skipped
      <4>2. Exists(a.id, w)
        BY <4>1 DEF PageTrue
      <4> QED BY <3>2, <4>2 DEF ArgTrue
    <3>3. CASE rest[1] = "status"
      <4>1. a = [vault |-> p.vault] /\ p.vault # Nothing
        BY <2>2, <3>3 DEF Asked, Skipped
      <4>2. a.vault \in Vaults
        BY <4>1 DEF PageTrue
      <4> QED BY <3>3, <4>2 DEF ArgTrue
    <3> QED BY <3>1, <3>2, <3>3 DEF ArgTrue, Acts
  <2>4. /\ new.name = h.name /\ new.plan = rest /\ new.arg = a
        /\ new.event = h.event /\ new.answer = Nothing
    BY DEF Waiting
  <2> HIDE DEF a, new
  <2> QED BY <2>3, <2>4 DEF Believes, new
<1>4. AllBelieve(handlers', w)
  BY <1>1, <1>3 DEF AllBelieve, RunsTo, Sound
<1> QED BY <1>2, <1>4

-----------------------------------------------------------------------------
(* The page in the market.                                                 *)

ConsoleInv ==
    /\ KeptInv /\ MarketInv /\ ListsBounded /\ DOMAIN sellerNonce = Sellers
    /\ PageTrue(page, World) /\ AllBelieve(handlers, World) /\ ShownTrue(shown, World)

\* The call of a handler that waits for a receipt.
LEMMA CallOf ==
  ASSUME ConsoleInv, NEW t \in Slots, At(t, "send")
  PROVE  /\ Shape(handlers[t]) /\ handlers[t].plan # <<>> /\ handlers[t].plan[1] = "send"
         /\ Believes(handlers[t], World)
         /\ CallTrue(handlers[t].name, handlers[t].arg, World)
<1> DEFINE h == handlers[t]
<1>1. h # Nothing /\ Head(h.plan) = "send"
  BY DEF At
<1>2. Shape(h) /\ h.plan # <<>> /\ Believes(h, World)
  BY <1>1 DEF ConsoleInv, KeptInv, Sound, Waits, AllBelieve
<1> HIDE DEF h
<1>3. h.plan[1] = "send"
  BY <1>1, <1>2 DEF Shape
<1> QED BY <1>2, <1>3 DEF Believes, ArgTrue, h

\* What a transaction of the page does is a step of the market.
LEMMA CallIsAStep ==
  ASSUME ListsBounded, MarketInv, NEW name, NEW arg, NEW event,
         event \in {Nothing} \cup Ids \cup Vaults,
         CallTrue(name, arg, World), Executed(name, arg, event)
  PROVE  Next
<1>1. CASE name = "vault" /\ VaultCall(arg.vault, arg.codes)
  <2>1. arg.vault \in Vaults
    BY <1>1 DEF CallTrue
  <2> QED BY <1>1, <2>1 DEF VaultCall, Next
<1>2. CASE name = "pool" /\ PoolCall
  BY <1>2 DEF PoolCall, Membership, Next
<1>3. CASE /\ name = "acceptBid" /\ event \in Vaults /\ UNCHANGED now
           /\ AcceptBid(arg.id, arg.index, event)
  <2>1. arg.id \in Ids /\ arg.index \in DOMAIN bids[arg.id]
    BY <1>3 DEF CallTrue, AcceptBid
  <2>2. bids[arg.id] \in Seq(BidRecords) /\ Len(bids[arg.id]) <= MaxBids
    BY <2>1 DEF MarketInv, MarketTypes, ListsBounded
  <2>3. arg.index \in 1..MaxBids
    BY <2>1, <2>2, RegistryConstants
  <2>4. Accepting
    BY <1>3, <2>1, <2>3 DEF Accepting
  <2> QED BY <2>4 DEF Next
<1>4. CASE /\ UNCHANGED <<now, vault>> /\ PoolUnchanged
           /\ name = "publishHashes" /\ PublishHashes(arg.id)
  <2>1. arg.id \in Ids
    BY <1>4 DEF CallTrue
  <2> QED BY <1>4, <2>1 DEF Asking, Next
<1>5. CASE /\ UNCHANGED <<now, vault>> /\ PoolUnchanged
           /\ \E s \in Sellers, q \in Policies : SetAgentPolicy(s, q)
  BY <1>5 DEF Asking, Next
<1>6. CASE /\ UNCHANGED <<now, vault>> /\ PoolUnchanged
           /\ \/ name = "placeBid" /\ \E a \in Accounts, b \in BidTerms : PlaceBid(arg.id, a, b)
              \/ name = "withdrawBid" /\ \E i \in 1..MaxBids : WithdrawBid(arg.id, i)
  <2>1. arg.id \in Ids
    BY <1>6 DEF CallTrue
  <2> QED BY <1>6, <2>1 DEF Bidding, Next
<1>7. CASE /\ UNCHANGED <<now, vault>> /\ PoolUnchanged
           /\ event \in Ids /\ \E r \in RequestTerms : OpenRequest(event[1], r)
  <2>1. event[1] \in Sellers
    BY <1>7 DEF Ids
  <2> QED BY <1>7, <2>1 DEF Asking, Next
<1> QED BY <1>1, <1>2, <1>3, <1>4, <1>5, <1>6, <1>7 DEF Executed

LEMMA PageIsInTheMarket ==
  ASSUME ConsoleInv, [ConsoleNext]_consoleVars
  PROVE  [Next]_vars
<1>1. CASE Reading \/ Reload \/ AiPick \/ Sending
  BY <1>1 DEF Reading, Reload, AiPick, Sending, SendHashes, Send, ChainUnchanged
<1>2. ASSUME NEW t \in Slots, Mined(t) PROVE Next
  BY <1>2, CallOf, CallIsAStep DEF Mined, ConsoleInv
<1>3. ASSUME NEW t \in Slots, \/ Failed(t) \/ Answer(t) \/ UseList(t) \/ UseDetails(t)
                               \/ UseStatus(t) \/ UseBids(t) \/ UsePick(t)
      PROVE  UNCHANGED vars
  BY <1>3 DEF Failed, Answer, UseList, UseDetails, UseStatus, UseBids, UsePick, GoesOn,
     ChainUnchanged
<1>4. CASE Elsewhere
  BY <1>4 DEF Elsewhere, Next
<1>5. CASE UNCHANGED consoleVars
  BY <1>5 DEF consoleVars
<1> QED BY <1>1, <1>2, <1>3, <1>4, <1>5 DEF ConsoleNext

LEMMA NoncesStay ==
  ASSUME [Next]_vars
  PROVE  DOMAIN sellerNonce' = DOMAIN sellerNonce
<1>1. CASE Membership \/ Clock \/ UNCHANGED vars
  BY <1>1 DEF Membership, OthersUnchanged, Clock, vars, registryVars
<1>2. CASE Asking
  BY <1>2 DEF Asking, SetAgentPolicy, OpenRequest, PublishHashes, CancelRequest
<1>3. CASE Bidding \/ Accepting
  BY <1>3 DEF Bidding, PlaceBid, WithdrawBid, Accepting, AcceptBid, AcceptBidByAgent, Accept
<1>4. CASE \E v \in Vaults : Carrying(v) \/ SettlingWell(v) \/ SettlingBadly(v)
  BY <1>4 DEF Carrying, SettlingWell, SettlingBadly, registryVars
<1> QED BY <1>1, <1>2, <1>3, <1>4 DEF Next

LEMMA WorldGoesOn ==
  ASSUME ConsoleInv, [ConsoleNext]_consoleVars
  PROVE  /\ MarketInv' /\ ListsBounded' /\ DOMAIN sellerNonce' = Sellers
         /\ WorldOn(World, World')
         /\ PageTrue(page, World') /\ AllBelieve(handlers, World')
         /\ ShownTrue(shown, World')
<1>1. [Next]_vars /\ MarketInv /\ MarketTypes /\ ListsBounded
  BY PageIsInTheMarket DEF ConsoleInv, MarketInv
<1>2. MarketInv' /\ ListsBounded' /\ DOMAIN sellerNonce' = Sellers
  BY <1>1, MarketStep, ListsStayBounded, NoncesStay DEF ConsoleInv
<1>3. WorldOn(World, World')
  BY <1>1, MarketGoesOn DEF WorldOn, World
<1> DEFINE w == World
           u == World'
<1>4. WorldOn(w, u) /\ PageTrue(page, w) /\ AllBelieve(handlers, w) /\ ShownTrue(shown, w)
  BY <1>3 DEF ConsoleInv
<1> HIDE DEF w, u
<1>5. PageTrue(page, u) /\ AllBelieve(handlers, u) /\ ShownTrue(shown, u)
  BY <1>4, BeliefsStand
<1> QED BY <1>2, <1>3, <1>5 DEF u

-----------------------------------------------------------------------------
(* Every step keeps what the page believes, in the world w it leaves.      *)

Believing(w) ==
    KeptInv /\ PageTrue(page, w) /\ AllBelieve(handlers, w) /\ ShownTrue(shown, w)
StillBelieving(w) ==
    PageTrue(page', w) /\ AllBelieve(handlers', w) /\ ShownTrue(shown', w)

LEMMA DisturbedTrue ==
  ASSUME NEW w, Believing(w)
  PROVE  AllBelieve(Disturbed, w)
<1> SUFFICES ASSUME NEW t \in Slots, Disturbed[t] # Nothing
             PROVE  Believes(Disturbed[t], w)
  BY DEF AllBelieve
<1> DEFINE h == handlers[t]
           no == FALSE
           d == [h EXCEPT !.alone = no]
<1>1. h # Nothing /\ Disturbed[t] = d
  BY DEF Disturbed
<1>2. Shape(h) /\ Believes(h, w)
  BY <1>1 DEF Believing, KeptInv, Sound, Waits, AllBelieve
<1> HIDE DEF h, no
<1>3. d.event = h.event /\ d.plan = h.plan /\ d.name = h.name /\ d.arg = h.arg
      /\ d.answer = h.answer
  BY <1>2 DEF Shape
<1> HIDE DEF d
<1> QED BY <1>1, <1>2, <1>3 DEF Believes

\* A click that starts a handler.
LEMMA StartsTrue ==
  ASSUME NEW w, Believing(w), NEW name, NEW plan, NEW arg, NEW p,
         Starts(name, plan, arg, p), PageTrue(p, w),
         plan \in Seq(Awaits), \A i \in DOMAIN plan : i > 1 => plan[i] \notin Acts,
         plan # <<>> /\ plan[1] \in Acts => ArgTrue(plan[1], name, arg, w)
  PROVE  PageTrue(page', w) /\ AllBelieve(handlers', w)
<1> DEFINE h == Handler(name, plan, arg)
<1>1. PICK t \in Slots : RunOn(Disturbed, t, h, p)
  BY DEF Starts
<1>2. h.name = name /\ h.plan = plan /\ h.arg = arg /\ h.event = Nothing /\ Shape(h)
  BY DEF Handler, Shape
<1> HIDE DEF h
<1>3. EventTrue(h.event, w)
  BY <1>2, ConsoleConstants DEF EventTrue
<1>4. Sound(Disturbed, kept) /\ AllBelieve(Disturbed, w)
  BY DisturbedSound, DisturbedTrue DEF Believing, KeptInv
<1> QED BY <1>1, <1>2, <1>3, <1>4, RunOnTrue

\* One that only reads asks the fields, and takes nothing along.
LEMMA StartsReadingTrue ==
  ASSUME NEW w, Believing(w), UNCHANGED shown, NEW name, NEW plan, ReadOnly(plan), NEW arg,
         NEW p, PageTrue(p, w), Starts(name, plan, arg, p)
  PROVE  StillBelieving(w)
<1>1. /\ plan \in Seq(Awaits) /\ \A i \in DOMAIN plan : i > 1 => plan[i] \notin Acts
      /\ plan # <<>> => plan[1] \notin Acts
  BY DEF ReadOnly
<1> QED BY <1>1, StartsTrue DEF Believing, StillBelieving

\* Fields that nothing is believed about, and the id.
LEMMA EditedTrue ==
  ASSUME NEW p, NEW w, PageShape(p), PageTrue(p, w), NEW x
  PROVE  /\ PageTrue([p EXCEPT !.on = x], w) /\ PageTrue([p EXCEPT !.codes = x], w)
         /\ Exists(x, w) => PageTrue([p EXCEPT !.id = x], w) /\ PageTrue(SetDelivery(p, x), w)
<1>1. PageTrue([p EXCEPT !.on = x], w)
  BY DEF PageShape, PageTrue
<1>2. PageTrue([p EXCEPT !.codes = x], w)
  BY DEF PageShape, PageTrue
<1>3. Exists(x, w) => PageTrue([p EXCEPT !.id = x], w)
  BY DEF PageShape, PageTrue
<1> DEFINE c == IF kept[x] # 0 THEN kept[x] ELSE p.codes
           q == [p EXCEPT !.id = x, !.codes = c]
<1>4. SetDelivery(p, x) = q
  BY DEF SetDelivery
<1> HIDE DEF c
<1>5. q.id = x /\ q.vault = p.vault /\ q.pick = p.pick /\ q.index = p.index
  BY DEF PageShape
<1> HIDE DEF q
<1>6. Exists(x, w) => PageTrue(q, w)
  BY <1>5 DEF PageTrue
<1> QED BY <1>1, <1>2, <1>3, <1>4, <1>6

LEMMA ReadingTrue ==
  ASSUME NEW w, Believing(w), w.req = requests, Reading
  PROVE  StillBelieving(w)
<1>0. /\ UNCHANGED shown /\ PageShape(page) /\ PageTrue(page, w)
      /\ AllBelieve(Disturbed, w) /\ ShownTrue(shown', w)
  BY DisturbedTrue DEF Reading, Believing, KeptInv
<1>1. CASE Connect
  <2> DEFINE p == [page EXCEPT !.on = TRUE]
  <2>1. PageTrue(p, w)
    BY <1>0, EditedTrue
  <2>2. Starts("connect", Refresh, Nothing, p)
    BY <1>1 DEF Connect
  <2> HIDE DEF p
  <2> QED BY <1>0, <2>1, <2>2, ReadingPlans, StartsReadingTrue
<1>2. CASE Disconnect
  <2>1. PageTrue([page EXCEPT !.on = FALSE], w)
    BY <1>0, EditedTrue
  <2> QED BY <1>0, <1>2, <2>1 DEF Disconnect, StillBelieving
<1>3. CASE \/ Starts("refresh", Refresh, Nothing, page)
           \/ Starts("status", <<"status">>, Nothing, page)
           \/ Starts("bids", <<"bids">>, Nothing, page)
  BY <1>0, <1>3, ReadingPlans, StartsReadingTrue
<1>4. ASSUME NEW id \in Ids, Select(id) PROVE StillBelieving(w)
  <2>1. Exists(id, w)
    BY <1>4 DEF Select, Exists, Opened
  <2>2. PageTrue(SetDelivery(page, id), w)
    BY <1>0, <2>1, EditedTrue
  <2> QED BY <1>0, <1>4, <2>2, ReadingPlans, StartsReadingTrue DEF Select
<1>5. ASSUME NEW id \in Ids, TypeId(id) PROVE StillBelieving(w)
  <2>1. Exists(id, w)
    BY <1>5 DEF TypeId, Exists, Opened
  <2>2. PageTrue(page', w)
    BY <1>0, <1>5, <2>1, EditedTrue DEF TypeId
  <2> QED BY <1>0, <1>5, <2>2 DEF TypeId, StillBelieving
<1>6. ASSUME NEW i \in 1..MaxBids, TypeIndex(i) PROVE StillBelieving(w)
  <2>1. page'.id = page.id /\ page'.vault = page.vault /\ page'.pick = Nothing
    BY <1>0, <1>6 DEF TypeIndex, PageShape
  <2>2. PageTrue(page', w)
    BY <1>0, <2>1 DEF PageTrue
  <2> QED BY <1>0, <1>6, <2>2 DEF TypeIndex, StillBelieving
<1> QED BY <1>1, <1>2, <1>3, <1>4, <1>5, <1>6 DEF Reading

LEMMA ReloadTrue ==
  ASSUME NEW w, Believing(w), Reload
  PROVE  StillBelieving(w)
<1>1. PageShape(page) /\ PageTrue(page, w) /\ Sound(handlers, kept) /\ AllBelieve(handlers, w)
  BY DEF Believing, KeptInv
<1>2. page'.id = page.id /\ page'.vault = page.vault /\ page'.pick = Nothing
  BY <1>1 DEF Reload, PageShape
<1>3. PageTrue(page', w)
  BY <1>1, <1>2 DEF PageTrue
<1>4. ASSUME NEW t \in Slots, At(t, "send")
      PROVE  Believes([handlers[t] EXCEPT !.plan = <<"send">>], w)
  <2> DEFINE h == handlers[t]
             d == [h EXCEPT !.plan = <<"send">>]
  <2>1. Waits(h, kept) /\ Head(h.plan) = "send" /\ Believes(h, w)
    BY <1>1, <1>4 DEF At, Sound, AllBelieve
  <2> HIDE DEF h
  <2>2. h.plan[1] = "send"
    BY <2>1 DEF Waits, Shape
  <2>3. /\ d.plan[1] = "send" /\ d.name = h.name /\ d.arg = h.arg
        /\ d.answer = h.answer /\ d.event = h.event
    BY <2>1 DEF Waits, Shape
  <2> HIDE DEF d
  <2>4. Believes(d, w)
    BY <2>1, <2>2, <2>3 DEF Believes
  <2> QED BY <2>4 DEF d, h
<1>5. AllBelieve(handlers', w)
  BY <1>4 DEF Reload, AllBelieve
<1>6. ShownTrue(shown', w)
  BY DEF Reload, Blank, ShownTrue
<1> QED BY <1>3, <1>5, <1>6 DEF StillBelieving

LEMMA AiPickTrue ==
  ASSUME NEW w, Believing(w), AiPick
  PROVE  StillBelieving(w)
<1> DEFINE limits == IF shown.request = Nothing THEN [maxPrice |-> FormMaxPrice]
                     ELSE [maxPrice |-> FormMaxPrice,
                           maxDeadline |-> shown.request.of.asked.maxDeadline]
           arg == [id |-> shown.book.id, book |-> Candidates(shown.book.of), limits |-> limits]
<1>1. Starts("pick", <<"rank">>, arg, page) /\ UNCHANGED shown /\ shown.book # Nothing
  BY DEF AiPick
<1>2. "maxPrice" \in DOMAIN limits /\ limits.maxPrice = FormMaxPrice
  OBVIOUS
<1> HIDE DEF limits
<1>3. /\ arg.id = shown.book.id /\ arg.book = shown.book.of /\ arg.limits = limits
  BY DEF Candidates
<1> HIDE DEF arg
<1>4. RankTrue(arg, w)
  BY <1>1, <1>2, <1>3 DEF RankTrue, Believing, ShownTrue
<1>5. ArgTrue("rank", "pick", arg, w)
  BY <1>4 DEF ArgTrue
<1>6. /\ <<"rank">> \in Seq(Awaits) /\ <<"rank">>[1] = "rank"
      /\ \A i \in DOMAIN <<"rank">> : i > 1 => <<"rank">>[i] \notin Acts
  BY DEF Awaits
<1>7. PageTrue(page', w) /\ AllBelieve(handlers', w)
  BY <1>1, <1>5, <1>6, StartsTrue DEF Believing
<1> QED BY <1>1, <1>7 DEF Believing, StillBelieving

\* A click that sends something.
LEMMA SendTrue ==
  ASSUME NEW w, Believing(w), NEW name, NEW last, ReadOnly(last), NEW call, NEW p,
         PageTrue(p, w), CallTrue(name, call, w), Send(name, last, call, p)
  PROVE  StillBelieving(w)
<1> DEFINE plan == <<"send">> \o Refresh \o last
<1>1. Starts(name, plan, call, p) /\ UNCHANGED shown
  BY DEF Send
<1>2. plan \in Seq(Awaits) /\ \A i \in DOMAIN plan : i > 1 => plan[i] \notin Acts
  BY SendingPlans
<1>3. plan[1] = "send"
  <2>1. Refresh \in Seq(Awaits) /\ last \in Seq(Awaits) /\ <<"send">> \in Seq(Awaits)
    BY ReadingPlans DEF ReadOnly, Awaits
  <2>2. /\ (<<"send">> \o Refresh)[1] = "send" /\ <<"send">> \o Refresh \in Seq(Awaits)
        /\ Len(<<"send">> \o Refresh) = 1 + Len(Refresh) /\ Len(Refresh) \in Nat
    BY <2>1
  <2> DEFINE both == <<"send">> \o Refresh
  <2> HIDE DEF both
  <2>3. (both \o last)[1] = both[1]
    BY <2>1, <2>2 DEF both
  <2> QED BY <2>2, <2>3 DEF both
<1> HIDE DEF plan
<1>4. ArgTrue("send", name, call, w)
  BY DEF ArgTrue
<1>5. PageTrue(page', w) /\ AllBelieve(handlers', w)
  BY <1>1, <1>2, <1>3, <1>4, StartsTrue
<1> QED BY <1>1, <1>5 DEF Believing, StillBelieving

LEMMA SendingTrue ==
  ASSUME NEW w, Believing(w), Sending
  PROVE  StillBelieving(w)
<1>0. /\ PageShape(page) /\ PageTrue(page, w)
      /\ ReadOnly(<<>>) /\ ReadOnly(<<"adopt">>) /\ ReadOnly(<<"bids">>)
  BY ReadingPlans DEF Believing, KeptInv
<1>1. CASE SendHashes
  <2> DEFINE codes == IF kept[page.id] = 0 THEN draws + 1 ELSE kept[page.id]
             p == [page EXCEPT !.codes = codes]
             arg == [id |-> page.id, codes |-> codes]
  <2>1. Send("publishHashes", <<>>, arg, p) /\ page.id # Nothing
    BY <1>1 DEF SendHashes
  <2> HIDE DEF codes
  <2>2. PageTrue(p, w)
    BY <1>0, EditedTrue
  <2>3. CallTrue("publishHashes", arg, w)
    BY <1>0, <2>1 DEF CallTrue, PageTrue, Exists
  <2> HIDE DEF p, arg
  <2> QED BY <1>0, <2>1, <2>2, <2>3, SendTrue
<1>2. CASE ~SendHashes
  <2> DEFINE accept == [id |-> page.id, index |-> page.index, pick |-> page.pick]
             about == [id |-> page.id]
             call == [vault |-> page.vault, codes |-> page.codes]
  <2>1. \/ Send("openRequest", <<"adopt">>, Nothing, page)
        \/ Send("pool", <<>>, Nothing, page)
        \/ Send("setAgent", <<>>, Nothing, page)
        \/ page.id # Nothing /\ Send("acceptBid", <<"adopt">>, accept, page)
        \/ page.id # Nothing /\ Send("placeBid", <<"bids">>, about, page)
        \/ page.id # Nothing /\ Send("withdrawBid", <<"bids">>, about, page)
        \/ page.vault # Nothing /\ Send("vault", <<>>, call, page)
    BY <1>2 DEF Sending
  <2>2. /\ CallTrue("openRequest", Nothing, w) /\ CallTrue("pool", Nothing, w)
        /\ CallTrue("setAgent", Nothing, w)
    BY DEF CallTrue
  <2>3. page.id # Nothing =>
          /\ CallTrue("acceptBid", accept, w)
          /\ CallTrue("placeBid", about, w) /\ CallTrue("withdrawBid", about, w)
    BY <1>0 DEF CallTrue, PageTrue, Exists
  <2>4. page.vault # Nothing => CallTrue("vault", call, w)
    BY <1>0 DEF CallTrue, PageTrue
  <2> HIDE DEF accept, about, call
  <2> QED BY <1>0, <2>1, <2>2, <2>3, <2>4, SendTrue
<1> QED BY <1>1, <1>2

\* A handler that waits is in shape, and so is what is left of it.
LEMMA WaitingTrue ==
  ASSUME NEW w, Believing(w), NEW t \in Slots, handlers[t] # Nothing
  PROVE  LET h == handlers[t]
         IN  /\ Shape(h) /\ h.plan # <<>> /\ Head(h.plan) = h.plan[1] /\ Believes(h, w)
             /\ Shape(Rest(h)) /\ Rest(h).event = h.event /\ ReadOnly(Rest(h).plan)
<1>1. Waits(handlers[t], kept) /\ Believes(handlers[t], w)
  BY DEF Believing, KeptInv, Sound, AllBelieve
<1>2. /\ Shape(Rest(handlers[t])) /\ Rest(handlers[t]).event = handlers[t].event
      /\ ReadOnly(Rest(handlers[t]).plan)
  BY <1>1, RestIsSound
<1> QED BY <1>1, <1>2 DEF Waits, Shape

LEMMA MinedTrue ==
  ASSUME NEW w, Believing(w), w.req = requests', NEW t \in Slots, Mined(t),
         DOMAIN sellerNonce = Sellers, DOMAIN requests = Ids
  PROVE  StillBelieving(w)
<1> DEFINE h == handlers[t]
           r == Rest(h)
<1>1. PICK event \in {Nothing} \cup Ids \cup Vaults :
        /\ Executed(h.name, h.arg, event)
        /\ RunOn(handlers, t, [r EXCEPT !.event = event], page)
  BY DEF Mined
<1>2. /\ h # Nothing /\ UNCHANGED shown /\ Sound(handlers, kept) /\ PageTrue(page, w)
      /\ AllBelieve(handlers, w) /\ ShownTrue(shown, w)
  BY DEF Mined, At, Believing, KeptInv
<1>3. Shape(r) /\ ReadOnly(r.plan)
  BY <1>2, WaitingTrue
<1>4. event \in Ids => Exists(event, w)
  <2> SUFFICES ASSUME event \in Ids PROVE requests'[event] # NoRequest
    BY DEF Exists
  <2>1. event # Nothing /\ event \notin Vaults
    BY ConsoleConstants
  <2>2. /\ \E q \in RequestTerms : OpenRequest(event[1], q)
        /\ event[2] = sellerNonce'[event[1]]
    BY <1>1, <2>1 DEF Executed
  <2>3. PICK q \in RequestTerms : OpenRequest(event[1], q)
    BY <2>2
  <2> DEFINE n == sellerNonce[event[1]] + 1
             key == <<event[1], n>>
  <2>4. /\ requests' = [requests EXCEPT ![key] = [asked |-> q, hashed |-> FALSE,
                            stage |-> "Open", acceptedBid |-> 0, vault |-> NoVault]]
        /\ sellerNonce' = [sellerNonce EXCEPT ![event[1]] = n]
    BY <2>3 DEF OpenRequest
  <2>5. n = event[2] /\ event = <<event[1], event[2]>>
    BY <2>2, <2>4 DEF Ids
  <2> DEFINE rec == [asked |-> q, hashed |-> FALSE, stage |-> "Open",
                     acceptedBid |-> 0, vault |-> NoVault]
  <2>6. rec \in RequestRecords
    BY DEF RequestRecords
  <2> HIDE DEF rec, n
  <2>7. requests' = [requests EXCEPT ![event] = rec]
    BY <2>4, <2>5 DEF rec
  <2> QED BY <2>6, <2>7, MarketConstants
<1> DEFINE g == [r EXCEPT !.event = event]
<1>5. /\ Shape(g) /\ g.event = event /\ g.plan = r.plan /\ EventTrue(g.event, w)
  <2> HIDE DEF r
  <2>1. g = [name |-> r.name, plan |-> r.plan, arg |-> r.arg, answer |-> r.answer,
             event |-> event, alone |-> r.alone]
    BY <1>3 DEF Shape
  <2> HIDE DEF g
  <2>2. Shape(g) /\ g.event = event /\ g.plan = r.plan
    BY <1>3, <2>1 DEF Shape
  <2> QED BY <1>4, <2>2 DEF EventTrue
<1>6. RunOn(handlers, t, g, page)
  BY <1>1
<1> HIDE DEF g, r, h
<1>7. g.plan # <<>> => g.plan[1] \notin Acts
  BY <1>3, <1>5 DEF ReadOnly
<1>8. PageTrue(page', w) /\ AllBelieve(handlers', w)
  BY <1>2, <1>5, <1>6, <1>7, RunOnTrue
<1> QED BY <1>2, <1>8 DEF StillBelieving

LEMMA FailedTrue ==
  ASSUME NEW w, Believing(w), NEW t \in Slots, Failed(t)
  PROVE  StillBelieving(w)
<1>1. /\ handlers' = [handlers EXCEPT ![t] = Nothing] /\ UNCHANGED <<page, shown>>
      /\ Sound(handlers, kept)
  BY DEF Failed, Believing, KeptInv
<1>2. AllBelieve(handlers', w)
  BY <1>1 DEF Believing, AllBelieve, Sound
<1> QED BY <1>1, <1>2 DEF Believing, StillBelieving

\* What the node and the server answer is true when they answer it.
LEMMA AnswerTrueNow ==
  ASSUME MarketInv, NEW w, w.req = requests, w.bid = bids, w.vlt = vault,
         Believing(w), NEW t \in Slots, Answer(t)
  PROVE  \E a : /\ handlers' = [handlers EXCEPT ![t].answer = a]
                /\ AnswerTrue(handlers[t].plan[1], handlers[t].arg, a, w)
<1> DEFINE h == handlers[t]
           step == h.plan[1]
<1>1. h # Nothing /\ Head(h.plan) = step /\ ArgTrue(step, h.name, h.arg, w)
  BY WaitingTrue DEF Answer, Believes
<1>2. /\ requests \in [Ids -> RequestRecords \cup {NoRequest}]
      /\ bids \in [Ids -> Seq(BidRecords)]
  BY DEF MarketInv, MarketTypes
<1> DEFINE replies(a) == handlers' = [handlers EXCEPT ![t].answer = a]
           told(a) == \E b : replies(b) /\ AnswerTrue(step, h.arg, b, w)
<1>3. ASSUME step = "details", replies([request |-> requests[h.arg.id]])
      PROVE  told([request |-> requests[h.arg.id]])
  <2> DEFINE a == [request |-> requests[h.arg.id]]
  <2>1. Exists(h.arg.id, w)
    BY <1>1, <1>3 DEF ArgTrue
  <2>2. OnceAsked(requests[h.arg.id], h.arg.id, w)
    BY <1>2, <2>1, RequestStays DEF OnceAsked, Exists
  <2>3. AnswerTrue(step, h.arg, a, w)
    BY <1>3, <2>2 DEF AnswerTrue
  <2> QED BY <1>3, <2>3
<1>4. ASSUME step = "status", Deployed(h.arg.vault), replies([status |-> Snapshot(h.arg.vault)])
      PROVE  told([status |-> Snapshot(h.arg.vault)])
  <2> DEFINE a == [status |-> Snapshot(h.arg.vault)]
  <2>1. OnceSo(Snapshot(h.arg.vault), vault[h.arg.vault])
    BY <1>4 DEF OnceSo, Snapshot, Deployed
  <2>2. AnswerTrue(step, h.arg, a, w)
    BY <1>4, <2>1 DEF AnswerTrue
  <2> QED BY <1>4, <2>2
<1>5. ASSUME step = "bids", replies([bids |-> bids[h.arg.id]])
      PROVE  told([bids |-> bids[h.arg.id]])
  <2> DEFINE a == [bids |-> bids[h.arg.id]]
  <2>1. Exists(h.arg.id, w)
    BY <1>1, <1>5 DEF ArgTrue
  <2>2. OnceBid(bids[h.arg.id], h.arg.id, w)
    BY <1>2, <2>1, BidsStay DEF OnceBid, Exists
  <2>3. AnswerTrue(step, h.arg, a, w)
    BY <1>5, <2>2 DEF AnswerTrue
  <2> QED BY <1>5, <2>3
<1>6. ASSUME step = "rank",
             replies([winner |-> Rank(h.arg.book, h.arg.limits, PreferTrusted, now)])
      PROVE  told([winner |-> Rank(h.arg.book, h.arg.limits, PreferTrusted, now)])
  <2> DEFINE win == Rank(h.arg.book, h.arg.limits, PreferTrusted, now)
             a == [winner |-> win]
             book == h.arg.book
             limits == h.arg.limits
  <2>1. RankTrue(h.arg, w)
    BY <1>1, <1>6 DEF ArgTrue
  <2>2. book \in Seq(BidRecords) /\ "maxPrice" \in DOMAIN limits
        /\ limits.maxPrice = FormMaxPrice
    BY <2>1 DEF RankTrue, OnceBid
  <2>3. win # 0 => /\ win \in DOMAIN book
                   /\ ~Filtered(book[win].offered, book[win].withdrawn, limits, now)
    BY <2>2, WinnerIsTakeable
  <2> HIDE DEF win, book, limits
  <2>4. win # 0 => book[win].offered.price <= FormMaxPrice
    <3> SUFFICES ASSUME win # 0 PROVE book[win].offered.price <= FormMaxPrice
      OBVIOUS
    <3>1. book[win] \in BidRecords
      BY <2>2, <2>3
    <3>2. book[win].offered \in BidTerms
      BY <3>1 DEF BidRecords
    <3>3. book[win].offered.price \in Nat
      BY <3>2, MarketConstants
    <3>4. ~(book[win].offered.price > limits.maxPrice)
      BY <2>2, <2>3 DEF Filtered
    <3> QED BY <2>2, <3>3, <3>4, ConsoleConstants
  <2>5. AnswerTrue(step, h.arg, a, w)
    BY <1>6, <2>3, <2>4 DEF AnswerTrue, book
  <2> QED BY <1>6, <2>5 DEF win
<1>7. \/ step = "details" /\ replies([request |-> requests[h.arg.id]])
      \/ /\ step = "status" /\ Deployed(h.arg.vault)
         /\ replies([status |-> Snapshot(h.arg.vault)])
      \/ step = "bids" /\ replies([bids |-> bids[h.arg.id]])
      \/ /\ step = "rank"
         /\ replies([winner |-> Rank(h.arg.book, h.arg.limits, PreferTrusted, now)])
  BY <1>1 DEF Answer, At
<1> HIDE DEF step, replies
<1>8. \E b : replies(b) /\ AnswerTrue(step, h.arg, b, w)
  BY <1>3, <1>4, <1>5, <1>6, <1>7
<1> QED BY <1>8 DEF replies, step

LEMMA AnsweringTrue ==
  ASSUME MarketInv, NEW w, w.req = requests, w.bid = bids, w.vlt = vault,
         Believing(w), NEW t \in Slots, Answer(t)
  PROVE  StillBelieving(w)
<1> DEFINE h == handlers[t]
<1>1. PICK a : /\ handlers' = [handlers EXCEPT ![t].answer = a]
               /\ AnswerTrue(h.plan[1], h.arg, a, w)
  BY AnswerTrueNow
<1> DEFINE d == [h EXCEPT !.answer = a]
<1>2. h # Nothing /\ UNCHANGED <<page, shown>> /\ Sound(handlers, kept)
  BY DEF Answer, Believing, KeptInv
<1>3. Shape(h) /\ Believes(h, w)
  BY <1>2, WaitingTrue
<1>4. handlers' = [handlers EXCEPT ![t] = d]
  BY <1>1, <1>2 DEF Sound
<1> HIDE DEF h
<1>5. /\ d.plan = h.plan /\ d.name = h.name /\ d.arg = h.arg
      /\ d.event = h.event /\ d.answer = a
  BY <1>3 DEF Shape
<1> HIDE DEF d
<1>6. Believes(d, w)
  BY <1>1, <1>3, <1>5 DEF Believes
<1>7. AllBelieve(handlers', w)
  BY <1>2, <1>4, <1>6 DEF Believing, AllBelieve, Sound
<1> QED BY <1>2, <1>7 DEF Believing, StillBelieving

\* A handler that goes on with an answer.
LEMMA GoesOnTrue ==
  ASSUME NEW w, Believing(w), NEW t \in Slots, handlers[t] # Nothing,
         NEW p, PageTrue(p, w), GoesOn(t, p)
  PROVE  PageTrue(page', w) /\ AllBelieve(handlers', w)
<1> DEFINE h == handlers[t]
           r == Rest(h)
<1>1. /\ RunOn(handlers, t, r, p) /\ Sound(handlers, kept) /\ AllBelieve(handlers, w)
  BY DEF GoesOn, Believing, KeptInv
<1>2. /\ Shape(r) /\ EventTrue(r.event, w) /\ ReadOnly(r.plan)
  BY WaitingTrue DEF Believes
<1> HIDE DEF r
<1>3. r.plan # <<>> => r.plan[1] \notin Acts
  BY <1>2 DEF ReadOnly
<1> QED BY <1>1, <1>2, <1>3, RunOnTrue

LEMMA UsingTrue ==
  ASSUME NEW w, Believing(w), NEW t \in Slots,
         UseList(t) \/ UseDetails(t) \/ UseStatus(t) \/ UseBids(t) \/ UsePick(t)
  PROVE  StillBelieving(w)
<1> DEFINE h == handlers[t]
           step == h.plan[1]
<1>1. h # Nothing /\ PageShape(page) /\ PageTrue(page, w) /\ ShownTrue(shown, w)
  BY DEF UseList, UseDetails, UseStatus, UseBids, UsePick, At, Believing, KeptInv
<1>2. /\ Head(h.plan) = step /\ ArgTrue(step, h.name, h.arg, w)
      /\ h.answer # Nothing => AnswerTrue(step, h.arg, h.answer, w)
  BY <1>1, WaitingTrue DEF Believes
<1>3. CASE UseList(t)
  <2>1. GoesOn(t, page) /\ UNCHANGED shown
    BY <1>3 DEF UseList
  <2> QED BY <1>1, <2>1, GoesOnTrue DEF StillBelieving
<1>4. CASE UseDetails(t)
  <2> DEFINE r == h.answer.request
             new == [id |-> h.arg.id, of |-> r]
             p == SetVaultAddress(page, r.vault)
  <2>1. /\ step = "details" /\ h.answer # Nothing
        /\ shown' = [shown EXCEPT !.request = new] /\ GoesOn(t, p)
    BY <1>2, <1>4 DEF UseDetails, At, Answered
  <2>2. Exists(h.arg.id, w) /\ OnceAsked(r, h.arg.id, w)
    BY <1>2, <2>1 DEF ArgTrue, AnswerTrue
  <2>3. r.vault \in Vaults \cup {NoVault}
    BY <2>2 DEF OnceAsked, RequestRecords
  <2>4. PageTrue(p, w)
    BY <1>1, <2>3 DEF SetVaultAddress, PageTrue, PageShape
  <2>5. PageTrue(page', w) /\ AllBelieve(handlers', w)
    BY <1>1, <2>1, <2>4, GoesOnTrue
  <2>6. new.id = h.arg.id /\ new.of = r
    OBVIOUS
  <2> HIDE DEF p, r, new, h
  <2>7. /\ shown'.request = new /\ shown'.status = shown.status /\ shown'.book = shown.book
        /\ shown' = [request |-> new, status |-> shown.status, book |-> shown.book]
    BY <1>1, <2>1 DEF ShownTrue
  <2>8. ShownTrue(shown', w)
    BY <1>1, <2>2, <2>6, <2>7 DEF ShownTrue
  <2> QED BY <2>5, <2>8 DEF StillBelieving
<1>5. CASE UseStatus(t)
  <2> DEFINE new == [vault |-> h.arg.vault, of |-> h.answer.status]
  <2>1. /\ step = "status" /\ h.answer # Nothing
        /\ shown' = [shown EXCEPT !.status = new] /\ GoesOn(t, page)
    BY <1>2, <1>5 DEF UseStatus, At, Answered
  <2>2. h.arg.vault \in Vaults /\ OnceSo(h.answer.status, w.vlt[h.arg.vault])
    BY <1>2, <2>1 DEF ArgTrue, AnswerTrue
  <2>3. PageTrue(page', w) /\ AllBelieve(handlers', w)
    BY <1>1, <2>1, GoesOnTrue
  <2>4. new.vault = h.arg.vault /\ new.of = h.answer.status
    OBVIOUS
  <2> HIDE DEF new, h
  <2>5. /\ shown'.request = shown.request /\ shown'.status = new /\ shown'.book = shown.book
        /\ shown' = [request |-> shown.request, status |-> new, book |-> shown.book]
    BY <1>1, <2>1 DEF ShownTrue
  <2>6. ShownTrue(shown', w)
    BY <1>1, <2>2, <2>4, <2>5 DEF ShownTrue
  <2> QED BY <2>3, <2>6 DEF StillBelieving
<1>6. CASE UseBids(t)
  <2> DEFINE new == [id |-> h.arg.id, of |-> h.answer.bids]
  <2>1. /\ step = "bids" /\ h.answer # Nothing
        /\ shown' = [shown EXCEPT !.book = new] /\ GoesOn(t, page)
    BY <1>2, <1>6 DEF UseBids, At, Answered
  <2>2. Exists(h.arg.id, w) /\ OnceBid(h.answer.bids, h.arg.id, w)
    BY <1>2, <2>1 DEF ArgTrue, AnswerTrue
  <2>3. PageTrue(page', w) /\ AllBelieve(handlers', w)
    BY <1>1, <2>1, GoesOnTrue
  <2>4. new.id = h.arg.id /\ new.of = h.answer.bids
    OBVIOUS
  <2> HIDE DEF new, h
  <2>5. /\ shown'.request = shown.request /\ shown'.status = shown.status /\ shown'.book = new
        /\ shown' = [request |-> shown.request, status |-> shown.status, book |-> new]
    BY <1>1, <2>1 DEF ShownTrue
  <2>6. ShownTrue(shown', w)
    BY <1>1, <2>2, <2>4, <2>5 DEF ShownTrue
  <2> QED BY <2>3, <2>6 DEF StillBelieving
<1>7. CASE UsePick(t)
  <2> DEFINE sent == h.arg
             win == h.answer.winner
             pick == [id |-> sent.id, bid |-> sent.book[win]]
             p == IF win = 0 THEN page ELSE [page EXCEPT !.index = win, !.pick = pick]
  <2>1. /\ step = "rank" /\ h.answer # Nothing /\ GoesOn(t, p) /\ UNCHANGED shown
    BY <1>2, <1>7 DEF UsePick, At, Answered
  <2>2. /\ RankTrue(sent, w)
        /\ win # 0 => /\ win \in DOMAIN sent.book
                      /\ sent.book[win].offered.price <= FormMaxPrice
    BY <1>2, <2>1 DEF ArgTrue, AnswerTrue
  <2>3. pick.id = sent.id /\ pick.bid = sent.book[win]
    OBVIOUS
  <2> HIDE DEF sent, win, pick
  <2>4. win # 0 => PickTrue(pick, win, w)
    BY <2>2, <2>3 DEF RankTrue, Exists, OnceBid, StaysIn, PickTrue
  <2>5. win # 0 => /\ p.id = page.id /\ p.vault = page.vault
                   /\ p.index = win /\ p.pick = pick
    BY <1>1 DEF PageShape
  <2>6. win = 0 => p = page
    OBVIOUS
  <2> HIDE DEF p
  <2>7. PageTrue(p, w)
    BY <1>1, <2>4, <2>5, <2>6 DEF PageTrue
  <2> QED BY <1>1, <2>1, <2>7, GoesOnTrue DEF StillBelieving
<1> QED BY <1>3, <1>4, <1>5, <1>6, <1>7

LEMMA ElsewhereTrue ==
  ASSUME NEW w, Believing(w), Elsewhere
  PROVE  StillBelieving(w)
<1>1. handlers' = Disturbed /\ UNCHANGED <<page, shown>>
  BY DEF Elsewhere
<1> QED BY <1>1, DisturbedTrue DEF Believing, StillBelieving

-----------------------------------------------------------------------------
(* The invariant.                                                          *)

LEMMA ConsoleStart == ConsoleInit => ConsoleInv
<1> SUFFICES ASSUME ConsoleInit PROVE ConsoleInv
  OBVIOUS
<1>1. /\ PoolType /\ Solvent /\ MembersHoldAll
      /\ activeValue = 0 /\ \A a \in Accounts : reserved[a] = 0
  BY StakedPool DEF ConsoleInit
<1>2. PICK scene \in Scenes, q \in {r \in RequestTerms : r.declaredValue > 0} :
         /\ sellerNonce = [s \in Sellers |-> Len(scene)]
         /\ bids = [id \in Ids |-> IF id[2] \in DOMAIN scene THEN scene[id[2]] ELSE <<>>]
         /\ requests = [id \in Ids |->
              IF id[2] \notin DOMAIN scene THEN NoRequest
              ELSE [asked |-> q, hashed |-> TRUE, stage |-> "Open",
                    acceptedBid |-> 0, vault |-> NoVault]]
  BY DEF ConsoleInit
<1> DEFINE yes == TRUE
           rec == [asked |-> q, hashed |-> yes, stage |-> "Open",
                   acceptedBid |-> 0, vault |-> NoVault]
<1>3. /\ rec \in RequestRecords /\ rec.stage = "Open" /\ rec.asked = q
      /\ rec.vault = NoVault /\ rec.acceptedBid = 0
  BY DEF RequestRecords
<1>4. /\ scene \in Seq(Seq([courier : Accounts, offered : BidTerms, withdrawn : BOOLEAN]))
      /\ Len(scene) \in 1..MaxRequests
      /\ \A n \in DOMAIN scene :
              /\ Len(scene[n]) <= MaxBids
              /\ \A i \in DOMAIN scene[n] : scene[n][i].offered.promisedTime > 1
  BY ConsoleConstants
<1>5. \A n \in DOMAIN scene : scene[n] \in Seq(BidRecords)
  BY <1>4 DEF BidRecords
<1>6. bids \in [Ids -> Seq(BidRecords)]
  BY <1>2, <1>5
<1>7. requests = [id \in Ids |-> IF id[2] \notin DOMAIN scene THEN NoRequest ELSE rec]
  BY <1>2
<1> HIDE DEF rec
<1>8. requests \in [Ids -> RequestRecords \cup {NoRequest}]
  BY <1>3, <1>7
<1>9. \A id \in Ids : Opened(id) => id[2] \in DOMAIN scene /\ requests[id] = rec
  BY <1>7 DEF Opened
<1>10. \A id \in Ids : Len(bids[id]) \in Nat /\ Len(bids[id]) <= MaxBids
  BY <1>2, <1>4, <1>5, RegistryConstants
<1>11. \A id \in Ids : RequestSound(id)
  BY <1>3, <1>9, <1>10 DEF RequestSound
<1>12. \A id \in Ids : BidsSound(id)
  BY <1>2, <1>4 DEF BidsSound
<1>13. \A id \in Ids : ~InStage(id, "Assigned")
  BY <1>3, <1>9 DEF InStage
<1>14. MarketInv
  <2>1. now \in Nat \ {0} /\ VaultInit
    BY DEF ConsoleInit
  <2>2. RequestsSound
    BY <1>11, <1>12 DEF RequestsSound
  <2> QED BY <1>1, <1>6, <1>8, <1>13, <2>1, <2>2, FreshMarket
<1>15. ListsBounded /\ DOMAIN sellerNonce = Sellers
  BY <1>2, <1>10 DEF ListsBounded
<1>16. PageTrue(page, World)
  <2>1. PICK start \in {Nothing} \cup {id \in Ids : id[2] = 1} :
         page = [on |-> start # Nothing, id |-> start, vault |-> Nothing, index |-> 1,
                 codes |-> 0, pick |-> Nothing]
    BY DEF ConsoleInit
  <2>2. page.id = start /\ page.vault = Nothing /\ page.pick = Nothing
    BY <2>1
  <2>3. start # Nothing => Exists(start, World)
    BY <1>3, <1>4, <1>7, MarketConstants DEF Exists, World
  <2> QED BY <2>2, <2>3 DEF PageTrue
<1>17. AllBelieve(handlers, World) /\ ShownTrue(shown, World)
  BY DEF ConsoleInit, AllBelieve, Blank, ShownTrue
<1> QED BY <1>14, <1>15, <1>16, <1>17, KeptInit DEF ConsoleInv

LEMMA ConsoleStep == ConsoleInv /\ [ConsoleNext]_consoleVars => ConsoleInv'
<1> SUFFICES ASSUME ConsoleInv, [ConsoleNext]_consoleVars PROVE ConsoleInv'
  OBVIOUS
<1>1. KeptInv' /\ MarketInv' /\ ListsBounded' /\ DOMAIN sellerNonce' = Sellers
  BY KeptStep, WorldGoesOn DEF ConsoleInv
<1> DEFINE w == World'
<1>2. Believing(w)
  BY WorldGoesOn DEF Believing, ConsoleInv
<1>3. UNCHANGED vars => w.req = requests /\ w.bid = bids /\ w.vlt = vault
  BY DEF World, vars, registryVars
<1>4. w.req = requests'
  BY DEF World
<1>5. DOMAIN requests = Ids /\ MarketInv
  BY DEF ConsoleInv, MarketInv, MarketTypes
<1> HIDE DEF w
<1>6. Reading => StillBelieving(w)
  BY <1>2, <1>3, ReadingTrue DEF Reading, ChainUnchanged
<1>7. Reload \/ AiPick \/ Sending \/ Elsewhere => StillBelieving(w)
  BY <1>2, ReloadTrue, AiPickTrue, SendingTrue, ElsewhereTrue
<1>8. ASSUME NEW t \in Slots, Mined(t) PROVE StillBelieving(w)
  BY <1>2, <1>4, <1>5, <1>8, MinedTrue DEF ConsoleInv
<1>9. ASSUME NEW t \in Slots, Answer(t) PROVE StillBelieving(w)
  BY <1>2, <1>3, <1>5, <1>9, AnsweringTrue DEF Answer, ChainUnchanged
<1>10. ASSUME NEW t \in Slots, \/ Failed(t) \/ UseList(t) \/ UseDetails(t)
                               \/ UseStatus(t) \/ UseBids(t) \/ UsePick(t)
       PROVE  StillBelieving(w)
  BY <1>2, <1>10, FailedTrue, UsingTrue
<1>11. UNCHANGED consoleVars => StillBelieving(w)
  BY <1>2 DEF consoleVars, Believing, StillBelieving, AllBelieve
<1>12. StillBelieving(w)
  BY <1>6, <1>7, <1>8, <1>9, <1>10, <1>11 DEF ConsoleNext
<1> QED BY <1>1, <1>12 DEF ConsoleInv, StillBelieving, w

\* What the page is sure of, for any number of handlers and of requests, and
\* the whole invariant of the market under it: its user is one of many.
THEOREM ThePageIsSound == ConsoleSpec => []ConsoleInv
BY ConsoleStart, ConsoleStep, PTL DEF ConsoleSpec

\* However late an answer comes and whatever is clicked meanwhile, the request,
\* the bids and the vault the page shows were once so: it lags, and never runs
\* ahead of the chain.
THEOREM ThePageNeverRunsAhead == ConsoleSpec => []NeverAhead
<1>1. ConsoleInv => NeverAhead
  <2> SUFFICES ASSUME ConsoleInv PROVE NeverAhead
    OBVIOUS
  <2>0. ShownTrue(shown, World)
    BY DEF ConsoleInv
  <2>1. shown.request # Nothing =>
          LET old == shown.request.of  new == requests[shown.request.id]
          IN  /\ old.asked = new.asked /\ (old.hashed => new.hashed)
              /\ old.stage # "Open" => old = new
    BY <2>0, MarketConstants
       DEF ShownTrue, OnceAsked, RequestGoesOn, World
  <2>2. shown.status # Nothing =>
          LET old == shown.status.of  new == Snapshot(shown.status.vault)
          IN  /\ old.courierFee = new.courierFee
              /\ old.funded => new.funded
              /\ old.disputed => new.disputed
              /\ old.finalized => new.finalized /\ old.state = new.state
              /\ old.state # "Funded" => new.state # "Funded"
    BY <2>0 DEF ShownTrue, OnceSo, Snapshot, World
  <2>3. shown.book # Nothing =>
          LET old == shown.book.of  new == bids[shown.book.id]
          IN  \A i \in DOMAIN old :
                /\ i \in DOMAIN new /\ old[i].offered = new[i].offered
                /\ old[i].withdrawn => new[i].withdrawn
    BY <2>0 DEF ShownTrue, OnceBid, StaysIn, World
  <2> QED BY <2>1, <2>2, <2>3 DEF NeverAhead
<1> QED BY <1>1, ThePageIsSound, PTL

-----------------------------------------------------------------------------
(* The pick behind an index that is sent.                                  *)

\* The index the agent picked, sent for the delivery whose bids it ranked,
\* accepts the very bid it ranked, at the price it ranked and within the
\* form's limit: bids keep their place, however long the answers took.
THEOREM TheRankedBidIsAccepted == ConsoleSpec => PickedBidIsAccepted
<1> DEFINE Kept(t) ==
        LET call == handlers[t].arg
        IN  /\ At(t, "send") /\ handlers[t].name = "acceptBid"
            /\ call.pick # Nothing /\ call.pick.id = call.id
            /\ Mined(t)
            => /\ bids[call.id][call.index].offered = call.pick.bid.offered
               /\ vault'[requests'[call.id].vault].terms.courier = call.pick.bid.courier
               /\ vault'[requests'[call.id].vault].terms.courierFee <= FormMaxPrice
<1>1. ASSUME ConsoleInv, NEW t \in Slots PROVE Kept(t)
  <2> DEFINE call == handlers[t].arg
             i == call.index
             id == call.id
  <2> SUFFICES ASSUME At(t, "send"), handlers[t].name = "acceptBid", call.pick # Nothing,
                      call.pick.id = id, Mined(t)
               PROVE  /\ bids[id][i].offered = call.pick.bid.offered
                      /\ vault'[requests'[id].vault].terms.courier = call.pick.bid.courier
                      /\ vault'[requests'[id].vault].terms.courierFee <= FormMaxPrice
    OBVIOUS
  <2>1. CallTrue("acceptBid", call, World)
    BY <1>1, CallOf
  <2> HIDE DEF call
  <2>2. PickTrue(call.pick, i, World)
    BY <2>1 DEF CallTrue
  <2>3. /\ bids[id][i].courier = call.pick.bid.courier
        /\ bids[id][i].offered = call.pick.bid.offered
        /\ call.pick.bid.offered.price <= FormMaxPrice
    BY <2>2 DEF PickTrue, World
  <2>4. PICK event \in {Nothing} \cup Ids \cup Vaults :
          Executed(handlers[t].name, handlers[t].arg, event)
    BY DEF Mined
  <2>5. event \in Vaults /\ AcceptBid(id, i, event)
    BY <2>4 DEF Executed, call
  <2> DEFINE q == [requests[id] EXCEPT !.stage = "Assigned", !.acceptedBid = i, !.vault = event]
             terms == TermsOf(id, i)
             s == [Fresh(terms) EXCEPT !.initialized = TRUE]
  <2>6. /\ requests' = [requests EXCEPT ![id] = q] /\ vault' = [vault EXCEPT ![event] = s]
        /\ Opened(id)
    BY <2>5 DEF AcceptBid, Accept, Assign, SpawnVault, InStage
  <2>7. /\ id \in Ids /\ requests \in [Ids -> RequestRecords \cup {NoRequest}]
        /\ vault \in [Vaults -> VaultRecords \cup {NoVault}]
    BY <1>1, <2>2 DEF PickTrue, ConsoleInv, MarketInv, MarketTypes, VaultTypes
  <2>8. q.vault = event
    BY <2>6, <2>7 DEF Opened, RequestRecords
  <2>9. /\ terms.courier = bids[id][i].courier
        /\ terms.courierFee = bids[id][i].offered.price
    BY DEF TermsOf, Contract
  <2> HIDE DEF terms
  <2>10. s.terms = terms
    BY DEF Fresh
  <2> HIDE DEF q, s, i, id
  <2>11. requests'[id].vault = event /\ vault'[event].terms = terms
    BY <2>5, <2>6, <2>7, <2>8, <2>10
  <2> QED BY <2>3, <2>9, <2>11
<1>2. ConsoleInv => \A t \in Slots : Kept(t)
  BY <1>1
<1>3. ConsoleInv /\ [ConsoleNext]_consoleVars => [\A t \in Slots : Kept(t)]_consoleVars
  BY <1>2
<1> QED BY <1>3, ThePageIsSound, PTL DEF ConsoleSpec, PickedBidIsAccepted

-----------------------------------------------------------------------------
(* A handler nothing disturbs.                                             *)

In(step, plan) == \E i \in DOMAIN plan : plan[i] = step

\* What the chain says of a vault.
Told(r) == [state |-> r.state, funded |-> r.funded, finalized |-> r.finalized,
            disputed |-> r.disputed, balance |-> r.balance,
            courierFee |-> r.terms.courierFee]

\* InStep in two halves, as a handler brings them about: the fields p and what
\* is shown s agree with the world w on the request, and on the vault.
DetailsDone(p, s, w) == p.id # Nothing =>
    LET r == w.req[p.id]
    IN  /\ s.request = [id |-> p.id, of |-> r]
        /\ r.vault # NoVault => p.vault = r.vault
StatusDone(p, s, w) == p.id # Nothing /\ p.vault # Nothing =>
    s.status = [vault |-> p.vault, of |-> Told(w.vlt[p.vault])]

\* The handlers of which nothing is claimed.
Aside == {"openRequest", "status", "bids", "pick"}

\* The others refresh.
Refreshing == {"connect", "refresh", "select", "publishHashes", "acceptBid", "placeBid",
               "withdrawBid", "vault", "pool", "setAgent"}
Names == Aside \cup Refreshing

Sends(h) == h.plan # <<>> /\ h.plan[1] = "send"

\* Details are read before the status, and a vault adopted is that of the bid
\* accepted.
Ordered(plan, name) == \A i \in DOMAIN plan :
    /\ plan[i] # "rank" /\ (plan[i] = "adopt" => name = "acceptBid")
    /\ plan[i] = "details" => \E j \in DOMAIN plan : j > i /\ plan[j] = "status"

\* What is not read yet is still to be read; locks are the codes on the chain.
Ready(h, p, s, w, locks) ==
    /\ p.on /\ Ordered(h.plan, h.name)
    /\ In("details", h.plan) \/ DetailsDone(p, s, w)
    /\ In("status", h.plan) \/ StatusDone(p, s, w)
    /\ Sends(h) => /\ h.name # "select"
                   /\ In("details", h.plan) /\ In("status", h.plan)
    /\ h.name = "acceptBid" =>
         /\ p.id # Nothing
         /\ IF Sends(h) THEN h.arg.id = p.id
            ELSE h.event \in Vaults /\ h.event = w.req[p.id].vault
    /\ h.name = "select" => p.id \in Ids /\ (locks[p.id] # 0 => p.codes = locks[p.id])

\* The question asked is that of the fields, and the answer that of the world.
Current(h, p, w) ==
    /\ h.plan[1] \in {"send", "list"} => h.answer = Nothing
    /\ h.plan[1] = "details" =>
         /\ p.id # Nothing /\ h.arg.id = p.id
         /\ h.answer # Nothing => h.answer.request = w.req[p.id]
    /\ h.plan[1] = "status" =>
         /\ h.arg.vault = p.vault
         /\ h.answer # Nothing => h.answer.status = Told(w.vlt[p.vault])

\* After a reload only the receipt is waited for.
Undisturbed(h, p, s, w, locks) ==
    \/ h.plan = <<"send">> /\ h.answer = Nothing
    \/ Ready(h, p, s, w, locks) /\ Current(h, p, w)

AloneSound(running, p, s, w, locks) == \A t \in Slots : running[t] # Nothing =>
    LET h == running[t]
    IN  /\ h.name \in Names /\ h.alone \in BOOLEAN
        /\ h.alone => /\ \A u \in Slots : u # t => running[u] = Nothing
                      /\ h.name \notin Aside => Undisturbed(h, p, s, w, locks)

\* Every click and every move of others counts, and a handler that nothing
\* disturbed is the only one, and has done what its plan has lost.
AloneInv ==
    /\ spent \in [clicks : Nat, moves : Nat]
    /\ AloneSound(handlers, page, shown, World, locked)

-----------------------------------------------------------------------------
(* The next await of a handler that nothing disturbed.                     *)

\* What is left of a plan has its order, and all but its first step.
LEMMA RestKeeps ==
  ASSUME NEW h, NEW storage, Waits(h, storage)
  PROVE  /\ Rest(h).arg = h.arg /\ Rest(h).alone = h.alone /\ ~Sends(Rest(h))
         /\ \A step : In(step, h.plan) /\ h.plan[1] # step => In(step, Rest(h).plan)
         /\ Ordered(h.plan, h.name) => Ordered(Rest(h).plan, h.name)
         /\ Ordered(h.plan, h.name) /\ h.plan[1] = "details" => In("status", Rest(h).plan)
<1> DEFINE n == Len(h.plan)
           tail == Tail(h.plan)
           r == Rest(h)
<1>1. /\ h.plan \in Seq(Awaits) /\ h.plan # <<>> /\ DOMAIN h.plan = 1..n /\ n \in Nat \ {0}
      /\ DOMAIN tail = 1..n - 1 /\ \A i \in 1..n - 1 : tail[i] = h.plan[i + 1]
  BY DEF Waits, Shape
<1>2. r.arg = h.arg /\ r.alone = h.alone /\ r.plan = tail /\ r.name = h.name
  BY DEF Waits, Shape, Rest
<1>3. ~Sends(r)
  BY RestIsSound DEF ReadOnly, Sends, Acts
<1> HIDE DEF n, tail, r
<1>4. \A j \in DOMAIN h.plan : j > 1 => j - 1 \in DOMAIN tail /\ tail[j - 1] = h.plan[j]
  BY <1>1
<1>5. ASSUME NEW step, In(step, h.plan), h.plan[1] # step PROVE In(step, tail)
  <2>1. PICK j \in DOMAIN h.plan : h.plan[j] = step
    BY <1>5 DEF In
  <2>2. j > 1
    BY <1>1, <1>5, <2>1
  <2> QED BY <1>4, <2>1, <2>2 DEF In
<1>6. ASSUME Ordered(h.plan, h.name) PROVE Ordered(r.plan, r.name)
  <2> SUFFICES ASSUME NEW i \in DOMAIN tail
               PROVE  /\ tail[i] # "rank" /\ (tail[i] = "adopt" => h.name = "acceptBid")
                      /\ tail[i] = "details" => \E j \in DOMAIN tail : j > i /\ tail[j] = "status"
    BY <1>2 DEF Ordered
  <2>1. i + 1 \in DOMAIN h.plan /\ tail[i] = h.plan[i + 1] /\ i \in Nat \ {0}
    BY <1>1
  <2>2. ASSUME tail[i] = "details"
        PROVE  \E j \in DOMAIN tail : j > i /\ tail[j] = "status"
    <3>1. PICK j \in DOMAIN h.plan : j > i + 1 /\ h.plan[j] = "status"
      BY <1>6, <2>1, <2>2 DEF Ordered
    <3>2. j - 1 \in DOMAIN tail /\ tail[j - 1] = "status" /\ j - 1 > i
      BY <1>1, <1>4, <2>1, <3>1
    <3> QED BY <3>2
  <2> QED BY <1>6, <2>1, <2>2 DEF Ordered
<1>7. ASSUME Ordered(h.plan, h.name), h.plan[1] = "details" PROVE In("status", tail)
  <2>1. PICK j \in DOMAIN h.plan : j > 1 /\ h.plan[j] = "status"
    BY <1>1, <1>7 DEF Ordered
  <2> QED BY <1>4, <2>1 DEF In
<1> QED BY <1>2, <1>3, <1>5, <1>6, <1>7 DEF r

\* What comes before the next await was left out because the fields said so.
LEMMA NextOfPlan ==
  ASSUME NEW running, NEW t, NEW h, NEW p, Shape(h),
         NEW rest \in Seq(Awaits), NEW k \in 1..Len(h.plan) + 1,
         RunsTo(running, t, h, p, rest, k)
  PROVE  /\ \A step : In(step, h.plan) => In(step, rest) \/ Skipped(step, p)
         /\ \A step : In(step, rest) => In(step, h.plan)
         /\ p.on /\ Sends(h) => rest = h.plan
         /\ Ordered(h.plan, h.name) => Ordered(rest, h.name)
<1> DEFINE n == Len(h.plan)
<1>1. h.plan \in Seq(Awaits) /\ n \in Nat /\ DOMAIN h.plan = 1..n
  BY DEF Shape
<1>2. /\ \A i \in 1..k - 1 : Skipped(h.plan[i], p)
      /\ DOMAIN rest = 1..n - k + 1
      /\ \A i \in DOMAIN rest : rest[i] = h.plan[i + k - 1]
  BY DEF RunsTo
<1> HIDE DEF n
<1>3. k \in 1..n + 1
  BY DEF n
<1>4. \A j \in DOMAIN h.plan : j >= k => j - k + 1 \in DOMAIN rest /\ rest[j - k + 1] = h.plan[j]
  BY SMTT(30), <1>1, <1>2, <1>3
<1>5. ASSUME NEW step, In(step, h.plan) PROVE In(step, rest) \/ Skipped(step, p)
  <2>1. PICK j \in DOMAIN h.plan : h.plan[j] = step
    BY <1>5 DEF In
  <2>2. CASE j >= k
    BY <1>4, <2>1, <2>2 DEF In
  <2>3. CASE ~(j >= k)
    <3>1. j \in 1..k - 1
      BY <1>1, <1>3, <2>3
    <3> QED BY <1>2, <2>1, <3>1
  <2> QED BY <2>2, <2>3
<1>6. \A i \in DOMAIN rest : i + k - 1 \in DOMAIN h.plan /\ rest[i] = h.plan[i + k - 1] /\ i \in Nat
  BY <1>1, <1>2, <1>3
<1>7. \A step : In(step, rest) => In(step, h.plan)
  BY <1>6 DEF In
<1>8. ASSUME p.on, Sends(h) PROVE rest = h.plan
  <2>1. ~Skipped("send", p)
    BY <1>8 DEF Skipped
  <2>2. k = 1
    <3>1. ~(1 \in 1..k - 1)
      BY <1>2, <1>8, <2>1 DEF Sends
    <3> QED BY <1>1, <1>3, <3>1
  <2>3. DOMAIN rest = 1..n /\ \A i \in 1..n : rest[i] = h.plan[i]
    BY <1>1, <1>2, <2>2
  <2>4. Len(rest) = n /\ Len(h.plan) = n
    BY <1>1, <2>3 DEF n
  <2> QED BY <1>1, <2>3, <2>4
<1>9. ASSUME Ordered(h.plan, h.name), NEW i \in DOMAIN rest
      PROVE  /\ rest[i] # "rank" /\ (rest[i] = "adopt" => h.name = "acceptBid")
             /\ rest[i] = "details" => \E j \in DOMAIN rest : j > i /\ rest[j] = "status"
  <2>1. ASSUME rest[i] = "details"
        PROVE  \E j \in DOMAIN rest : j > i /\ rest[j] = "status"
    <3>1. PICK j \in DOMAIN h.plan : j > i + k - 1 /\ h.plan[j] = "status"
      BY <1>6, <1>9, <2>1 DEF Ordered
    <3>2. j >= k /\ j - k + 1 > i
      BY <1>1, <1>2, <1>3, <3>1
    <3> QED BY <1>4, <3>1, <3>2
  <2> QED BY <1>6, <1>9, <2>1 DEF Ordered
<1>10. Ordered(h.plan, h.name) => Ordered(rest, h.name)
  BY <1>9 DEF Ordered
<1> QED BY <1>5, <1>7, <1>8, <1>10

\* To run on to the next await, or to the end: what is left out had nothing to
\* read, and a vault adopted is in the field already.
LEMMA NextAwait ==
  ASSUME NEW running, NEW t, NEW h, NEW p, NEW s, NEW w, NEW locks,
         RunOn(running, t, h, p), Shape(h), PageShape(p), PageTrue(p, w),
         w.req \in [Ids -> RequestRecords \cup {NoRequest}],
         Ready(h, p, s, w, locks)
  PROVE  /\ page' = p
         /\ \/ /\ handlers' = [running EXCEPT ![t] = Nothing]
               /\ DetailsDone(p, s, w) /\ StatusDone(p, s, w)
            \/ \E rest \in Seq(Awaits) :
                 LET g == Waiting(h, rest, p)
                 IN  /\ handlers' = [running EXCEPT ![t] = g] /\ rest # <<>>
                     /\ rest[1] \in Acts => h.plan # <<>> /\ h.plan[1] = rest[1]
                     /\ ~Skipped(rest[1], p)
                     /\ Undisturbed(g, p, s, w, locks)
<1>1. PICK rest \in Seq(Awaits), k \in 1..Len(h.plan) + 1 :
        RunsTo(running, t, h, p, rest, k)
  BY RunsOn
<1>2. p.on /\ Ordered(h.plan, h.name)
  BY DEF Ready
<1>3. /\ \A step : In(step, h.plan) => In(step, rest) \/ Skipped(step, p)
      /\ Sends(h) => rest = h.plan
      /\ Ordered(rest, h.name)
  BY <1>1, <1>2, NextOfPlan
<1>4. In("details", rest) => In("status", rest)
  BY <1>3 DEF In, Ordered
<1>5. In("details", rest) \/ DetailsDone(p, s, w)
  <2>1. Skipped("details", p) => p.id = Nothing
    BY <1>2 DEF Skipped
  <2> QED BY <1>3, <2>1 DEF Ready, DetailsDone
<1>6. In("status", rest) \/ StatusDone(p, s, w)
  <2>1. Skipped("status", p) => p.vault = Nothing
    BY <1>2 DEF Skipped
  <2> QED BY <1>3, <2>1 DEF Ready, StatusDone
<1>7. /\ \A i \in DOMAIN rest : i > 1 => rest[i] \notin Acts
      /\ rest # <<>> /\ rest[1] \in Acts => h.plan # <<>> /\ h.plan[1] = rest[1]
  BY <1>1, ActsFirst
<1>8. CASE rest = <<>>
  <2>1. ~In("details", rest) /\ ~In("status", rest)
    BY <1>8 DEF In
  <2> QED BY <1>1, <1>5, <1>6, <1>8, <2>1 DEF RunsTo
<1>9. CASE rest = <<"adopt">>
  <2>1. ~In("details", rest) /\ ~In("status", rest) /\ rest[1] = "adopt" /\ 1 \in DOMAIN rest
    BY <1>9 DEF In
  <2>2. h.name = "acceptBid" /\ ~Sends(h)
    BY <1>3, <2>1 DEF Sends, Ordered
  <2>3. h.event \in Vaults /\ h.event = w.req[p.id].vault /\ p.id # Nothing
    BY <2>2 DEF Ready
  <2>4. p.vault = h.event
    BY <1>5, <2>1, <2>3, MarketConstants DEF DetailsDone
  <2>5. Adopt(p, h.event) = [p EXCEPT !.vault = h.event]
    BY <2>3, ConsoleConstants, MarketConstants DEF Adopt, SetVaultAddress
  <2>6. Adopt(p, h.event) = p
    BY <2>4, <2>5 DEF PageShape
  <2> QED BY <1>1, <1>5, <1>6, <1>9, <2>1, <2>6 DEF RunsTo
<1>10. CASE rest \notin {<<>>, <<"adopt">>}
  <2> DEFINE a == Asked(Head(rest), p, h.arg)
             g == Waiting(h, rest, p)
  <2>1. page' = p /\ handlers' = [running EXCEPT ![t] = g]
    BY <1>1, <1>10 DEF RunsTo
  <2>2. /\ g.name = h.name /\ g.plan = rest /\ g.arg = a /\ g.answer = Nothing
        /\ g.event = h.event
    BY DEF Waiting
  <2>3. Head(rest) = rest[1] /\ ~Skipped(rest[1], p)
    BY <1>1, <1>10 DEF RunsTo
  <2>4. /\ rest[1] = "send" => a = h.arg
        /\ rest[1] = "details" => a = [id |-> p.id] /\ p.id # Nothing
        /\ rest[1] = "status" => a = [vault |-> p.vault]
    BY <2>3 DEF Asked, Skipped
  <2> HIDE DEF a, g
  <2>5. Ordered(g.plan, g.name)
    BY <1>3, <2>2
  <2>6. Sends(g) <=> Sends(h)
    BY <1>3, <1>7, <1>10, <2>2 DEF Sends, Acts
  <2>7. Sends(h) => g.plan = h.plan /\ g.arg = h.arg
    BY <1>3, <1>10, <2>2, <2>4 DEF Sends
  <2>8. Ready(g, p, s, w, locks)
    <3>1. In("details", g.plan) \/ DetailsDone(p, s, w)
      BY <1>5, <2>2
    <3>2. In("status", g.plan) \/ StatusDone(p, s, w)
      BY <1>6, <2>2
    <3> QED BY <2>2, <2>5, <2>6, <2>7, <3>1, <3>2 DEF Ready
  <2>9. Current(g, p, w)
    BY <2>2, <2>4 DEF Current
  <2>10. Undisturbed(g, p, s, w, locks)
    BY <2>8, <2>9 DEF Undisturbed
  <2> QED BY <1>7, <1>10, <2>1, <2>3, <2>10 DEF g
<1> QED BY <1>8, <1>9, <1>10

\* Who waits next keeps its name, and its mark.
LEMMA NextKeeps ==
  ASSUME NEW running, NEW t, NEW h, NEW p, RunOn(running, t, h, p), Shape(h)
  PROVE  \/ handlers' = [running EXCEPT ![t] = Nothing]
         \/ \E g : /\ handlers' = [running EXCEPT ![t] = g]
                   /\ g.name = h.name /\ g.alone = h.alone
<1>1. PICK rest \in Seq(Awaits), k \in 1..Len(h.plan) + 1 :
        RunsTo(running, t, h, p, rest, k)
  BY RunsOn
<1> DEFINE g == Waiting(h, rest, p)
<1>2. g.name = h.name /\ g.alone = h.alone
  BY DEF Waiting
<1>3. handlers' = [running EXCEPT ![t] = Nothing] \/ handlers' = [running EXCEPT ![t] = g]
  BY <1>1 DEF RunsTo
<1> HIDE DEF g
<1> QED BY <1>2, <1>3

\* One slot changes among handlers none of which is alone.
LEMMA OneChanges ==
  ASSUME NEW running, running = [t \in Slots |-> running[t]],
         NEW p0, NEW s0, NEW w0, NEW l0, AloneSound(running, p0, s0, w0, l0),
         NEW t \in Slots, NEW g, handlers' = [running EXCEPT ![t] = g],
         \A u \in Slots : u # t /\ running[u] # Nothing => ~running[u].alone,
         NEW p, NEW s, NEW w, NEW locks,
         g # Nothing =>
           /\ g.name \in Names /\ g.alone \in BOOLEAN
           /\ g.alone => /\ \A u \in Slots : u # t => running[u] = Nothing
                         /\ g.name \notin Aside => Undisturbed(g, p, s, w, locks)
  PROVE  AloneSound(handlers', p, s, w, locks)
<1> SUFFICES ASSUME NEW u \in Slots, handlers'[u] # Nothing
             PROVE  LET h == handlers'[u]
                    IN  /\ h.name \in Names /\ h.alone \in BOOLEAN
                        /\ h.alone => /\ \A v \in Slots : v # u => handlers'[v] = Nothing
                                      /\ h.name \notin Aside => Undisturbed(h, p, s, w, locks)
  BY DEF AloneSound
<1>1. handlers'[t] = g /\ \A v \in Slots : v # t => handlers'[v] = running[v]
  OBVIOUS
<1>2. CASE u = t
  BY <1>1, <1>2
<1>3. CASE u # t
  <2>1. handlers'[u] = running[u] /\ running[u] # Nothing
    BY <1>1, <1>3
  <2>2. running[u].name \in Names /\ running[u].alone \in BOOLEAN /\ ~running[u].alone
    BY <1>3, <2>1 DEF AloneSound
  <2> QED BY <2>1, <2>2
<1> QED BY <1>2, <1>3

\* Where one handler waits nobody else is alone.
LEMMA OthersAreNotAlone ==
  ASSUME NEW p, NEW s, NEW w, NEW locks, AloneSound(handlers, p, s, w, locks),
         NEW t \in Slots, handlers[t] # Nothing
  PROVE  \A u \in Slots : u # t /\ handlers[u] # Nothing => ~handlers[u].alone
BY DEF AloneSound

LEMMA NobodyIsAlone ==
  ASSUME NEW storage, Sound(handlers, storage),
         NEW p0, NEW s0, NEW w0, NEW l0, AloneSound(handlers, p0, s0, w0, l0)
  PROVE  /\ \A u \in Slots : Disturbed[u] # Nothing => ~Disturbed[u].alone
         /\ \A p, s, w, locks : AloneSound(Disturbed, p, s, w, locks)
<1>1. ASSUME NEW u \in Slots, Disturbed[u] # Nothing
      PROVE  Disturbed[u].alone = FALSE /\ Disturbed[u].name \in Names
  <2> DEFINE h == handlers[u]
             no == FALSE
             d == [h EXCEPT !.alone = no]
  <2>1. h # Nothing /\ Disturbed[u] = d
    BY <1>1 DEF Disturbed
  <2>2. Shape(h) /\ h.name \in Names
    BY <2>1 DEF Sound, Waits, AloneSound
  <2> HIDE DEF h, no
  <2>3. d.alone = no /\ d.name = h.name
    BY <2>2 DEF Shape
  <2> QED BY <2>1, <2>2, <2>3 DEF no
<1>2. \A u \in Slots : Disturbed[u] # Nothing => ~Disturbed[u].alone
  BY <1>1
<1>3. ASSUME NEW p, NEW s, NEW w, NEW locks PROVE AloneSound(Disturbed, p, s, w, locks)
  <2> SUFFICES ASSUME NEW u \in Slots, Disturbed[u] # Nothing
               PROVE  /\ Disturbed[u].name \in Names /\ Disturbed[u].alone \in BOOLEAN
                      /\ ~Disturbed[u].alone
    BY DEF AloneSound
  <2> QED BY <1>1
<1> QED BY <1>2, <1>3

\* A handler that a click starts.
LEMMA StartsAlone ==
  ASSUME NEW storage, Sound(handlers, storage),
         NEW p0, NEW s0, NEW w0, NEW l0, AloneSound(handlers, p0, s0, w0, l0),
         NEW name \in Names, NEW plan \in Seq(Awaits), NEW arg, NEW p, NEW s, NEW w, NEW locks,
         \A i \in DOMAIN plan : i > 1 => plan[i] \notin Acts,
         Starts(name, plan, arg, p), PageShape(p), PageTrue(p, w),
         w.req \in [Ids -> RequestRecords \cup {NoRequest}],
         name \notin Aside =>
           IF p.on THEN Ready(Handler(name, plan, arg), p, s, w, locks)
           ELSE ~In("adopt", plan) /\ ~In("rank", plan)
  PROVE  AloneSound(handlers', page', s, w, locks)
<1> DEFINE h == Handler(name, plan, arg)
           some == \A u \in Slots : handlers[u] = Nothing
<1>1. PICK t \in Slots : RunOn(Disturbed, t, h, p)
  BY DEF Starts
<1>2. h.name = name /\ h.plan = plan /\ h.alone = some /\ Shape(h)
  BY DEF Handler, Shape
<1>3. some => \A u \in Slots : Disturbed[u] = Nothing
  BY DEF Disturbed
<1>4. some \in BOOLEAN
  OBVIOUS
<1> HIDE DEF h, some
<1>5. /\ Disturbed = [u \in Slots |-> Disturbed[u]]
      /\ AloneSound(Disturbed, p0, s0, w0, l0)
      /\ \A u \in Slots : Disturbed[u] # Nothing => ~Disturbed[u].alone
  BY NobodyIsAlone DEF Disturbed
<1>6. CASE handlers' = [Disturbed EXCEPT ![t] = Nothing]
  BY <1>5, <1>6, OneChanges
<1>7. CASE name \notin Aside
  <2>1. CASE p.on
    <3>1. Ready(h, p, s, w, locks)
      BY <1>7, <2>1 DEF h
    <3>2. CASE \E rest \in Seq(Awaits) :
                 /\ handlers' = [Disturbed EXCEPT ![t] = Waiting(h, rest, p)]
                 /\ Undisturbed(Waiting(h, rest, p), p, s, w, locks)
      <4>1. PICK rest \in Seq(Awaits) :
                 /\ handlers' = [Disturbed EXCEPT ![t] = Waiting(h, rest, p)]
                 /\ Undisturbed(Waiting(h, rest, p), p, s, w, locks)
        BY <3>2
      <4> DEFINE g == Waiting(h, rest, p)
      <4>2. g.name = name /\ g.alone = some
        BY <1>2 DEF Waiting
      <4>3. page' = p
        BY <1>1, <1>2, <3>1, NextAwait
      <4> HIDE DEF g
      <4> QED BY <1>3, <1>4, <1>5, <4>1, <4>2, <4>3, OneChanges DEF g
    <3> QED BY <1>1, <1>2, <1>6, <3>1, <3>2, NextAwait
  <2>2. CASE ~p.on
    <3>1. ~In("adopt", plan) /\ ~In("rank", plan)
      BY <1>7, <2>2
    <3>2. PICK rest \in Seq(Awaits), k \in 1..Len(plan) + 1 :
            RunsTo(Disturbed, t, h, p, rest, k)
      BY <1>1, <1>2, RunsOn
    <3>3. \A step : In(step, rest) => In(step, plan)
      BY <1>2, <3>2, NextOfPlan
    <3>4. rest = <<>>
      <4> SUFFICES ASSUME rest # <<>> PROVE FALSE
        OBVIOUS
      <4>1. 1 \in DOMAIN rest /\ In(rest[1], rest)
        BY DEF In
      <4>2. Skipped(rest[1], p)
        BY <2>2, <3>1, <3>3, <4>1 DEF Skipped
      <4> QED BY <3>2, <4>2 DEF RunsTo
    <3> QED BY <1>6, <3>2, <3>4 DEF RunsTo
  <2> QED BY <2>1, <2>2
<1>8. CASE name \in Aside
  <2>1. ASSUME NEW g, handlers' = [Disturbed EXCEPT ![t] = g], g.name = h.name, g.alone = h.alone
        PROVE  AloneSound(handlers', page', s, w, locks)
    BY <1>2, <1>3, <1>4, <1>5, <1>8, <2>1, OneChanges
  <2> QED BY <1>1, <1>2, <1>6, <2>1, NextKeeps
<1> QED BY <1>7, <1>8

-----------------------------------------------------------------------------
(* What a click starts.                                                    *)

\* The plans of the page are in order, and read both.
LEMMA PlansInOrder ==
  ASSUME NEW name
  PROVE  LET select == <<"details", "status", "bids">>
         IN  /\ Ordered(Refresh, name) /\ In("details", Refresh) /\ In("status", Refresh)
             /\ Ordered(select, name) /\ In("details", select) /\ In("status", select)
             /\ Refresh[1] = "list" /\ Refresh # <<>>
<1>1. /\ Ordered(<<"list", "details", "status">>, name)
      /\ In("details", <<"list", "details", "status">>)
      /\ In("status", <<"list", "details", "status">>)
  BY DEF Ordered, In
<1>2. /\ Ordered(<<"details", "status", "bids">>, name)
      /\ In("details", <<"details", "status", "bids">>)
      /\ In("status", <<"details", "status", "bids">>)
  BY DEF Ordered, In
<1> QED BY <1>1, <1>2 DEF Refresh

LEMMA Joined ==
  ASSUME NEW first \in Seq(Awaits), NEW last \in Seq(Awaits)
  PROVE  /\ first \o last \in Seq(Awaits) /\ Len(first \o last) = Len(first) + Len(last)
         /\ Len(first) \in Nat /\ Len(last) \in Nat
         /\ DOMAIN (first \o last) = 1..Len(first) + Len(last)
         /\ \A i \in 1..Len(first) : (first \o last)[i] = first[i]
         /\ \A i \in Len(first) + 1..Len(first) + Len(last) :
              (first \o last)[i] = last[i - Len(first)]
<1> DEFINE both == first \o last
<1>1. /\ both \in Seq(Awaits) /\ Len(both) = Len(first) + Len(last)
      /\ Len(first) \in Nat /\ Len(last) \in Nat
  OBVIOUS
<1>2. ASSUME NEW i \in 1..Len(first) PROVE both[i] = first[i]
  BY <1>1
<1>3. ASSUME NEW i \in Len(first) + 1..Len(first) + Len(last)
      PROVE  both[i] = last[i - Len(first)]
  BY <1>1
<1> HIDE DEF both
<1> QED BY <1>1, <1>2, <1>3 DEF both

LEMMA SendsInOrder ==
  ASSUME NEW name, NEW last \in {<<>>, <<"bids">>, <<"adopt">>},
         last = <<"adopt">> => name = "acceptBid"
  PROVE  LET plan == <<"send">> \o Refresh \o last
         IN  /\ plan # <<>> /\ plan[1] = "send" /\ Ordered(plan, name)
             /\ In("details", plan) /\ In("status", plan) /\ ~In("rank", plan)
             /\ last # <<"adopt">> => ~In("adopt", plan)
<1> DEFINE first == <<"send">>
           reads == Refresh
           both == first \o reads
           plan == both \o last
<1>1. /\ first \in Seq(Awaits) /\ Len(first) = 1 /\ first[1] = "send"
      /\ reads \in Seq(Awaits) /\ Len(reads) = 3
      /\ reads[1] = "list" /\ reads[2] = "details" /\ reads[3] = "status"
  BY DEF Awaits, Refresh
<1>2. /\ last \in Seq(Awaits) /\ Len(last) \in Nat
      /\ \A i \in 1..Len(last) : last[i] = "bids" \/ (last[i] = "adopt" /\ last = <<"adopt">>)
  <2>1. CASE last = <<>>
    BY <2>1
  <2>2. CASE last = <<"bids">>
    BY <2>2 DEF Awaits
  <2>3. CASE last = <<"adopt">>
    BY <2>3 DEF Awaits
  <2> QED BY <2>1, <2>2, <2>3
<1> HIDE DEF first, reads
<1>3. /\ both \in Seq(Awaits) /\ Len(both) = 4
      /\ both[1] = "send" /\ both[2] = "list" /\ both[3] = "details" /\ both[4] = "status"
  <2>1. /\ both \in Seq(Awaits) /\ Len(both) = Len(first) + Len(reads)
        /\ \A i \in 1..Len(first) : both[i] = first[i]
        /\ \A i \in Len(first) + 1..Len(first) + Len(reads) : both[i] = reads[i - Len(first)]
    BY <1>1, Joined
  <2> HIDE DEF both
  <2>2. both[2] = reads[1] /\ both[3] = reads[2] /\ both[4] = reads[3]
    BY <1>1, <2>1
  <2> QED BY <1>1, <2>1, <2>2
<1> HIDE DEF both
<1>4. /\ DOMAIN plan = 1..4 + Len(last)
      /\ plan[1] = "send" /\ plan[2] = "list" /\ plan[3] = "details" /\ plan[4] = "status"
      /\ \A i \in 5..4 + Len(last) : i - 4 \in 1..Len(last) /\ plan[i] = last[i - 4]
  <2>1. /\ DOMAIN plan = 1..Len(both) + Len(last)
        /\ \A i \in 1..Len(both) : plan[i] = both[i]
        /\ \A i \in Len(both) + 1..Len(both) + Len(last) : plan[i] = last[i - Len(both)]
    BY <1>2, <1>3, Joined
  <2> HIDE DEF plan
  <2>2. \A i \in 5..4 + Len(last) : i - 4 \in 1..Len(last)
    BY <1>2
  <2> QED BY <1>2, <1>3, <2>1, <2>2
<1> HIDE DEF plan
<1>5. \A i \in DOMAIN plan :
        \/ i = 1 /\ plan[i] = "send"
        \/ i = 2 /\ plan[i] = "list"
        \/ i = 3 /\ plan[i] = "details"
        \/ i = 4 /\ plan[i] = "status"
        \/ plan[i] = "bids"
        \/ plan[i] = "adopt" /\ last = <<"adopt">>
  <2> TAKE i \in DOMAIN plan
  <2>1. i \in 1..4 + Len(last)
    BY <1>4
  <2>2. i \in {1, 2, 3, 4} \/ i \in 5..4 + Len(last)
    BY <1>2, <2>1
  <2>3. i \in 5..4 + Len(last) => plan[i] = "bids" \/ (plan[i] = "adopt" /\ last = <<"adopt">>)
    BY <1>2, <1>4
  <2> QED BY <1>4, <2>2, <2>3
<1>6. 1 \in DOMAIN plan /\ 3 \in DOMAIN plan /\ 4 \in DOMAIN plan
  BY <1>2, <1>4
<1>7. Ordered(plan, name)
  BY <1>4, <1>5, <1>6 DEF Ordered
<1>8. In("details", plan) /\ In("status", plan) /\ plan # <<>>
  BY <1>4, <1>6 DEF In
<1>9. ~In("rank", plan) /\ (last # <<"adopt">> => ~In("adopt", plan))
  BY <1>5 DEF In
<1> QED BY <1>4, <1>7, <1>8, <1>9 DEF plan, both, first, reads

\* A handler that starts has read nothing, and is to read both.
LEMMA FreshIsReady ==
  ASSUME NEW name, NEW plan, NEW arg, NEW p, NEW s, NEW w, NEW locks, p.on,
         Ordered(plan, name), In("details", plan), In("status", plan),
         plan # <<>> /\ plan[1] = "send" => name # "select",
         name = "acceptBid" => /\ plan # <<>> /\ plan[1] = "send"
                               /\ p.id # Nothing /\ arg.id = p.id,
         name = "select" => p.id \in Ids /\ (locks[p.id] # 0 => p.codes = locks[p.id])
  PROVE  Ready(Handler(name, plan, arg), p, s, w, locks)
<1> DEFINE h == Handler(name, plan, arg)
<1>1. h.name = name /\ h.plan = plan /\ h.arg = arg
  BY DEF Handler
<1> HIDE DEF h
<1> QED BY <1>1 DEF Ready, Sends, h

\* Where neither storage nor chain changes.
Still == UNCHANGED <<vars, locked>>

LEMMA StillWorld ==
  ASSUME ConsoleInv, Still
  PROVE  /\ World' = World /\ locked' = locked
         /\ World.req = requests /\ World.vlt = vault
         /\ World.req \in [Ids -> RequestRecords \cup {NoRequest}]
         /\ PageShape(page) /\ PageTrue(page, World) /\ Sound(handlers, kept)
<1>1. World' = World /\ locked' = locked
  BY DEF Still, World, vars, registryVars
<1>2. World.req = requests /\ World.vlt = vault
  BY DEF World
<1> QED BY <1>1, <1>2 DEF ConsoleInv, KeptInv, MarketInv, MarketTypes

\* A handler that only reads.
LEMMA StartsReadingAlone ==
  ASSUME ConsoleInv, AloneSound(handlers, page, shown, World, locked), Still, UNCHANGED shown,
         NEW name \in Names, NEW plan, ReadOnly(plan), NEW arg, NEW p,
         Starts(name, plan, arg, p), PageShape(p), PageTrue(p, World),
         name \in Aside \/ /\ Ordered(plan, name) /\ In("details", plan) /\ In("status", plan)
                           /\ ~In("adopt", plan) /\ name # "acceptBid",
         name = "select" => p.id \in Ids /\ (locked[p.id] # 0 => p.codes = locked[p.id])
  PROVE  AloneSound(handlers', page', shown', World', locked')
<1> DEFINE w == World
<1>1. /\ plan \in Seq(Awaits) /\ \A i \in DOMAIN plan : i > 1 => plan[i] \notin Acts
      /\ plan # <<>> => plan[1] # "send"
      /\ ~In("rank", plan)
  BY DEF ReadOnly, Acts, In
<1>2. /\ w.req \in [Ids -> RequestRecords \cup {NoRequest}] /\ Sound(handlers, kept)
      /\ World' = w /\ locked' = locked
  BY StillWorld
<1>3. AloneSound(handlers, page, shown, w, locked) /\ PageTrue(p, w)
  OBVIOUS
<1> HIDE DEF w
<1>4. ASSUME name \notin Aside, p.on PROVE Ready(Handler(name, plan, arg), p, shown, w, locked)
  BY <1>1, <1>4, FreshIsReady
<1>5. AloneSound(handlers', page', shown, w, locked)
  BY <1>1, <1>2, <1>3, <1>4, StartsAlone
<1> QED BY <1>2, <1>5

LEMMA ReadingAlone ==
  ASSUME ConsoleInv, AloneSound(handlers, page, shown, World, locked), Reading
  PROVE  AloneSound(handlers', page', shown', World', locked')
<1>0. /\ Still /\ UNCHANGED shown /\ PageShape(page) /\ PageTrue(page, World)
      /\ Sound(handlers, kept)
  BY StillWorld DEF Reading, ChainUnchanged, Still
<1>1. /\ ReadOnly(Refresh) /\ Ordered(Refresh, "connect") /\ Ordered(Refresh, "refresh")
      /\ In("details", Refresh) /\ In("status", Refresh) /\ ~In("adopt", Refresh)
  <2>1. ~In("adopt", <<"list", "details", "status">>)
    BY DEF In
  <2> QED BY <2>1, ReadingPlans, PlansInOrder DEF Refresh
<1>2. CASE Connect
  <2> DEFINE yes == TRUE
             p == [page EXCEPT !.on = yes]
  <2>1. PageTrue(p, World)
    BY <1>0, EditedTrue
  <2>2. PageShape(p)
    <3> HIDE DEF yes
    <3>1. page.id \in Ids \cup {Nothing}
      BY <1>0 DEF PageShape
    <3>2. p = [on |-> yes, id |-> page.id, vault |-> page.vault, index |-> page.index,
               codes |-> page.codes, pick |-> page.pick]
      BY <1>0 DEF PageShape
    <3> HIDE DEF p
    <3> QED BY <3>1, <3>2 DEF PageShape
  <2>3. Starts("connect", Refresh, Nothing, p)
    BY <1>2 DEF Connect
  <2> HIDE DEF p
  <2>4. "connect" \in Names /\ "connect" # "acceptBid" /\ "connect" # "select"
    BY DEF Names, Refreshing
  <2> QED BY Zenon, <1>0, <1>1, <2>1, <2>2, <2>3, <2>4, StartsReadingAlone
<1>3. CASE handlers' = Disturbed
  <2> DEFINE w == World
             u == World'
  <2>1. AloneSound(handlers, page, shown, w, locked)
    OBVIOUS
  <2> HIDE DEF w, u
  <2>2. AloneSound(Disturbed, page', shown', u, locked')
    BY <1>0, <2>1, NobodyIsAlone
  <2> QED BY <1>3, <2>2 DEF u
<1>4. CASE Starts("refresh", Refresh, Nothing, page)
  <2>1. "refresh" \in Names /\ "refresh" # "acceptBid" /\ "refresh" # "select"
    BY DEF Names, Refreshing
  <2> QED BY Zenon, <1>0, <1>1, <1>4, <2>1, StartsReadingAlone
<1>5. CASE \/ Starts("status", <<"status">>, Nothing, page)
           \/ Starts("bids", <<"bids">>, Nothing, page)
  <2>1. /\ "status" \in Names /\ "status" # "select" /\ "status" \in Aside
        /\ "bids" \in Names /\ "bids" # "select" /\ "bids" \in Aside
    BY DEF Names, Aside
  <2>2. ReadOnly(<<"status">>) /\ ReadOnly(<<"bids">>)
    BY ReadingPlans
  <2> DEFINE one == <<"status">>
             two == <<"bids">>
  <2> HIDE DEF one, two
  <2>3. /\ ReadOnly(one) /\ ReadOnly(two)
        /\ Starts("status", one, Nothing, page) \/ Starts("bids", two, Nothing, page)
    BY <1>5, <2>2 DEF one, two
  <2> QED BY Zenon, <1>0, <2>1, <2>3, StartsReadingAlone
<1>6. ASSUME NEW id \in Ids, Select(id)
      PROVE  AloneSound(handlers', page', shown', World', locked')
  <2> DEFINE c == IF kept[id] # 0 THEN kept[id] ELSE page.codes
             p == SetDelivery(page, id)
             plan == <<"details", "status", "bids">>
  <2>1. PageShape(p)
    BY <1>0, Edited
  <2>2. PageTrue(p, World)
    <3>1. Exists(id, World)
      BY <1>6 DEF Select, Exists, Opened, World
    <3> QED BY <1>0, <3>1, EditedTrue
  <2>3. p = [page EXCEPT !.id = id, !.codes = c]
    BY DEF SetDelivery
  <2>4. p.id = id /\ p.codes = c
    <3> HIDE DEF c, p
    <3>1. page = [on |-> page.on, id |-> page.id, vault |-> page.vault, index |-> page.index,
                  codes |-> page.codes, pick |-> page.pick]
      BY <1>0 DEF PageShape
    <3> QED BY <2>3, <3>1
  <2>5. locked[id] # 0 => c = locked[id]
    BY DEF ConsoleInv, KeptInv, CodesAreKept
  <2>6. /\ ReadOnly(plan) /\ Ordered(plan, "select") /\ In("details", plan)
        /\ In("status", plan) /\ ~In("adopt", plan)
    <3>1. ~In("adopt", plan)
      BY DEF In
    <3> QED BY <3>1, ReadingPlans, PlansInOrder
  <2>7. Starts("select", plan, Nothing, p)
    BY <1>6 DEF Select
  <2> HIDE DEF p, c, plan
  <2>8. "select" \in Names /\ "select" # "acceptBid"
    BY DEF Names, Refreshing
  <2> QED BY Zenon, <1>0, <2>1, <2>2, <2>4, <2>5, <2>6, <2>7, <2>8, StartsReadingAlone
<1> QED BY <1>2, <1>3, <1>4, <1>5, <1>6 DEF Reading, Disconnect, TypeId, TypeIndex

LEMMA AiPickAlone ==
  ASSUME ConsoleInv, AloneSound(handlers, page, shown, World, locked), AiPick
  PROVE  AloneSound(handlers', page', shown', World', locked')
<1> DEFINE w == World
           plan == <<"rank">>
           arg == [id |-> shown.book.id, book |-> Candidates(shown.book.of), limits |->
            IF shown.request = Nothing THEN [maxPrice |-> FormMaxPrice]
            ELSE [maxPrice |-> FormMaxPrice,
                  maxDeadline |-> shown.request.of.asked.maxDeadline]]
<1>1. Starts("pick", plan, arg, page) /\ Still /\ UNCHANGED shown
  BY DEF AiPick, ChainUnchanged, Still
<1>2. /\ w.req \in [Ids -> RequestRecords \cup {NoRequest}] /\ Sound(handlers, kept)
      /\ World' = w /\ locked' = locked /\ PageShape(page) /\ PageTrue(page, w)
  BY <1>1, StillWorld
<1>3. plan \in Seq(Awaits) /\ \A i \in DOMAIN plan : i > 1 => plan[i] \notin Acts
  BY DEF Awaits
<1>4. "pick" \in Names /\ "pick" \in Aside
  BY DEF Names, Aside
<1>5. AloneSound(handlers, page, shown, w, locked)
  OBVIOUS
<1> HIDE DEF w, plan, arg
<1>6. AloneSound(handlers', page', shown, w, locked)
  BY Zenon, <1>1, <1>2, <1>3, <1>4, <1>5, StartsAlone
<1> QED BY <1>1, <1>2, <1>6

\* A click that sends something.
LEMMA SendAlone ==
  ASSUME ConsoleInv, AloneSound(handlers, page, shown, World, locked),
         NEW name \in Names, name # "select",
         NEW last \in {<<>>, <<"bids">>, <<"adopt">>}, NEW call, NEW p,
         Send(name, last, call, p), PageShape(p), PageTrue(p, World),
         last = <<"adopt">> => p.on /\ name \in {"openRequest", "acceptBid"},
         name = "acceptBid" => p.id # Nothing /\ call.id = p.id
  PROVE  AloneSound(handlers', page', shown', World', locked')
<1> DEFINE w == World
           plan == <<"send">> \o Refresh \o last
<1>1. Starts(name, plan, call, p) /\ Still /\ UNCHANGED shown
  BY DEF Send, ChainUnchanged, Still
<1>2. /\ w.req \in [Ids -> RequestRecords \cup {NoRequest}] /\ Sound(handlers, kept)
      /\ World' = w /\ locked' = locked
  BY <1>1, StillWorld
<1>3. plan \in Seq(Awaits) /\ \A i \in DOMAIN plan : i > 1 => plan[i] \notin Acts
  <2>1. ReadOnly(last)
    BY ReadingPlans
  <2> QED BY <2>1, SendingPlans
<1>4. AloneSound(handlers, page, shown, w, locked) /\ PageTrue(p, w)
  OBVIOUS
<1>5. ASSUME name \notin Aside
      PROVE  /\ plan # <<>> /\ plan[1] = "send" /\ Ordered(plan, name)
             /\ In("details", plan) /\ In("status", plan) /\ ~In("rank", plan)
             /\ last # <<"adopt">> => ~In("adopt", plan)
  <2>1. last = <<"adopt">> => name = "acceptBid"
    BY <1>5 DEF Aside
  <2> QED BY <2>1, SendsInOrder
<1> HIDE DEF w, plan
<1>6. ASSUME name \notin Aside, p.on PROVE Ready(Handler(name, plan, call), p, shown, w, locked)
  BY <1>5, <1>6, FreshIsReady
<1>7. ASSUME name \notin Aside, ~p.on PROVE ~In("adopt", plan) /\ ~In("rank", plan)
  BY <1>5, <1>7
<1>8. AloneSound(handlers', page', shown, w, locked)
  BY <1>1, <1>2, <1>3, <1>4, <1>6, <1>7, StartsAlone
<1> QED BY <1>1, <1>2, <1>8

LEMMA SendingAlone ==
  ASSUME ConsoleInv, AloneSound(handlers, page, shown, World, locked), Sending
  PROVE  AloneSound(handlers', page', shown', World', locked')
<1>0. PageShape(page) /\ PageTrue(page, World)
  BY DEF ConsoleInv, KeptInv
<1> DEFINE none == <<>>
           relist == <<"bids">>
           adopts == <<"adopt">>
<1>1. /\ none \in {<<>>, <<"bids">>, <<"adopt">>} /\ none # <<"adopt">>
      /\ relist \in {<<>>, <<"bids">>, <<"adopt">>} /\ relist # <<"adopt">>
      /\ adopts \in {<<>>, <<"bids">>, <<"adopt">>}
  <2>1. <<>> # <<"adopt">> /\ <<"bids">>[1] # <<"adopt">>[1]
    OBVIOUS
  <2> QED BY <2>1
<1>2. CASE SendHashes
  <2> DEFINE codes == IF kept[page.id] = 0 THEN draws + 1 ELSE kept[page.id]
             p == [page EXCEPT !.codes = codes]
             arg == [id |-> page.id, codes |-> codes]
  <2>1. Send("publishHashes", none, arg, p) /\ page.id # Nothing
    BY <1>2 DEF SendHashes
  <2> HIDE DEF codes, none
  <2>2. PageTrue(p, World) /\ PageShape(p)
    <3>1. PageTrue(p, World)
      BY <1>0, EditedTrue
    <3>2. page.id \in Ids
      BY <1>0, <2>1 DEF PageShape
    <3>3. PageShape(p)
      BY <1>0, <3>2, Edited
    <3> QED BY <3>1, <3>3
  <2> HIDE DEF p, arg
  <2>3. "publishHashes" \in Names /\ "publishHashes" \notin {"select", "acceptBid"}
    BY DEF Names, Refreshing
  <2> QED BY <1>1, <2>1, <2>2, <2>3, SendAlone
<1>3. CASE ~SendHashes
  <2> DEFINE accept == [id |-> page.id, index |-> page.index, pick |-> page.pick]
             about == [id |-> page.id]
             call == [vault |-> page.vault, codes |-> page.codes]
  <2>1. /\ page.on
        /\ \/ Send("openRequest", adopts, Nothing, page)
           \/ Send("pool", none, Nothing, page)
           \/ Send("setAgent", none, Nothing, page)
           \/ page.id # Nothing /\ Send("acceptBid", adopts, accept, page)
           \/ Send("placeBid", relist, about, page)
           \/ Send("withdrawBid", relist, about, page)
           \/ Send("vault", none, call, page)
    BY <1>3 DEF Sending
  <2>2. accept.id = page.id
    OBVIOUS
  <2>3. \A name \in {"openRequest", "pool", "setAgent", "acceptBid", "placeBid", "withdrawBid",
                     "vault"} : name \in Names /\ name # "select"
    BY DEF Names, Aside, Refreshing
  <2> HIDE DEF accept, about, call, none, relist, adopts
  <2>4. CASE Send("openRequest", adopts, Nothing, page)
    BY <1>0, <1>1, <2>1, <2>3, <2>4, SendAlone
  <2>5. CASE page.id # Nothing /\ Send("acceptBid", adopts, accept, page)
    BY <1>0, <1>1, <2>1, <2>2, <2>3, <2>5, SendAlone
  <2>6. CASE \/ Send("pool", none, Nothing, page) \/ Send("setAgent", none, Nothing, page)
             \/ Send("vault", none, call, page)
    BY <1>0, <1>1, <2>3, <2>6, SendAlone
  <2>7. CASE \/ Send("placeBid", relist, about, page) \/ Send("withdrawBid", relist, about, page)
    BY <1>0, <1>1, <2>3, <2>7, SendAlone
  <2> QED BY <2>1, <2>4, <2>5, <2>6, <2>7
<1> QED BY <1>2, <1>3

-----------------------------------------------------------------------------
(* What a handler goes on with.                                            *)

\* The handler g that t is once its await is over runs on.
LEMMA GoesAlone ==
  ASSUME NEW storage, Sound(handlers, storage),
         NEW p0, NEW s0, NEW w0, NEW l0, AloneSound(handlers, p0, s0, w0, l0),
         NEW t \in Slots, handlers[t] # Nothing,
         NEW g, Shape(g), g.name = handlers[t].name, g.alone = handlers[t].alone,
         NEW p, RunOn(handlers, t, g, p), NEW s, NEW w, NEW locks,
         w.req \in [Ids -> RequestRecords \cup {NoRequest}],
         g.alone /\ g.name \notin Aside =>
           g.plan = <<>> \/ (PageShape(p) /\ PageTrue(p, w) /\ Ready(g, p, s, w, locks))
  PROVE  AloneSound(handlers', page', s, w, locks)
<1>1. /\ g.name \in Names /\ g.alone \in BOOLEAN
      /\ g.alone => \A u \in Slots : u # t => handlers[u] = Nothing
      /\ \A u \in Slots : u # t /\ handlers[u] # Nothing => ~handlers[u].alone
  BY OthersAreNotAlone DEF AloneSound
<1>2. handlers = [u \in Slots |-> handlers[u]]
  BY DEF Sound
<1>3. CASE handlers' = [handlers EXCEPT ![t] = Nothing]
  BY <1>1, <1>2, <1>3, OneChanges
<1>4. CASE ~(g.alone /\ g.name \notin Aside)
  <2>1. ASSUME NEW d, handlers' = [handlers EXCEPT ![t] = d], d.name = g.name, d.alone = g.alone
        PROVE  AloneSound(handlers', page', s, w, locks)
    BY <1>1, <1>2, <1>4, <2>1, OneChanges
  <2> QED BY <1>3, <2>1, NextKeeps
<1>5. CASE g.plan = <<>>
  <2>1. PICK rest \in Seq(Awaits), k \in 1..Len(g.plan) + 1 : RunsTo(handlers, t, g, p, rest, k)
    BY RunsOn
  <2>2. Len(g.plan) = 0 /\ k = 1
    BY <1>5
  <2>3. rest = <<>>
    BY <2>1, <2>2 DEF RunsTo
  <2> QED BY <1>3, <2>1, <2>3 DEF RunsTo
<1>6. CASE /\ g.alone /\ g.name \notin Aside /\ PageShape(p) /\ PageTrue(p, w)
           /\ Ready(g, p, s, w, locks)
  <2>1. /\ page' = p
        /\ \/ handlers' = [handlers EXCEPT ![t] = Nothing]
           \/ \E rest \in Seq(Awaits) :
                /\ handlers' = [handlers EXCEPT ![t] = Waiting(g, rest, p)]
                /\ Undisturbed(Waiting(g, rest, p), p, s, w, locks)
    BY <1>6, NextAwait
  <2>2. ASSUME NEW rest \in Seq(Awaits),
               handlers' = [handlers EXCEPT ![t] = Waiting(g, rest, p)],
               Undisturbed(Waiting(g, rest, p), p, s, w, locks)
        PROVE  AloneSound(handlers', page', s, w, locks)
    <3> DEFINE d == Waiting(g, rest, p)
    <3>1. d.name = g.name /\ d.alone = g.alone
      BY DEF Waiting
    <3> HIDE DEF d
    <3> QED BY <1>1, <1>2, <2>1, <2>2, <3>1, OneChanges DEF d
  <2> QED BY <1>3, <2>1, <2>2
<1> QED BY <1>4, <1>5, <1>6

\* A handler that waits, alone and of those of which something is claimed.
Claimed(t) == handlers[t] # Nothing /\ handlers[t].alone /\ handlers[t].name \notin Aside

\* What goes on with an answer is ready for its next await.
LEMMA UsingReady ==
  ASSUME ConsoleInv, AloneSound(handlers, page, shown, World, locked), NEW t \in Slots,
         Claimed(t), UseList(t) \/ UseDetails(t) \/ UseStatus(t) \/ UseBids(t) \/ UsePick(t)
  PROVE  \E p : /\ GoesOn(t, p) /\ PageShape(p) /\ PageTrue(p, World)
                /\ Ready(Rest(handlers[t]), p, shown', World, locked)
                /\ p.id = page.id /\ p.codes = page.codes
<1> DEFINE h == handlers[t]
           r == Rest(h)
           w == World
<1>1. /\ PageShape(page) /\ PageTrue(page, w) /\ ShownTrue(shown, w) /\ Waits(h, kept)
      /\ Believes(h, w) /\ Head(h.plan) = h.plan[1]
      /\ w.req \in [Ids -> RequestRecords \cup {NoRequest}]
  BY DEF Claimed, ConsoleInv, KeptInv, Sound, Waits, Shape, AllBelieve, MarketInv, MarketTypes,
     World
<1>2. Undisturbed(h, page, shown, w, locked)
  BY DEF Claimed, AloneSound
<1>3. h.plan[1] \in {"list", "details", "status", "bids", "rank"}
  BY <1>1 DEF UseList, UseDetails, UseStatus, UseBids, UsePick, At
<1>4. Ready(h, page, shown, w, locked) /\ Current(h, page, w) /\ ~Sends(h)
  <2>1. h.plan # <<"send">> /\ ~Sends(h)
    BY <1>3 DEF Sends
  <2> QED BY <1>2, <2>1 DEF Undisturbed
<1>5. /\ r.arg = h.arg /\ r.alone = h.alone /\ ~Sends(r)
      /\ r.event = h.event /\ r.name = h.name
      /\ \A step : In(step, h.plan) /\ h.plan[1] # step => In(step, r.plan)
      /\ Ordered(h.plan, h.name) => Ordered(r.plan, h.name)
      /\ Ordered(h.plan, h.name) /\ h.plan[1] = "details" => In("status", r.plan)
  BY <1>1, RestKeeps, RestIsSound
<1>6. UseList(t) \/ UseDetails(t) \/ UseStatus(t) \/ UseBids(t) \/ UsePick(t)
  OBVIOUS
<1>7. UseList(t) => GoesOn(t, page) /\ UNCHANGED shown
  BY DEF UseList
<1>8. /\ UseDetails(t) => /\ h.plan[1] = "details" /\ h.answer # Nothing
                          /\ shown' = [shown EXCEPT !.request =
                                         [id |-> h.arg.id, of |-> h.answer.request]]
                          /\ GoesOn(t, SetVaultAddress(page, h.answer.request.vault))
      /\ UseStatus(t) => /\ h.plan[1] = "status" /\ h.answer # Nothing
                         /\ shown' = [shown EXCEPT !.status =
                                        [vault |-> h.arg.vault, of |-> h.answer.status]]
                         /\ GoesOn(t, page)
      /\ UseBids(t) => /\ h.plan[1] = "bids"
                       /\ shown' = [shown EXCEPT !.book =
                                      [id |-> h.arg.id, of |-> h.answer.bids]]
                       /\ GoesOn(t, page)
      /\ UseList(t) => h.plan[1] = "list"
      /\ UsePick(t) => h.plan[1] = "rank"
  BY <1>1 DEF UseDetails, UseStatus, UseBids, UseList, UsePick, At, Answered
<1> HIDE DEF h, r, w
<1>9. Ordered(h.plan, h.name) /\ page.on
  BY <1>4 DEF Ready
<1>10. ~UsePick(t)
  <2>1. 1 \in DOMAIN h.plan
    BY <1>1 DEF Waits, Shape
  <2> QED BY <1>8, <1>9, <2>1 DEF Ordered
<1>11. ASSUME NEW p, p.on, p.id = page.id, p.codes = page.codes,
              In("details", r.plan) \/ DetailsDone(p, shown', w),
              In("status", r.plan) \/ StatusDone(p, shown', w)
       PROVE  Ready(r, p, shown', w, locked)
  <2> QED BY <1>4, <1>5, <1>9, <1>11 DEF Ready
<1>12. CASE UseList(t) \/ UseBids(t)
  <2>1. h.plan[1] # "details" /\ h.plan[1] # "status" /\ GoesOn(t, page)
    BY <1>7, <1>8, <1>12
  <2>2. shown'.request = shown.request /\ shown'.status = shown.status
    BY <1>1, <1>7, <1>8, <1>12 DEF ShownTrue
  <2>3. In("details", r.plan) \/ DetailsDone(page, shown', w)
    BY <1>4, <1>5, <2>1, <2>2 DEF Ready, DetailsDone
  <2>4. In("status", r.plan) \/ StatusDone(page, shown', w)
    BY <1>4, <1>5, <2>1, <2>2 DEF Ready, StatusDone
  <2> QED BY <1>1, <1>9, <1>11, <2>1, <2>3, <2>4 DEF w, r, h
<1>13. CASE UseStatus(t)
  <2> DEFINE new == [vault |-> h.arg.vault, of |-> h.answer.status]
  <2>1. h.plan[1] = "status" /\ GoesOn(t, page) /\ shown' = [shown EXCEPT !.status = new]
    BY <1>8, <1>13
  <2>2. h.arg.vault = page.vault /\ h.answer.status = Told(w.vlt[page.vault])
    BY <1>4, <1>8, <1>13 DEF Current
  <2>3. new = [vault |-> page.vault, of |-> Told(w.vlt[page.vault])]
    BY <2>2
  <2> HIDE DEF new
  <2>4. shown'.request = shown.request /\ shown'.status = new
    BY <1>1, <2>1 DEF ShownTrue
  <2>5. In("details", r.plan) \/ DetailsDone(page, shown', w)
    BY <1>4, <1>5, <2>1, <2>4 DEF Ready, DetailsDone
  <2>6. In("details", r.plan) => In("status", r.plan)
    BY <1>5, <1>9 DEF Ordered, In
  <2>7. StatusDone(page, shown', w)
    BY <2>3, <2>4 DEF StatusDone
  <2> QED BY <1>1, <1>9, <1>11, <2>1, <2>5, <2>6, <2>7 DEF w, r, h
<1>14. CASE UseDetails(t)
  <2> DEFINE q == h.answer.request
             new == [id |-> h.arg.id, of |-> q]
             p == SetVaultAddress(page, q.vault)
  <2>1. /\ h.plan[1] = "details" /\ GoesOn(t, p) /\ shown' = [shown EXCEPT !.request = new]
    BY <1>8, <1>14
  <2>2. page.id # Nothing /\ h.arg.id = page.id /\ q = w.req[page.id]
    BY <1>4, <1>8, <1>14 DEF Current
  <2>3. new = [id |-> page.id, of |-> w.req[page.id]]
    BY <2>2
  <2>4. q.vault \in Vaults \cup {NoVault}
    <3>1. q \in RequestRecords
      BY <1>1, <2>2 DEF PageTrue, Exists
    <3> QED BY <3>1 DEF RequestRecords
  <2> HIDE DEF new, q
  <2>5. /\ PageShape(p) /\ p.id = page.id /\ p.codes = page.codes /\ p.on = page.on
        /\ p.pick = page.pick /\ p.index = page.index
        /\ p.vault = IF q.vault = NoVault THEN page.vault ELSE q.vault
    BY <1>1 DEF PageShape, SetVaultAddress
  <2> HIDE DEF p
  <2>6. PageTrue(p, w)
    BY <1>1, <2>4, <2>5 DEF PageTrue
  <2>7. shown'.request = new
    BY <1>1, <2>1 DEF ShownTrue
  <2>8. DetailsDone(p, shown', w)
    BY <2>2, <2>3, <2>5, <2>7 DEF DetailsDone
  <2>9. In("status", r.plan)
    BY <1>5, <1>9, <2>1
  <2>10. Ready(r, p, shown', w, locked)
    BY <1>9, <1>11, <2>5, <2>8, <2>9
  <2> QED BY <2>1, <2>5, <2>6, <2>10 DEF w, r, h
<1> QED BY <1>6, <1>10, <1>12, <1>13, <1>14

LEMMA UsingAlone ==
  ASSUME ConsoleInv, AloneSound(handlers, page, shown, World, locked), NEW t \in Slots,
         UseList(t) \/ UseDetails(t) \/ UseStatus(t) \/ UseBids(t) \/ UsePick(t)
  PROVE  AloneSound(handlers', page', shown', World', locked')
<1> DEFINE h == handlers[t]
           r == Rest(h)
           w == World
<1>1. PICK p : GoesOn(t, p) /\ (Claimed(t) =>
         PageShape(p) /\ PageTrue(p, w) /\ Ready(r, p, shown', w, locked))
  <2>1. CASE Claimed(t)
    BY <2>1, UsingReady
  <2>2. CASE ~Claimed(t)
    BY <2>2 DEF UseList, UseDetails, UseStatus, UseBids, UsePick
  <2> QED BY <2>1, <2>2
<1>2. h # Nothing /\ Still /\ RunOn(handlers, t, r, p)
  BY <1>1 DEF UseList, UseDetails, UseStatus, UseBids, UsePick, At, GoesOn, ChainUnchanged, Still
<1>3. /\ w.req \in [Ids -> RequestRecords \cup {NoRequest}] /\ Sound(handlers, kept)
      /\ World' = w /\ locked' = locked
  BY <1>2, StillWorld
<1>4. Waits(h, kept)
  BY <1>2, <1>3 DEF Sound
<1>5. Shape(r) /\ r.name = h.name /\ r.alone = h.alone
  BY <1>4, RestIsSound, RestKeeps
<1>6. AloneSound(handlers, page, shown, w, locked)
  OBVIOUS
<1>7. r.alone /\ r.name \notin Aside =>
         PageShape(p) /\ PageTrue(p, w) /\ Ready(r, p, shown', w, locked)
  BY <1>1, <1>2, <1>5 DEF Claimed
<1> DEFINE s == shown'
<1>8. r.alone /\ r.name \notin Aside =>
        r.plan = <<>> \/ (PageShape(p) /\ PageTrue(p, w) /\ Ready(r, p, s, w, locked))
  BY <1>7
<1>9. r.name = handlers[t].name /\ r.alone = handlers[t].alone /\ handlers[t] # Nothing
  BY <1>2, <1>5
<1> HIDE DEF w, r, s, h
<1>10. AloneSound(handlers', page', s, w, locked)
  BY <1>2, <1>3, <1>5, <1>6, <1>8, <1>9, GoesAlone
<1> QED BY <1>3, <1>10 DEF s

\* A receipt: the vault of the bid accepted is that of the event.
LEMMA MinedAlone ==
  ASSUME ConsoleInv, AloneSound(handlers, page, shown, World, locked),
         WorldOn(World, World'), MarketInv', PageTrue(page, World'),
         NEW t \in Slots, Mined(t)
  PROVE  AloneSound(handlers', page', shown', World', locked')
<1> DEFINE h == handlers[t]
           r == Rest(h)
           w == World
           u == World'
           locks == locked'
<1>1. PICK event \in {Nothing} \cup Ids \cup Vaults :
        /\ Executed(h.name, h.arg, event)
        /\ RunOn(handlers, t, [r EXCEPT !.event = event], page)
  BY DEF Mined
<1>2. /\ h # Nothing /\ h.plan[1] = "send" /\ UNCHANGED shown /\ Sound(handlers, kept)
      /\ Waits(h, kept) /\ PageShape(page) /\ h.plan # <<>>
  BY CallOf DEF Mined, ConsoleInv, KeptInv, Sound, At, Waits
<1>3. /\ Shape(r) /\ r.name = h.name /\ r.alone = h.alone /\ r.arg = h.arg /\ ~Sends(r)
      /\ \A step : In(step, h.plan) /\ h.plan[1] # step => In(step, r.plan)
      /\ Ordered(h.plan, h.name) => Ordered(r.plan, h.name)
  BY <1>2, RestIsSound, RestKeeps
<1>4. r.plan = Tail(h.plan)
  BY <1>2 DEF Rest, Waits, Shape
<1> DEFINE g == [r EXCEPT !.event = event]
<1>5. /\ Shape(g) /\ g.event = event /\ g.plan = r.plan /\ g.name = h.name
      /\ g.alone = h.alone /\ ~Sends(g)
  <2> HIDE DEF r
  <2>1. g = [name |-> r.name, plan |-> r.plan, arg |-> r.arg, answer |-> r.answer,
             event |-> event, alone |-> r.alone]
    BY <1>3 DEF Shape
  <2> HIDE DEF g
  <2> QED BY <1>3, <2>1 DEF Shape, Sends
<1>6. u.req = requests' /\ u.req \in [Ids -> RequestRecords \cup {NoRequest}]
  BY DEF World, MarketInv, MarketTypes
<1>7. h.name = "acceptBid" => event \in Vaults /\ requests'[h.arg.id].vault = event
  <2> SUFFICES ASSUME h.name = "acceptBid"
               PROVE  event \in Vaults /\ requests'[h.arg.id].vault = event
    OBVIOUS
  <2> DEFINE id == h.arg.id
             i == h.arg.index
             q == [requests[id] EXCEPT !.stage = "Assigned", !.acceptedBid = i, !.vault = event]
  <2>1. event \in Vaults /\ AcceptBid(id, i, event)
    BY <1>1 DEF Executed
  <2>2. requests' = [requests EXCEPT ![id] = q] /\ Opened(id)
    BY <2>1 DEF AcceptBid, Accept, Assign, InStage
  <2>3. CallTrue(h.name, h.arg, w)
    BY CallOf DEF Mined
  <2>4. id \in Ids
    BY <2>3 DEF CallTrue
  <2>5. requests \in [Ids -> RequestRecords \cup {NoRequest}]
    BY DEF ConsoleInv, MarketInv, MarketTypes
  <2>6. q.vault = event
    BY <2>2, <2>4, <2>5 DEF Opened, RequestRecords
  <2> HIDE DEF q, id, i, h
  <2> QED BY <2>1, <2>2, <2>4, <2>5, <2>6 DEF id
<1>8. RunOn(handlers, t, g, page)
  BY <1>1
<1>9. h.alone /\ h.name \notin Aside => Undisturbed(h, page, shown, w, locked)
  BY <1>2 DEF AloneSound
<1>10. AloneSound(handlers, page, shown, w, locked) /\ PageTrue(page, u)
  OBVIOUS
<1>11. g.name = handlers[t].name /\ g.alone = handlers[t].alone /\ handlers[t] # Nothing
  BY <1>2, <1>5
<1> HIDE DEF g, r, h, w, u, locks
<1>12. ASSUME h.alone, h.name \notin Aside
       PROVE  g.plan = <<>> \/ Ready(g, page, shown, u, locks)
  <2>1. CASE h.plan = <<"send">>
    BY <1>4, <1>5, <2>1
  <2>2. CASE Ready(h, page, shown, w, locked) /\ Current(h, page, w)
    <3>1. /\ Sends(h) /\ page.on /\ Ordered(h.plan, h.name) /\ h.name # "select"
          /\ In("details", h.plan) /\ In("status", h.plan)
          /\ h.name = "acceptBid" => page.id # Nothing /\ h.arg.id = page.id
      BY <1>2, <2>2 DEF Ready, Sends
    <3>2. In("details", g.plan) /\ In("status", g.plan) /\ Ordered(g.plan, g.name)
      BY <1>2, <1>3, <1>5, <3>1
    <3>3. h.name = "acceptBid" => g.event \in Vaults /\ g.event = u.req[page.id].vault
      BY <1>5, <1>6, <1>7, <3>1
    <3> QED BY <1>5, <3>1, <3>2, <3>3 DEF Ready
  <2> QED BY <1>9, <1>12, <2>1, <2>2 DEF Undisturbed
<1>13. g.alone /\ g.name \notin Aside =>
           g.plan = <<>> \/ (/\ PageShape(page) /\ PageTrue(page, u)
                             /\ Ready(g, page, shown, u, locks))
  BY <1>2, <1>5, <1>10, <1>12
<1>14. AloneSound(handlers', page', shown, u, locks)
  BY <1>2, <1>5, <1>6, <1>8, <1>10, <1>11, <1>13, GoesAlone
<1> QED BY <1>2, <1>14 DEF u, locks

\* An answer is that of the world it is given in, and the chain stays still
\* until it is used.
LEMMA AnswerAlone ==
  ASSUME ConsoleInv, AloneSound(handlers, page, shown, World, locked),
         NEW t \in Slots, Answer(t)
  PROVE  AloneSound(handlers', page', shown', World', locked')
<1> DEFINE h == handlers[t]
           w == World
<1>1. /\ h # Nothing /\ Still /\ UNCHANGED <<page, shown>>
  BY DEF Answer, ChainUnchanged, Still
<1>2. /\ World' = w /\ locked' = locked /\ Sound(handlers, kept)
      /\ w.req = requests /\ w.vlt = vault
  BY <1>1, StillWorld
<1>3. Waits(h, kept) /\ Head(h.plan) = h.plan[1]
  BY <1>1, <1>2 DEF Sound, Waits, Shape
<1>4. PICK a :
        /\ handlers' = [handlers EXCEPT ![t].answer = a]
        /\ h.plan[1] \in {"details", "status", "bids", "rank"}
        /\ h.plan[1] = "details" => a = [request |-> requests[h.arg.id]]
        /\ h.plan[1] = "status" => a = [status |-> Snapshot(h.arg.vault)]
  <2> DEFINE ok(a) == /\ handlers' = [handlers EXCEPT ![t].answer = a]
                      /\ h.plan[1] \in {"details", "status", "bids", "rank"}
                      /\ h.plan[1] = "details" => a = [request |-> requests[h.arg.id]]
                      /\ h.plan[1] = "status" => a = [status |-> Snapshot(h.arg.vault)]
             a1 == [request |-> requests[h.arg.id]]
             a2 == [status |-> Snapshot(h.arg.vault)]
             a3 == [bids |-> bids[h.arg.id]]
             a4 == [winner |-> Rank(h.arg.book, h.arg.limits, PreferTrusted, now)]
  <2>1. \/ h.plan[1] = "details" /\ handlers' = [handlers EXCEPT ![t].answer = a1]
        \/ h.plan[1] = "status" /\ handlers' = [handlers EXCEPT ![t].answer = a2]
        \/ h.plan[1] = "bids" /\ handlers' = [handlers EXCEPT ![t].answer = a3]
        \/ h.plan[1] = "rank" /\ handlers' = [handlers EXCEPT ![t].answer = a4]
    BY <1>3 DEF Answer, At
  <2> HIDE DEF a3, a4
  <2>2. ok(a1) \/ ok(a2) \/ ok(a3) \/ ok(a4)
    BY <2>1
  <2> HIDE DEF ok, a1, a2
  <2>3. \E a : ok(a)
    BY <2>2
  <2> QED BY <2>3 DEF ok
<1> DEFINE d == [h EXCEPT !.answer = a]
<1>5. handlers' = [handlers EXCEPT ![t] = d]
  BY <1>2, <1>4 DEF Sound
<1>6. \A v : Snapshot(v) = Told(w.vlt[v])
  BY <1>2 DEF Snapshot, Told
<1>7. /\ h.name \in Names /\ h.alone \in BOOLEAN
      /\ h.alone => \A u \in Slots : u # t => handlers[u] = Nothing
      /\ h.alone /\ h.name \notin Aside => Undisturbed(h, page, shown, w, locked)
      /\ \A u \in Slots : u # t /\ handlers[u] # Nothing => ~handlers[u].alone
  BY <1>1, OthersAreNotAlone DEF AloneSound
<1>8. AloneSound(handlers, page, shown, w, locked) /\ handlers = [u \in Slots |-> handlers[u]]
  BY <1>2 DEF Sound
<1>9. /\ h.plan[1] = "details" => a.request = w.req[h.arg.id]
      /\ h.plan[1] = "status" => a.status = Told(w.vlt[h.arg.vault])
  BY <1>2, <1>4, <1>6
<1> HIDE DEF h, w
<1>10. /\ d.plan = h.plan /\ d.name = h.name /\ d.arg = h.arg
       /\ d.event = h.event /\ d.answer = a /\ d.alone = h.alone
  BY <1>3 DEF Waits, Shape
<1> HIDE DEF d
<1>11. ASSUME h.alone, h.name \notin Aside PROVE Undisturbed(d, page, shown, w, locked)
  <2>1. h.plan # <<"send">>
    BY <1>4
  <2>2. Ready(h, page, shown, w, locked) /\ Current(h, page, w)
    BY <1>7, <1>11, <2>1 DEF Undisturbed
  <2>3. Ready(d, page, shown, w, locked)
    BY <1>10, <2>2 DEF Ready, Sends
  <2>4. Current(d, page, w)
    BY <1>4, <1>9, <1>10, <2>2 DEF Current
  <2> QED BY <2>3, <2>4 DEF Undisturbed
<1>12. AloneSound(handlers', page, shown, w, locked)
  BY <1>5, <1>7, <1>8, <1>10, <1>11, OneChanges
<1> QED BY <1>1, <1>2, <1>12

LEMMA FailedAlone ==
  ASSUME ConsoleInv, AloneSound(handlers, page, shown, World, locked),
         NEW t \in Slots, Failed(t)
  PROVE  AloneSound(handlers', page', shown', World', locked')
<1> DEFINE w == World
           none == Nothing
<1>1. /\ handlers[t] # Nothing /\ Still /\ UNCHANGED <<page, shown>>
      /\ handlers' = [handlers EXCEPT ![t] = none]
  BY DEF Failed, ChainUnchanged, Still
<1>2. World' = w /\ locked' = locked /\ handlers = [u \in Slots |-> handlers[u]]
  BY <1>1, StillWorld DEF Sound
<1>3. AloneSound(handlers, page, shown, w, locked)
  OBVIOUS
<1> HIDE DEF w
<1>4. \A u \in Slots : u # t /\ handlers[u] # Nothing => ~handlers[u].alone
  BY <1>1, <1>3, OthersAreNotAlone
<1>5. AloneSound(handlers', page, shown, w, locked)
  BY <1>1, <1>2, <1>3, <1>4, OneChanges
<1> QED BY <1>1, <1>2, <1>5

\* After a reload only receipts are waited for.
LEMMA ReloadAlone ==
  ASSUME ConsoleInv, AloneSound(handlers, page, shown, World, locked), Reload
  PROVE  AloneSound(handlers', page', shown', World', locked')
<1> SUFFICES ASSUME NEW t \in Slots, handlers'[t] # Nothing
             PROVE  LET h == handlers'[t]
                    IN  /\ h.name \in Names /\ h.alone \in BOOLEAN
                        /\ h.alone =>
                             /\ \A u \in Slots : u # t => handlers'[u] = Nothing
                             /\ h.name \notin Aside =>
                                  Undisturbed(h, page', shown', World', locked')
  BY DEF AloneSound
<1> DEFINE h == handlers[t]
           d == [h EXCEPT !.plan = <<"send">>]
<1>1. \A u \in Slots : handlers'[u] =
         IF At(u, "send") THEN [handlers[u] EXCEPT !.plan = <<"send">>] ELSE Nothing
  BY DEF Reload
<1>2. At(t, "send") /\ handlers'[t] = d /\ h # Nothing
  BY <1>1 DEF At
<1>3. Shape(h) /\ h.plan # <<>> /\ h.plan[1] = "send"
  BY <1>2, CallOf
<1>4. d.plan = <<"send">> /\ d.name = h.name /\ d.alone = h.alone /\ d.answer = h.answer
  BY <1>3 DEF Shape
<1>5. /\ h.name \in Names /\ h.alone \in BOOLEAN
      /\ h.alone => \A u \in Slots : u # t => handlers[u] = Nothing
      /\ h.alone /\ h.name \notin Aside => Undisturbed(h, page, shown, World, locked)
  BY <1>2 DEF AloneSound
<1>6. \A u \in Slots : handlers[u] = Nothing => handlers'[u] = Nothing
  BY <1>1 DEF At
<1> HIDE DEF h, d
<1>7. h.alone /\ h.name \notin Aside => d.answer = Nothing
  BY <1>3, <1>4, <1>5 DEF Undisturbed, Current
<1> QED BY <1>2, <1>4, <1>5, <1>6, <1>7 DEF Undisturbed

-----------------------------------------------------------------------------
(* The invariant, and the property.                                        *)

\* What the user does and what others do is counted.
LEMMA Counting ==
  ASSUME spent \in [clicks : Nat, moves : Nat]
  PROVE  /\ Reading \/ Reload \/ AiPick \/ Sending \/ Elsewhere =>
              spent' \in [clicks : Nat, moves : Nat] /\ spent' # spent
         /\ \A t \in Slots :
              \/ Mined(t) \/ Failed(t) \/ Answer(t)
              \/ UseList(t) \/ UseDetails(t) \/ UseStatus(t) \/ UseBids(t) \/ UsePick(t)
              => spent' = spent
<1>1. Reading \/ Reload \/ AiPick \/ Sending => Click
  BY DEF Reading, Reload, AiPick, Sending, SendHashes, Send
<1>2. Click => spent' \in [clicks : Nat, moves : Nat] /\ spent' # spent
  BY DEF Click
<1>3. Elsewhere => spent' \in [clicks : Nat, moves : Nat] /\ spent' # spent
  BY DEF Elsewhere
<1>4. \A t \in Slots :
        \/ Mined(t) \/ Failed(t) \/ Answer(t)
        \/ UseList(t) \/ UseDetails(t) \/ UseStatus(t) \/ UseBids(t) \/ UsePick(t)
        => spent' = spent
  BY DEF Mined, Failed, Answer, UseList, UseDetails, UseStatus, UseBids, UsePick, GoesOn
<1> QED BY <1>1, <1>2, <1>3, <1>4

LEMMA AloneStart == ConsoleInit => AloneInv
<1> SUFFICES ASSUME ConsoleInit PROVE AloneInv
  OBVIOUS
<1>1. spent \in [clicks : Nat, moves : Nat] /\ \A t \in Slots : handlers[t] = Nothing
  BY DEF ConsoleInit
<1> QED BY <1>1 DEF AloneInv, AloneSound

LEMMA AloneStep == ConsoleInv /\ AloneInv /\ [ConsoleNext]_consoleVars => AloneInv'
<1> SUFFICES ASSUME ConsoleInv, AloneInv, [ConsoleNext]_consoleVars PROVE AloneInv'
  OBVIOUS
<1>1. spent \in [clicks : Nat, moves : Nat] /\ AloneSound(handlers, page, shown, World, locked)
  BY DEF AloneInv
<1>2. MarketInv' /\ WorldOn(World, World') /\ PageTrue(page, World')
  BY WorldGoesOn
<1>3. CASE Reading \/ Reload \/ AiPick \/ Sending
  <2>1. AloneSound(handlers', page', shown', World', locked')
    BY <1>1, <1>3, ReadingAlone, ReloadAlone, AiPickAlone, SendingAlone
  <2> QED BY <1>1, <1>3, <2>1, Counting DEF AloneInv
<1>4. CASE Elsewhere
  <2> DEFINE w == World
             u == World'
             s == shown'
             l == locked'
             p == page'
  <2>1. handlers' = Disturbed /\ Sound(handlers, kept)
    BY <1>4 DEF Elsewhere, ConsoleInv, KeptInv
  <2>2. AloneSound(handlers, page, shown, w, locked)
    BY <1>1
  <2> HIDE DEF w, u, s, l, p
  <2>3. AloneSound(Disturbed, p, s, u, l)
    BY <2>1, <2>2, NobodyIsAlone
  <2>4. AloneSound(handlers', page', shown', World', locked')
    BY <2>1, <2>3 DEF u, s, l, p
  <2> QED BY <1>1, <1>4, <2>4, Counting DEF AloneInv
<1>5. ASSUME NEW t \in Slots,
             \/ Mined(t) \/ Failed(t) \/ Answer(t)
             \/ UseList(t) \/ UseDetails(t) \/ UseStatus(t) \/ UseBids(t) \/ UsePick(t)
      PROVE  AloneInv'
  <2>1. AloneSound(handlers', page', shown', World', locked')
    BY <1>1, <1>2, <1>5, MinedAlone, FailedAlone, AnswerAlone, UsingAlone
  <2> QED BY <1>1, <1>5, <2>1, Counting DEF AloneInv
<1>6. CASE UNCHANGED consoleVars
  <2>1. UNCHANGED <<handlers, page, shown, World, locked, spent>>
    BY <1>6 DEF consoleVars, World, vars, registryVars
  <2> QED BY <1>1, <2>1 DEF AloneInv, AloneSound
<1> QED BY <1>3, <1>4, <1>5, <1>6 DEF ConsoleNext

\* Nothing that still waits for an answer is Nothing.
LEMMA WaitingIsSomething ==
  ASSUME NEW h, NEW rest \in Seq(Awaits), NEW p, NEW w, PageTrue(p, w),
         rest # <<>>, rest[1] \notin Acts, ~Skipped(rest[1], p),
         h.name \in Refreshing, h.alone \in BOOLEAN, EventTrue(h.event, w)
  PROVE  Waiting(h, rest, p) # Nothing
<1> DEFINE a == Asked(Head(rest), p, h.arg)
           g == Waiting(h, rest, p)
<1>1. Head(rest) = rest[1] /\ rest[1] \in Awaits
  OBVIOUS
<1>2. a \in {Nothing} \cup [id : Ids] \cup [vault : Vaults]
  <2>1. CASE rest[1] \in {"details", "bids"}
    <3>1. a = [id |-> p.id] /\ p.id \in Ids
      BY <1>1, <2>1 DEF Asked, Skipped, PageTrue, Exists
    <3> QED BY <3>1
  <2>2. CASE rest[1] = "status"
    <3>1. a = [vault |-> p.vault] /\ p.vault \in Vaults
      BY <1>1, <2>2 DEF Asked, Skipped, PageTrue
    <3> QED BY <3>1
  <2>3. CASE rest[1] \in {"list", "adopt"}
    <3>1. a = Nothing
      BY <1>1, <2>3 DEF Asked
    <3> QED BY <3>1
  <2> QED BY <1>1, <2>1, <2>2, <2>3 DEF Awaits, Acts
<1>3. /\ g = [name |-> h.name, plan |-> rest, arg |-> a, answer |-> Nothing,
              event |-> h.event, alone |-> h.alone]
      /\ h.event \in {Nothing} \cup Ids \cup Vaults
  BY DEF Waiting, EventTrue
<1> HIDE DEF a, g
<1>4. g \in [name : {"connect", "refresh", "select", "publishHashes", "acceptBid", "placeBid",
                     "withdrawBid", "vault", "pool", "setAgent"},
             plan : Seq({"send", "list", "details", "status", "bids", "rank", "adopt"}),
             arg : {Nothing} \cup [id : Ids] \cup [vault : Vaults], answer : {Nothing},
             event : {Nothing} \cup Ids \cup Vaults, alone : BOOLEAN]
  BY <1>2, <1>3 DEF Refreshing, Awaits
<1> QED BY <1>4, ConsoleConstants DEF g

\* A handler that refreshes, openRequest() excepted, and that nothing disturbs
\* leaves the request in the field, and the vault in the field with its status,
\* as the chain is when its last answer comes, whatever the page was mixed up
\* with before.  The vault is the delivery's if it has one; a delivery without
\* keeps the address of another.  And one that selects a delivery leaves the
\* codes that open its vault.
THEOREM TheRefreshRepairs == ConsoleSpec => UndisturbedRefreshRepairs
<1> DEFINE Repairs(t) ==
        LET h == handlers[t]
        IN  /\ h # Nothing /\ handlers'[t] = Nothing
            /\ h.alone /\ Answered(t) /\ spent' = spent
            /\ h.name \notin {"openRequest", "status", "bids", "pick"}
            => /\ InStep'
               /\ h.name = "select" /\ locked[page.id] # 0
                    => page'.codes = locked[page.id]
<1>1. ASSUME ConsoleInv, AloneInv, ConsoleNext, NEW t \in Slots PROVE Repairs(t)
  <2> DEFINE h == handlers[t]
             r == Rest(h)
             w == World
             s == shown'
  <2> SUFFICES ASSUME h # Nothing, handlers'[t] = Nothing, h.alone, Answered(t),
                      spent' = spent, h.name \notin Aside
               PROVE  /\ InStep'
                      /\ h.name = "select" /\ locked[page.id] # 0
                           => page'.codes = locked[page.id]
    BY DEF Aside
  <2>1. /\ AloneSound(handlers, page, shown, w, locked) /\ Claimed(t)
        /\ \A u \in Slots : u # t => handlers[u] = Nothing
        /\ h.name \in Refreshing /\ h.alone \in BOOLEAN
        /\ Undisturbed(h, page, shown, w, locked)
    BY <1>1 DEF AloneInv, AloneSound, Claimed, Names
  <2>2. Waits(h, kept) /\ Head(h.plan) = h.plan[1] /\ Believes(h, w) /\ Sound(handlers, kept)
    BY <1>1 DEF ConsoleInv, KeptInv, Sound, Waits, Shape, AllBelieve
  <2>3. UseList(t) \/ UseDetails(t) \/ UseStatus(t) \/ UseBids(t) \/ UsePick(t)
    <3>1. PICK u \in Slots :
            \/ Mined(u) \/ Failed(u) \/ Answer(u)
            \/ UseList(u) \/ UseDetails(u) \/ UseStatus(u) \/ UseBids(u) \/ UsePick(u)
      BY <1>1, Counting DEF ConsoleNext, AloneInv
    <3>2. handlers[u] # Nothing
      BY <3>1 DEF Mined, Failed, Answer, UseList, UseDetails, UseStatus, UseBids, UsePick, At
    <3>3. u = t
      BY <2>1, <3>2
    <3>4. ~Failed(t) /\ ~Answer(t)
      BY DEF Failed, Answer
    <3>5. ~Mined(t)
      <4> SUFFICES ASSUME h.plan[1] = "send" PROVE FALSE
        BY <2>2 DEF Mined, At
      <4>1. h.answer = Nothing
        BY <2>1 DEF Undisturbed, Current
      <4> QED BY <4>1 DEF Answered
    <3> QED BY <3>1, <3>3, <3>4, <3>5
  <2>4. PICK p : /\ GoesOn(t, p) /\ PageShape(p) /\ PageTrue(p, w)
                 /\ Ready(r, p, shown', w, locked)
                 /\ p.id = page.id /\ p.codes = page.codes
    BY <1>1, <2>1, <2>3, UsingReady
  <2>5. /\ RunOn(handlers, t, r, p) /\ Still
        /\ Shape(r) /\ r.name = h.name /\ r.alone = h.alone /\ r.event = h.event
        /\ ReadOnly(r.plan) /\ EventTrue(h.event, w)
    BY <2>2, <2>4, RestIsSound, RestKeeps DEF GoesOn, ChainUnchanged, Still, Believes
  <2>6. /\ w.req \in [Ids -> RequestRecords \cup {NoRequest}]
        /\ World' = w /\ locked' = locked /\ w.req = requests /\ w.vlt = vault
        /\ requests' = requests /\ vault' = vault
    BY <1>1, <2>5, StillWorld DEF Still, vars, registryVars
  <2>7. r.name \in Refreshing /\ r.alone \in BOOLEAN /\ EventTrue(r.event, w)
    BY <2>1, <2>5
  <2> HIDE DEF h, r, w, s
  <2>8. Ready(r, p, s, w, locked)
    BY <2>4 DEF s
  <2>9. /\ page' = p
        /\ \/ DetailsDone(p, s, w) /\ StatusDone(p, s, w)
           \/ \E rest \in Seq(Awaits) :
                /\ handlers' = [handlers EXCEPT ![t] = Waiting(r, rest, p)] /\ rest # <<>>
                /\ rest[1] \in Acts => r.plan # <<>> /\ r.plan[1] = rest[1]
                /\ ~Skipped(rest[1], p)
    BY <2>4, <2>5, <2>6, <2>8, NextAwait
  <2>10. DetailsDone(p, s, w) /\ StatusDone(p, s, w)
    <3> SUFFICES ASSUME NEW rest \in Seq(Awaits),
                        handlers' = [handlers EXCEPT ![t] = Waiting(r, rest, p)],
                        rest # <<>>, ~Skipped(rest[1], p),
                        rest[1] \in Acts => r.plan # <<>> /\ r.plan[1] = rest[1]
                 PROVE  FALSE
      BY <2>9
    <3>1. rest[1] \notin Acts
      BY <2>5 DEF ReadOnly
    <3>2. Waiting(r, rest, p) # Nothing
      BY <2>4, <2>7, <3>1, WaitingIsSomething
    <3>3. handlers'[t] = Waiting(r, rest, p)
      BY <2>2 DEF Sound
    <3> QED BY <3>2, <3>3
  <2>11. \A v : Snapshot(v)' = Told(w.vlt[v])
    BY <2>6 DEF Snapshot, Told
  <2>12. InStep'
    BY <2>6, <2>9, <2>10, <2>11 DEF InStep, DetailsDone, StatusDone, s
  <2>13. h.name = "select" /\ locked[page.id] # 0 => page'.codes = locked[page.id]
    BY <2>4, <2>5, <2>9 DEF Ready
  <2> QED BY <2>12, <2>13 DEF h
<1>2. ConsoleInv /\ AloneInv /\ ConsoleNext => \A t \in Slots : Repairs(t)
  BY <1>1
<1>3. ConsoleInv /\ AloneInv /\ [ConsoleNext]_consoleVars
        => [\A t \in Slots : Repairs(t)]_consoleVars
  BY <1>2
<1>4. ConsoleSpec => [](ConsoleInv /\ AloneInv)
  BY AloneStart, AloneStep, ThePageIsSound, PTL DEF ConsoleSpec
<1> QED BY <1>3, <1>4, PTL DEF ConsoleSpec, UndisturbedRefreshRepairs
=============================================================================
