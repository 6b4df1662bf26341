------------------------ MODULE HandleLifecycle_proofs ------------------------
(***************************************************************************)
(* The inductive invariant of HandleLifecycle, and what follows from it    *)
(* for any finite set of handles of any kinds.                             *)
(***************************************************************************)
EXTENDS HandleLifecycle, FiniteSetTheorems, TLAPS

\* A name for two variables, seen through everywhere below.
USE DEF ways

\* Flags, block and wrapper agree.
LifeInv ==
  \A h \in Handles :
    /\ wrapper[h] = "unborn" <=> mem[h] = "unborn"
    /\ wrapper[h] = "alive" => mem[h] = "live"
    /\ mem[h] = "live" /\ wrapper[h] = "destroyed"
         => Closing(h) /\ ~ Closed(h) /\ ~ data[h]
    /\ data[h] => wrapper[h] = "alive"
    /\ wrapper[h] = "alive" => (data[h] <=> ~ Closed(h))
    /\ mem[h] # "live" => flags[h] = {}
    /\ Closed(h) => Closing(h)
    /\ Closing(h) => "ACTIVE" \notin flags[h]

\* The endgame list holds each handle flagged ENDGAME_QUEUED once.
EndgameInv ==
  /\ \A i \in DOMAIN endgame : "ENDGAME_QUEUED" \in flags[endgame[i]]
  /\ \A i, j \in DOMAIN endgame : endgame[i] = endgame[j] => i = j
  /\ \A h \in Handles :
       "ENDGAME_QUEUED" \in flags[h] => \E i \in DOMAIN endgame : endgame[i] = h

\* Every request a handle counts is in one place.
ReqsInv ==
  \A h \in Handles :
    /\ Kind[h] = "tcp" =>
         /\ activecnt[h] = os[h] + port[h] + pending[h] + batch[h]
         /\ reqs[h] = activecnt[h] + (IF InCallback(h) THEN 1 ELSE 0)
    /\ Kind[h] = "async" =>
         /\ reqs[h] = port[h] + pending[h] + batch[h]
         /\ reqs[h] \in {0, 1} /\ os[h] = 0
    /\ Kind[h] = "idle" =>
         os[h] = 0 /\ port[h] = 0 /\ pending[h] = 0 /\ batch[h] = 0
    /\ Kind[h] # "tcp" => activecnt[h] = 0

\* A close is queued for its endgame exactly when its requests are over.
OwedInv ==
  \A h \in Handles :
    /\ "ENDGAME_QUEUED" \in flags[h] <=>
         Closing(h) /\ ~ Closed(h) /\ EndgameReady(h)
    /\ Kind[h] # "idle" /\ reqs[h] # 0 => mem[h] = "live" /\ ~ Closed(h)

\* uv_idle_invoke only has active idle handles to call, no callback runs where
\* the loop makes none, and uv_process_reqs leaves none of its batch behind.
IterInv ==
  /\ \A h \in visit : Kind[h] = "idle" /\ "ACTIVE" \in flags[h]
  /\ phase \in {"outside", "poll"} => frame = NoHandle
  /\ phase # "reqs" => \A h \in Handles : batch[h] = 0

Holders == {h \in Handles : HoldsLoop(h)}

IInv ==
  /\ TypeOK /\ LifeInv /\ EndgameInv /\ ReqsInv /\ OwedInv /\ IterInv
  /\ ActiveCountExact

-----------------------------------------------------------------------------
\* Lemmas on active_handles: the set of holders gains one, loses one or stays.
LEMMA HoldersFinite == IsFiniteSet(Holders) /\ Cardinality(Holders) \in Nat
BY HandlesAssumption, FS_Subset, FS_CardinalityType DEF Holders

\* A step that changes whether h holds the loop, and counts it.
LEMMA CountMoves ==
  ASSUME ActiveCountExact, NEW h \in Handles,
         \A k \in Handles \ {h} : HoldsLoop(k)' <=> HoldsLoop(k),
         activeHandles' = activeHandles + (IF HoldsLoop(h)' THEN 1 ELSE 0)
                                        - (IF HoldsLoop(h) THEN 1 ELSE 0)
  PROVE  ActiveCountExact'
<1> DEFINE After == {k \in Handles : HoldsLoop(k)'}
<1>1. Holders' = After
  BY DEF Holders
<1>2. activeHandles = Cardinality(Holders)
  BY DEF ActiveCountExact, Holders
<1>3. CASE HoldsLoop(h)' <=> HoldsLoop(h)
  <2>1. After = Holders
    BY <1>3 DEF Holders
  <2>2. activeHandles' = activeHandles
    <3>1. CASE HoldsLoop(h)
      BY <1>2, <1>3, <3>1, HoldersFinite
    <3>2. CASE ~ HoldsLoop(h)
      BY <1>2, <1>3, <3>2, HoldersFinite
    <3> QED BY <3>1, <3>2
  <2> QED BY <1>1, <1>2, <2>1, <2>2 DEF ActiveCountExact, Holders
<1>4. CASE HoldsLoop(h)' /\ ~ HoldsLoop(h)
  <2>1. After = Holders \union {h} /\ h \notin Holders
    BY <1>4 DEF Holders
  <2>2. Cardinality(After) = Cardinality(Holders) + 1
    BY <2>1, HoldersFinite, FS_AddElement
  <2> QED BY <1>1, <1>2, <1>4, <2>2, HoldersFinite DEF ActiveCountExact, Holders
<1>5. CASE ~ HoldsLoop(h)' /\ HoldsLoop(h)
  <2>1. After = Holders \ {h} /\ h \in Holders
    BY <1>5 DEF Holders
  <2>2. Cardinality(After) = Cardinality(Holders) - 1
    BY <2>1, HoldersFinite, FS_RemoveElement
  <2> QED BY <1>1, <1>2, <1>5, <2>2, HoldersFinite DEF ActiveCountExact, Holders
<1> QED BY <1>3, <1>4, <1>5

\* A step that changes no holder and does not count.
LEMMA CountStays ==
  ASSUME ActiveCountExact, UNCHANGED activeHandles,
         \A k \in Handles : HoldsLoop(k)' <=> HoldsLoop(k)
  PROVE  ActiveCountExact'
BY DEF ActiveCountExact

\* The endgame list when a step queues nothing.
LEMMA EndgameKept ==
  ASSUME TypeOK, EndgameInv, UNCHANGED endgame,
         \A k \in Handles :
           "ENDGAME_QUEUED" \in flags'[k] <=> "ENDGAME_QUEUED" \in flags[k]
  PROVE  EndgameInv'
<1>1. \A i \in DOMAIN endgame : endgame[i] \in Handles
  BY DEF TypeOK
<1> QED BY <1>1 DEF EndgameInv

\* The endgame list when a step queues one handle, which was not queued.
LEMMA EndgamePush ==
  ASSUME TypeOK, EndgameInv, NEW h \in Handles,
         "ENDGAME_QUEUED" \notin flags[h], "ENDGAME_QUEUED" \in flags'[h],
         \A k \in Handles \ {h} : flags'[k] = flags[k],
         endgame' = <<h>> \o endgame
  PROVE  EndgameInv' /\ endgame' \in Seq(Handles)
<1> DEFINE n == Len(endgame)
<1>1. n \in Nat /\ DOMAIN endgame = 1..n
      /\ \A i \in 1..n : endgame[i] \in Handles /\ endgame[i] # h
  <2>1. n \in Nat /\ DOMAIN endgame = 1..n /\ \A i \in 1..n : endgame[i] \in Handles
    BY DEF TypeOK
  <2> QED BY <2>1 DEF EndgameInv
<1>2. endgame' \in Seq(Handles) /\ DOMAIN endgame' = 1..(n + 1)
      /\ endgame'[1] = h /\ \A i \in 2..(n + 1) : endgame'[i] = endgame[i - 1]
  BY <1>1 DEF TypeOK
<1>3. \A i \in DOMAIN endgame' : "ENDGAME_QUEUED" \in flags'[endgame'[i]]
  <2> SUFFICES ASSUME NEW i \in 1..(n + 1)
               PROVE  "ENDGAME_QUEUED" \in flags'[endgame'[i]]
    BY <1>2
  <2>1. CASE i = 1
    BY <1>2, <2>1
  <2>2. CASE i # 1
    <3>1. endgame'[i] = endgame[i - 1] /\ i - 1 \in 1..n
      BY <1>1, <1>2, <2>2
    <3> QED BY <1>1, <3>1 DEF EndgameInv
  <2> QED BY <2>1, <2>2
<1>4. ASSUME NEW i \in 1..(n + 1), NEW j \in 1..(n + 1), endgame'[i] = endgame'[j]
      PROVE  i = j
  <2>1. CASE i = 1 \/ j = 1
    BY <1>1, <1>2, <1>4, <2>1
  <2>2. CASE i # 1 /\ j # 1
    <3>1. i - 1 \in 1..n /\ j - 1 \in 1..n /\ endgame[i - 1] = endgame[j - 1]
      BY <1>1, <1>2, <1>4, <2>2
    <3>2. i - 1 = j - 1
      BY <1>1, <3>1 DEF EndgameInv
    <3> QED BY <1>1, <3>2
  <2> QED BY <2>1, <2>2
<1>5. ASSUME NEW k \in Handles, "ENDGAME_QUEUED" \in flags'[k]
      PROVE  \E i \in DOMAIN endgame' : endgame'[i] = k
  <2>1. CASE k = h
    BY <1>1, <1>2, <2>1
  <2>2. CASE k # h
    <3>1. PICK i \in 1..n : endgame[i] = k
      BY <1>1, <1>5, <2>2 DEF EndgameInv
    <3>2. endgame'[i + 1] = k /\ i + 1 \in DOMAIN endgame'
      BY <1>1, <1>2, <3>1
    <3> QED BY <3>2
  <2> QED BY <2>1, <2>2
<1> QED BY <1>2, <1>3, <1>4, <1>5 DEF EndgameInv

\* The endgame list when a step takes its head.
LEMMA EndgamePop ==
  ASSUME TypeOK, EndgameInv, endgame # <<>>, endgame' = Tail(endgame),
         "ENDGAME_QUEUED" \notin flags'[Head(endgame)],
         \A k \in Handles \ {Head(endgame)} : flags'[k] = flags[k]
  PROVE  EndgameInv' /\ endgame' \in Seq(Handles)
<1> DEFINE n == Len(endgame)
           h == Head(endgame)
<1>1. n \in Nat \ {0} /\ DOMAIN endgame = 1..n /\ h = endgame[1]
      /\ \A i \in 1..n : endgame[i] \in Handles
  <2>1. endgame \in Seq(Handles)
    BY DEF TypeOK
  <2> QED BY <2>1
<1>2. endgame' \in Seq(Handles) /\ DOMAIN endgame' = 1..(n - 1)
      /\ \A i \in 1..(n - 1) : endgame'[i] = endgame[i + 1]
  BY <1>1 DEF TypeOK
<1>3. \A i \in 1..(n - 1) : endgame'[i] \in Handles \ {h}
  BY <1>1, <1>2 DEF EndgameInv
<1>4. \A i \in DOMAIN endgame' : "ENDGAME_QUEUED" \in flags'[endgame'[i]]
  BY <1>1, <1>2, <1>3 DEF EndgameInv
<1>5. \A i, j \in DOMAIN endgame' : endgame'[i] = endgame'[j] => i = j
  BY <1>1, <1>2 DEF EndgameInv
<1>6. ASSUME NEW k \in Handles, "ENDGAME_QUEUED" \in flags'[k]
      PROVE  \E i \in DOMAIN endgame' : endgame'[i] = k
  <2>1. k # h /\ "ENDGAME_QUEUED" \in flags[k]
    BY <1>6
  <2>2. PICK i \in 1..n : endgame[i] = k
    BY <1>1, <2>1 DEF EndgameInv
  <2>3. i - 1 \in DOMAIN endgame' /\ endgame'[i - 1] = k
    BY <1>1, <1>2, <2>1, <2>2
  <2> QED BY <2>3
<1> QED BY <1>2, <1>4, <1>5, <1>6 DEF EndgameInv

-----------------------------------------------------------------------------
\* A new handle has no request and is in no queue; an async one holds the loop.
LEMMA CreateStep ==
  ASSUME IInv, NEW h \in Handles, Create(h)
  PROVE  IInv'
<1> USE HandlesAssumption, KindAssumption DEF IInv
<1>1. TypeOK'
  <2>1. flags' \in [Handles -> SUBSET Flag] /\ activeHandles' \in Int
    BY DEF TypeOK, Create, SetFlags, CountChange, Flag
  <2>2. /\ wrapper' \in [Handles -> {"unborn", "alive", "destroyed"}]
        /\ mem' \in [Handles -> {"unborn", "live", "freed"}]
        /\ data' \in [Handles -> BOOLEAN]
    BY DEF TypeOK, Create
  <2> QED BY <2>1, <2>2 DEF TypeOK, Create, control
<1>2. LifeInv'
  BY DEF TypeOK, Create, SetFlags, LifeInv, Closing, Closed
<1>3. EndgameInv'
  <2>1. flags[h] = {}
    BY DEF Create, LifeInv
  <2>2. \A k \in Handles :
          "ENDGAME_QUEUED" \in flags'[k] <=> "ENDGAME_QUEUED" \in flags[k]
    BY <2>1 DEF TypeOK, Create, SetFlags
  <2> QED BY <2>2, EndgameKept DEF Create
<1>4. ReqsInv'
  BY DEF TypeOK, Create, ReqsInv, InCallback, control
<1>5. OwedInv'
  BY DEF TypeOK, Create, SetFlags, LifeInv, OwedInv, Closing, Closed, EndgameReady
<1>6. IterInv'
  BY DEF TypeOK, Create, SetFlags, IterInv, LifeInv, control
<1>7. ActiveCountExact'
  BY CountMoves DEF TypeOK, Create, SetFlags, CountChange, Counted, HoldsLoop, LifeInv
<1> QED BY <1>1, <1>2, <1>3, <1>4, <1>5, <1>6, <1>7

\* onClose touches the wrapper only.
LEMMA OnCloseStep ==
  ASSUME IInv, NEW h \in Handles, OnClose(h)
  PROVE  IInv'
<1> USE DEF IInv, OnClose, block, queues, control
<1>1. TypeOK'
  BY DEF TypeOK
<1>2. LifeInv' /\ OwedInv' /\ ReqsInv' /\ IterInv'
  BY DEF LifeInv, OwedInv, ReqsInv, IterInv, Closing, Closed, EndgameReady, InCallback
<1>3. EndgameInv'
  BY EndgameKept
<1>4. ActiveCountExact'
  BY CountStays DEF HoldsLoop
<1> QED BY <1>1, <1>2, <1>3, <1>4

\* uv_close on a handle that is not closing: what Close and Destroy share.
LEMMA UvCloseFacts ==
  ASSUME IInv, NEW h \in Handles, wrapper[h] = "alive", ~ Closing(h), UvClose(h)
  PROVE  /\ flags' \in [Handles -> SUBSET Flag]
         /\ endgame' \in Seq(Handles) /\ activeHandles' \in Int
         /\ visit' = visit \ {h}
         /\ \A k \in Handles \ {h} : flags'[k] = flags[k]
         /\ "CLOSING" \in flags'[h] /\ "CLOSED" \notin flags'[h]
         /\ "ACTIVE" \notin flags'[h]
         /\ "ENDGAME_QUEUED" \in flags'[h] <=> EndgameReady(h)
         /\ EndgameInv' /\ ActiveCountExact'
<1> USE DEF IInv
<1> DEFINE new == (flags[h] \ {"ACTIVE"}) \union {"CLOSING"}
<1>1. "ENDGAME_QUEUED" \notin flags[h] /\ "CLOSED" \notin flags[h]
      /\ "CLOSING" \notin flags[h] /\ flags \in [Handles -> SUBSET Flag]
  BY DEF OwedInv, LifeInv, Closing, Closed, TypeOK
<1>2. flags' = [flags EXCEPT ![h] = IF EndgameReady(h)
                                      THEN new \union {"ENDGAME_QUEUED"} ELSE new]
      /\ endgame' = (IF EndgameReady(h) THEN <<h>> \o endgame ELSE endgame)
  BY <1>1 DEF UvClose, WantEndgame
<1>3. /\ flags' \in [Handles -> SUBSET Flag]
      /\ \A k \in Handles \ {h} : flags'[k] = flags[k]
      /\ "CLOSING" \in flags'[h] /\ "CLOSED" \notin flags'[h]
      /\ "ACTIVE" \notin flags'[h]
      /\ "ENDGAME_QUEUED" \in flags'[h] <=> EndgameReady(h)
  BY <1>1, <1>2 DEF Flag
<1>4. EndgameInv' /\ endgame' \in Seq(Handles)
  <2>1. CASE EndgameReady(h)
    BY <1>1, <1>2, <1>3, <2>1, EndgamePush
  <2>2. CASE ~ EndgameReady(h)
    <3>1. endgame' = endgame
      BY <1>2, <2>2
    <3> QED BY <1>1, <1>3, <2>2, <3>1, EndgameKept DEF TypeOK
  <2> QED BY <2>1, <2>2
<1>5. activeHandles' \in Int /\ visit' = visit \ {h}
  BY DEF UvClose, TypeOK
<1>6. ActiveCountExact'
  <2>1. HoldsLoop(h)' /\ (HoldsLoop(h) <=> Counted(h))
    BY <1>1, <1>3 DEF HoldsLoop, Counted
  <2>2. \A k \in Handles \ {h} : HoldsLoop(k)' <=> HoldsLoop(k)
    BY <1>3 DEF HoldsLoop
  <2>3. activeHandles' = activeHandles + (IF Counted(h) THEN 0 ELSE 1)
    BY DEF UvClose
  <2>4. activeHandles' = activeHandles + (IF HoldsLoop(h)' THEN 1 ELSE 0)
                                       - (IF HoldsLoop(h) THEN 1 ELSE 0)
    <3>1. CASE Counted(h)
      BY <2>1, <2>3, <3>1 DEF TypeOK
    <3>2. CASE ~ Counted(h)
      BY <2>1, <2>3, <3>2 DEF TypeOK
    <3> QED BY <3>1, <3>2
  <2> QED BY <2>2, <2>4, CountMoves
<1> QED BY <1>3, <1>4, <1>5, <1>6

\* close() makes a handle owe an endgame.
LEMMA CloseStep ==
  ASSUME IInv, NEW h \in Handles, Close(h)
  PROVE  IInv'
<1> USE DEF IInv
<1>1. wrapper[h] = "alive" /\ ~ Closing(h) /\ UvClose(h)
  BY DEF Close
<1>2. TypeOK'
  BY <1>1, UvCloseFacts DEF TypeOK, Close
<1>3. LifeInv'
  BY <1>1, UvCloseFacts DEF TypeOK, Close, LifeInv, Closing, Closed
<1>4. ReqsInv'
  BY DEF Close, ReqsInv, InCallback
<1>5. OwedInv'
  BY <1>1, UvCloseFacts DEF Close, LifeInv, OwedInv, Closing, Closed, EndgameReady
<1>6. IterInv'
  BY <1>1, UvCloseFacts DEF TypeOK, Close, IterInv
<1> QED BY <1>1, <1>2, <1>3, <1>4, <1>5, <1>6, UvCloseFacts

\* ~Handle frees the block of a closed handle, closes an open one and orphans
\* a closing one.
LEMMA DestroyStep ==
  ASSUME IInv, NEW h \in Handles, Destroy(h)
  PROVE  IInv'
<1> USE DEF IInv
<1>1. CASE IsClosed(h) /\ Free(h) /\ UNCHANGED <<endgame, activeHandles, visit>>
  <2>1. wrapper[h] = "alive" /\ Closed(h) /\ Closing(h) /\ mem[h] = "live"
    BY <1>1 DEF Destroy, LifeInv, IsClosed
  <2>2. flags' = [flags EXCEPT ![h] = {}] /\ mem' = [mem EXCEPT ![h] = "freed"]
    BY <1>1 DEF Free
  <2>3. TypeOK'
    BY <1>1, <2>2 DEF TypeOK, Destroy, Flag
  <2>4. LifeInv'
    BY <2>1, <2>2 DEF TypeOK, Destroy, LifeInv, Closing, Closed
  <2>5. EndgameInv'
    <3>1. \A k \in Handles :
            "ENDGAME_QUEUED" \in flags'[k] <=> "ENDGAME_QUEUED" \in flags[k]
      BY <2>1, <2>2 DEF TypeOK, OwedInv
    <3> QED BY <1>1, <3>1, EndgameKept
  <2>6. ReqsInv'
    BY DEF Destroy, ReqsInv, InCallback
  <2>7. OwedInv'
    BY <2>1, <2>2 DEF TypeOK, Destroy, OwedInv, Closing, Closed, EndgameReady
  <2>8. IterInv'
    BY <1>1, <2>1, <2>2 DEF TypeOK, Destroy, IterInv, LifeInv
  <2>9. ActiveCountExact'
    BY <1>1, <2>1, <2>2, CountStays DEF TypeOK, HoldsLoop, Closing, Closed
  <2> QED BY <2>3, <2>4, <2>5, <2>6, <2>7, <2>8, <2>9
<1>2. CASE ~ IsClosed(h) /\ ~ Closing(h) /\ UvClose(h) /\ UNCHANGED mem
  <2>1. wrapper[h] = "alive"
    BY DEF Destroy
  <2>2. TypeOK'
    BY <1>2, <2>1, UvCloseFacts DEF TypeOK, Destroy
  <2>3. LifeInv'
    BY <1>2, <2>1, UvCloseFacts DEF TypeOK, Destroy, LifeInv, Closing, Closed
  <2>4. ReqsInv'
    BY DEF Destroy, ReqsInv, InCallback
  <2>5. OwedInv'
    BY <1>2, <2>1, UvCloseFacts
       DEF Destroy, LifeInv, OwedInv, Closing, Closed, EndgameReady
  <2>6. IterInv'
    BY <1>2, <2>1, UvCloseFacts DEF TypeOK, Destroy, IterInv
  <2> QED BY <1>2, <2>1, <2>2, <2>3, <2>4, <2>5, <2>6, UvCloseFacts
<1>3. CASE ~ IsClosed(h) /\ Closing(h)
           /\ UNCHANGED <<mem, flags, endgame, activeHandles, visit>>
  <2>1. TypeOK'
    BY <1>3 DEF TypeOK, Destroy
  <2>2. LifeInv'
    BY <1>3 DEF TypeOK, Destroy, LifeInv, Closing, Closed, IsClosed
  <2>3. ReqsInv' /\ OwedInv' /\ IterInv'
    BY <1>3 DEF Destroy, ReqsInv, InCallback, OwedInv, IterInv, Closing, Closed,
                EndgameReady
  <2>4. EndgameInv' /\ ActiveCountExact'
    BY <1>3, EndgameKept, CountStays DEF HoldsLoop
  <2> QED BY <2>1, <2>2, <2>3, <2>4
<1> QED BY <1>1, <1>2, <1>3 DEF Destroy

\* A step of the program that only changes the flags ACTIVE and REF of h.
LEMMA FlagFacts ==
  ASSUME IInv, NEW h \in Handles, NEW new \in SUBSET Flag, wrapper[h] = "alive",
         "CLOSING" \in new <=> Closing(h), "CLOSED" \in new <=> Closed(h),
         "ENDGAME_QUEUED" \in new <=> "ENDGAME_QUEUED" \in flags[h],
         flags' = [flags EXCEPT ![h] = new], UNCHANGED endgame,
         IF Closing(h) THEN UNCHANGED activeHandles ELSE CountChange(h, new)
  PROVE  /\ flags' \in [Handles -> SUBSET Flag] /\ activeHandles' \in Int
         /\ EndgameInv' /\ ActiveCountExact'
<1> USE DEF IInv
<1>1. flags' \in [Handles -> SUBSET Flag] /\ flags'[h] = new
      /\ \A k \in Handles \ {h} : flags'[k] = flags[k]
  BY DEF TypeOK
<1>2. EndgameInv'
  BY <1>1, EndgameKept
<1>3. activeHandles' \in Int
  BY DEF TypeOK, CountChange
<1>4. CASE Closing(h)
  <2>1. \A k \in Handles : HoldsLoop(k)' <=> HoldsLoop(k)
    BY <1>1, <1>4 DEF HoldsLoop, Closing, Closed
  <2> QED BY <1>1, <1>2, <1>3, <1>4, <2>1, CountStays
<1>5. CASE ~ Closing(h)
  <2>1. (HoldsLoop(h)' <=> {"ACTIVE", "REF"} \subseteq new)
        /\ (HoldsLoop(h) <=> Counted(h))
        /\ \A k \in Handles \ {h} : HoldsLoop(k)' <=> HoldsLoop(k)
    BY <1>1, <1>5 DEF HoldsLoop, Closing, Counted
  <2>2. activeHandles' = activeHandles + (IF HoldsLoop(h)' THEN 1 ELSE 0)
                                       - (IF HoldsLoop(h) THEN 1 ELSE 0)
    BY <1>5, <2>1 DEF CountChange
  <2> QED BY <1>1, <1>2, <1>3, <2>1, <2>2, CountMoves
<1> QED BY <1>4, <1>5

\* ref and unref move the count with the flag, except on a closing handle.
LEMMA RerefStep ==
  ASSUME IInv, NEW h \in Handles, Reref(h)
  PROVE  IInv'
<1> USE DEF IInv
<1>1. PICK new \in {flags[h] \union {"REF"}, flags[h] \ {"REF"}} :
        IF Closing(h)
          THEN flags' = [flags EXCEPT ![h] = new] /\ UNCHANGED activeHandles
          ELSE SetFlags(h, new)
  BY DEF Reref
<1>2. new \in SUBSET Flag /\ flags' = [flags EXCEPT ![h] = new]
      /\ \A f \in Flag \ {"REF"} : f \in new <=> f \in flags[h]
  BY <1>1 DEF TypeOK, SetFlags, Flag
<1>3. /\ flags' \in [Handles -> SUBSET Flag] /\ activeHandles' \in Int
      /\ EndgameInv' /\ ActiveCountExact'
  BY <1>1, <1>2, FlagFacts DEF Reref, SetFlags, Flag, Closing, Closed
<1>4. \A k \in Handles : \A f \in Flag \ {"REF"} : f \in flags'[k] <=> f \in flags[k]
  BY <1>2 DEF TypeOK
<1>5. TypeOK'
  BY <1>3 DEF TypeOK, Reref, control
<1>6. LifeInv'
  <2>1. mem[h] = "live"
    BY DEF Reref, LifeInv
  <2>2. \A k \in Handles : mem[k] # "live" => flags'[k] = {}
    BY <1>2, <2>1 DEF LifeInv, TypeOK
  <2> QED BY <1>4, <2>2 DEF Reref, LifeInv, Closing, Closed, Flag
<1>7. ReqsInv'
  BY DEF Reref, ReqsInv, InCallback, control
<1>8. OwedInv'
  BY <1>4 DEF Reref, OwedInv, Closing, Closed, EndgameReady, Flag
<1>9. IterInv'
  BY <1>4 DEF TypeOK, Reref, IterInv, control, Flag
<1> QED BY <1>3, <1>5, <1>6, <1>7, <1>8, <1>9

\* An idle handle that starts is not closing.
LEMMA IdleStartStep ==
  ASSUME IInv, NEW h \in Handles, IdleStart(h)
  PROVE  IInv'
<1> USE DEF IInv
<1> DEFINE new == flags[h] \union {"ACTIVE"}
<1>1. new \in SUBSET Flag /\ flags' = [flags EXCEPT ![h] = new]
      /\ \A f \in Flag \ {"ACTIVE"} : f \in new <=> f \in flags[h]
  BY DEF TypeOK, IdleStart, SetFlags, Flag
<1>2. /\ flags' \in [Handles -> SUBSET Flag] /\ activeHandles' \in Int
      /\ EndgameInv' /\ ActiveCountExact'
  BY <1>1, FlagFacts DEF IdleStart, SetFlags, Flag, Closing, Closed
<1>3. /\ \A k \in Handles : \A f \in Flag \ {"ACTIVE"} : f \in flags'[k] <=> f \in flags[k]
      /\ \A k \in Handles \ {h} : flags'[k] = flags[k]
      /\ "ACTIVE" \in flags'[h]
  BY <1>1 DEF TypeOK
<1>4. TypeOK'
  BY <1>2 DEF TypeOK, IdleStart, control
<1>5. LifeInv'
  BY <1>3 DEF IdleStart, LifeInv, Closing, Closed, Flag
<1>6. ReqsInv'
  BY DEF IdleStart, ReqsInv, InCallback, control
<1>7. OwedInv'
  BY <1>3 DEF IdleStart, OwedInv, Closing, Closed, EndgameReady, Flag
<1>8. IterInv'
  BY <1>3 DEF TypeOK, IdleStart, IterInv, control
<1> QED BY <1>2, <1>4, <1>5, <1>6, <1>7, <1>8

\* An idle handle that stops leaves the iteration under way too.
LEMMA IdleStopStep ==
  ASSUME IInv, NEW h \in Handles, IdleStop(h)
  PROVE  IInv'
<1> USE DEF IInv
<1> DEFINE new == flags[h] \ {"ACTIVE"}
<1>1. new \in SUBSET Flag /\ flags' = [flags EXCEPT ![h] = new]
      /\ \A f \in Flag \ {"ACTIVE"} : f \in new <=> f \in flags[h]
  BY DEF TypeOK, IdleStop, SetFlags, Flag
<1>2. /\ flags' \in [Handles -> SUBSET Flag] /\ activeHandles' \in Int
      /\ EndgameInv' /\ ActiveCountExact'
  BY <1>1, FlagFacts DEF IdleStop, SetFlags, Flag, Closing, Closed
<1>3. /\ \A k \in Handles : \A f \in Flag \ {"ACTIVE"} : f \in flags'[k] <=> f \in flags[k]
      /\ \A k \in Handles \ {h} : flags'[k] = flags[k]
      /\ "ACTIVE" \notin flags'[h]
  BY <1>1 DEF TypeOK
<1>4. TypeOK'
  BY <1>2 DEF TypeOK, IdleStop
<1>5. LifeInv'
  BY <1>3 DEF IdleStop, LifeInv, Closing, Closed, Flag
<1>6. ReqsInv'
  BY DEF IdleStop, ReqsInv, InCallback
<1>7. OwedInv'
  BY <1>3 DEF IdleStop, OwedInv, Closing, Closed, EndgameReady, Flag
<1>8. IterInv'
  BY <1>3 DEF TypeOK, IdleStop, IterInv
<1> QED BY <1>2, <1>4, <1>5, <1>6, <1>7, <1>8

\* A new request is in the kernel or among the pending ones.
LEMMA RequestAdds ==
  ASSUME TypeOK, NEW h \in Handles, Request(h)
  PROVE  /\ os' \in [Handles -> Nat] /\ pending' \in [Handles -> Nat]
         /\ os'[h] \in Nat /\ pending'[h] \in Nat
         /\ os'[h] + pending'[h] = os[h] + pending[h] + 1
         /\ \A k \in Handles \ {h} : os'[k] = os[k] /\ pending'[k] = pending[k]
<1>1. os \in [Handles -> Nat] /\ pending \in [Handles -> Nat]
  BY DEF TypeOK
<1>2. CASE os' = [os EXCEPT ![h] = os[h] + 1] /\ pending' = pending
  BY <1>1, <1>2
<1>3. CASE pending' = [pending EXCEPT ![h] = pending[h] + 1] /\ os' = os
  BY <1>1, <1>3
<1>4. \/ os' = [os EXCEPT ![h] = os[h] + 1] /\ pending' = pending
      \/ pending' = [pending EXCEPT ![h] = pending[h] + 1] /\ os' = os
  BY Zenon DEF Request
<1> QED BY <1>2, <1>3, <1>4

\* A new request is counted by the handle and is in one place.
LEMMA RequestStep ==
  ASSUME IInv, NEW h \in Handles, Request(h)
  PROVE  IInv'
<1> USE DEF IInv
<1> DEFINE new == IF activecnt[h] = 0 THEN flags[h] \union {"ACTIVE"} ELSE flags[h]
<1>1. new \in SUBSET Flag /\ flags' = [flags EXCEPT ![h] = new]
      /\ \A f \in Flag \ {"ACTIVE"} : f \in new <=> f \in flags[h]
  BY DEF TypeOK, Request, IncreaseActive, SetFlags, Flag
<1>2. /\ flags' \in [Handles -> SUBSET Flag] /\ activeHandles' \in Int
      /\ EndgameInv' /\ ActiveCountExact'
  BY <1>1, FlagFacts DEF Request, IncreaseActive, SetFlags, Flag, Closing, Closed
<1>3. /\ \A k \in Handles : \A f \in Flag \ {"ACTIVE"} : f \in flags'[k] <=> f \in flags[k]
      /\ \A k \in Handles \ {h} : flags'[k] = flags[k]
  BY <1>1 DEF TypeOK
<1>4. TypeOK'
  <2>1. reqs' \in [Handles -> Nat] /\ activecnt' \in [Handles -> Nat]
    <3>1. reqs' = [reqs EXCEPT ![h] = reqs[h] + 1]
          /\ activecnt' = [activecnt EXCEPT ![h] = activecnt[h] + 1]
      BY DEF Request, IncreaseActive
    <3>2. reqs \in [Handles -> Nat] /\ activecnt \in [Handles -> Nat]
      BY DEF TypeOK
    <3> QED BY <3>1, <3>2
  <2>2. os' \in [Handles -> Nat] /\ pending' \in [Handles -> Nat]
    BY RequestAdds
  <2> QED BY <1>2, <2>1, <2>2 DEF TypeOK, Request, control
<1>5. LifeInv'
  BY <1>3 DEF Request, LifeInv, Closing, Closed, Flag
<1>6. ReqsInv'
  <2>1. /\ Kind[h] = "tcp" /\ activecnt'[h] = activecnt[h] + 1
        /\ reqs'[h] = reqs[h] + 1 /\ UNCHANGED <<port, batch>>
        /\ \A k \in Handles \ {h} : activecnt'[k] = activecnt[k] /\ reqs'[k] = reqs[k]
    BY DEF TypeOK, Request, IncreaseActive
  <2>2. os'[h] + pending'[h] = os[h] + pending[h] + 1
        /\ os'[h] \in Nat /\ pending'[h] \in Nat
        /\ \A k \in Handles \ {h} : os'[k] = os[k] /\ pending'[k] = pending[k]
    BY RequestAdds
  <2>3. \A k \in Handles : InCallback(k)' <=> InCallback(k)
    BY DEF Request, control, InCallback
  <2> SUFFICES ASSUME NEW k \in Handles
               PROVE  ReqsInv!(k)'
    BY DEF ReqsInv
  <2>4. CASE k = h
    <3>1. activecnt[h] = os[h] + port[h] + pending[h] + batch[h]
          /\ reqs[h] = activecnt[h] + (IF InCallback(h) THEN 1 ELSE 0)
      BY <2>1 DEF ReqsInv
    <3>2. activecnt'[h] = os'[h] + port'[h] + pending'[h] + batch'[h]
      <4>1. os[h] \in Nat /\ port[h] \in Nat /\ pending[h] \in Nat /\ batch[h] \in Nat
        BY DEF TypeOK
      <4> QED BY <2>1, <2>2, <3>1, <4>1
    <3>3. reqs'[h] = activecnt'[h] + (IF InCallback(h)' THEN 1 ELSE 0)
      <4>1. activecnt[h] \in Nat
        BY DEF TypeOK
      <4> QED BY <2>1, <2>3, <3>1, <4>1
    <3> QED BY <2>1, <2>4, <3>2, <3>3
  <2>5. CASE k # h
    BY <2>1, <2>2, <2>3, <2>5 DEF ReqsInv
  <2> QED BY <2>4, <2>5
<1>7. OwedInv'
  <2>1. /\ ~ Closing(h) /\ mem[h] = "live" /\ Kind[h] = "tcp"
        /\ UNCHANGED mem /\ reqs'[h] = reqs[h] + 1 /\ reqs[h] \in Nat
        /\ \A k \in Handles \ {h} : reqs'[k] = reqs[k]
    BY DEF TypeOK, Request, LifeInv
  <2>2. \A k \in Handles :
          /\ Closing(k)' <=> Closing(k)
          /\ Closed(k)' <=> Closed(k)
          /\ "ENDGAME_QUEUED" \in flags'[k] <=> "ENDGAME_QUEUED" \in flags[k]
    <3>1. /\ "CLOSING" \in Flag \ {"ACTIVE"} /\ "CLOSED" \in Flag \ {"ACTIVE"}
          /\ "ENDGAME_QUEUED" \in Flag \ {"ACTIVE"}
      BY DEF Flag
    <3> TAKE k \in Handles
    <3>2. /\ "CLOSING" \in flags'[k] <=> "CLOSING" \in flags[k]
          /\ "CLOSED" \in flags'[k] <=> "CLOSED" \in flags[k]
          /\ "ENDGAME_QUEUED" \in flags'[k] <=> "ENDGAME_QUEUED" \in flags[k]
      BY ONLY <1>3, <3>1, k \in Handles
    <3> QED BY <3>2 DEF Closing, Closed
  <2>3. ~ Closed(h)
    BY <2>1 DEF LifeInv
  <2> SUFFICES ASSUME NEW k \in Handles
               PROVE  OwedInv!(k)'
    BY DEF OwedInv
  <2>4. CASE k = h
    <3>1. ~ Closing(h)' /\ ~ Closed(h)' /\ mem'[h] = "live"
      BY <2>1, <2>2, <2>3
    <3>2. "ENDGAME_QUEUED" \notin flags'[h]
      BY <2>1, <2>2 DEF OwedInv
    <3> QED BY <2>1, <2>4, <3>1, <3>2
  <2>5. CASE k # h
    <3>1. mem'[k] = mem[k] /\ reqs'[k] = reqs[k]
      BY <2>1, <2>5
    <3>2. EndgameReady(k)' <=> EndgameReady(k)
      BY <3>1 DEF EndgameReady
    <3> QED BY <2>2, <3>1, <3>2 DEF OwedInv
  <2> QED BY <2>4, <2>5
<1>8. IterInv'
  BY <1>3 DEF TypeOK, Request, IterInv, control
<1> QED BY <1>2, <1>4, <1>5, <1>6, <1>7, <1>8

\* async_sent and the packet appear together.
LEMMA SendStep ==
  ASSUME IInv, NEW h \in Handles, Send(h)
  PROVE  IInv'
<1> USE DEF IInv, Send, control
<1>1. /\ Kind[h] = "async" /\ reqs[h] = 0
      /\ reqs' \in [Handles -> Nat] /\ port' \in [Handles -> Nat]
      /\ reqs'[h] = 1 /\ port'[h] = port[h] + 1
      /\ \A k \in Handles \ {h} : reqs'[k] = reqs[k] /\ port'[k] = port[k]
  BY DEF TypeOK
<1>6. TypeOK'
  BY <1>1 DEF TypeOK
<1>2. LifeInv' /\ IterInv'
  BY DEF LifeInv, IterInv, Closing, Closed
<1>3. ReqsInv'
  <2>1. \A k \in Handles : InCallback(k)' <=> InCallback(k)
    BY DEF InCallback
  <2>2. /\ port[h] = 0 /\ pending[h] = 0 /\ batch[h] = 0
        /\ activecnt[h] = 0 /\ os[h] = 0
    BY <1>1 DEF TypeOK, ReqsInv
  <2> SUFFICES ASSUME NEW k \in Handles
               PROVE  ReqsInv!(k)'
    BY DEF ReqsInv
  <2>3. CASE k = h
    BY <1>1, <2>2, <2>3
  <2>4. CASE k # h
    BY <1>1, <2>1, <2>4 DEF ReqsInv
  <2> QED BY <2>3, <2>4
<1>4. OwedInv'
  BY DEF TypeOK, LifeInv, OwedInv, Closing, Closed, EndgameReady
<1>5. EndgameInv' /\ ActiveCountExact'
  BY EndgameKept, CountStays DEF HoldsLoop
<1> QED BY <1>6, <1>2, <1>3, <1>4, <1>5

\* A completion moves a request from the kernel to the port.
LEMMA CompleteStep ==
  ASSUME IInv, NEW h \in Handles, Complete(h)
  PROVE  IInv'
<1> USE DEF IInv, Complete, control, block
<1>1. TypeOK'
  <2>1. os[h] - 1 \in Nat /\ port[h] + 1 \in Nat
    BY DEF TypeOK
  <2>2. os' \in [Handles -> Nat]
    BY <2>1 DEF TypeOK
  <2>3. port' \in [Handles -> Nat]
    BY <2>1 DEF TypeOK
  <2> QED BY <2>2, <2>3 DEF TypeOK
<1>2. LifeInv' /\ IterInv'
  BY DEF LifeInv, IterInv, Closing, Closed
<1>3. ReqsInv'
  <2>1. Kind[h] = "tcp"
    BY KindAssumption DEF ReqsInv
  <2>2. os'[h] = os[h] - 1 /\ port'[h] = port[h] + 1
        /\ \A k \in Handles \ {h} : os'[k] = os[k] /\ port'[k] = port[k]
    BY DEF TypeOK
  <2>3. os'[h] + port'[h] = os[h] + port[h]
    BY <2>2 DEF TypeOK
  <2>4. \A k \in Handles : InCallback(k)' <=> InCallback(k)
    BY DEF InCallback
  <2> SUFFICES ASSUME NEW k \in Handles
               PROVE  ReqsInv!(k)'
    BY DEF ReqsInv
  <2>5. CASE k = h
    <3>1. activecnt'[k] = os'[k] + port'[k] + pending'[k] + batch'[k]
      BY <2>1, <2>3, <2>5 DEF TypeOK, ReqsInv
    <3> QED BY <2>1, <2>4, <2>5, <3>1 DEF ReqsInv
  <2>6. CASE k # h
    BY <2>2, <2>4, <2>6 DEF ReqsInv
  <2> QED BY <2>5, <2>6
<1>4. OwedInv'
  BY DEF OwedInv, Closing, Closed, EndgameReady
<1>5. EndgameInv' /\ ActiveCountExact'
  BY EndgameKept, CountStays DEF HoldsLoop
<1> QED BY <1>1, <1>2, <1>3, <1>4, <1>5

-----------------------------------------------------------------------------
(* The steps of uv_run. *)

\* The head of an iteration: uv_process_reqs detaches the pending requests.
LEMMA BeginStep ==
  ASSUME IInv, Enter \/ EndgamesDone
  PROVE  IInv'
<1> USE DEF IInv, Enter, Run, EndgamesDone, BeginIteration, block
<1>1. TypeOK'
  <2>1. phase' \in Phase /\ mode' \in Mode /\ stop' \in BOOLEAN
    BY DEF TypeOK, Phase, Mode
  <2>2. pending' \in [Handles -> Nat] /\ batch' \in [Handles -> Nat]
    BY DEF TypeOK
  <2> QED BY <2>1, <2>2 DEF TypeOK
<1>2. LifeInv' /\ OwedInv'
  BY DEF LifeInv, OwedInv, Closing, Closed, EndgameReady
<1>3. IterInv'
  BY DEF IterInv
<1>4. ReqsInv'
  <2>1. \A k \in Handles : ~ InCallback(k) /\ ~ InCallback(k)'
    BY HandlesAssumption DEF InCallback, IterInv
  <2>5. ASSUME NEW k \in Handles
        PROVE  /\ batch[k] = 0
               /\ \/ pending'[k] = pending[k] /\ batch'[k] = batch[k]
                  \/ pending'[k] = 0 /\ batch'[k] = pending[k]
    BY DEF IterInv
  <2>2. \A k \in Handles : batch[k] = 0 /\ pending[k] \in Nat /\ batch'[k] \in Nat
                          /\ pending'[k] + batch'[k] = pending[k]
                          /\ (pending[k] = 0 => pending'[k] = 0 /\ batch'[k] = 0)
    BY <2>5 DEF TypeOK
  <2> SUFFICES ASSUME NEW k \in Handles
               PROVE  ReqsInv!(k)'
    BY DEF ReqsInv
  <2>3. os'[k] + port'[k] + pending'[k] + batch'[k]
          = os[k] + port[k] + pending[k] + batch[k]
        /\ port'[k] + pending'[k] + batch'[k] = port[k] + pending[k] + batch[k]
    BY <2>2 DEF TypeOK
  <2> QED BY <2>1, <2>2, <2>3 DEF ReqsInv
<1>5. EndgameInv' /\ ActiveCountExact'
  BY EndgameKept, CountStays DEF HoldsLoop
<1> QED BY <1>1, <1>2, <1>3, <1>4, <1>5

\* The request leaves the batch for its callback, still counted in reqs_pending.
LEMMA TcpReqBeginStep ==
  ASSUME IInv, NEW h \in Handles, TcpReqBegin(h)
  PROVE  IInv'
<1> USE DEF IInv
<1> DEFINE stops == activecnt[h] = 1 /\ ~ Closing(h)
           new == IF stops THEN flags[h] \ {"ACTIVE"} ELSE flags[h]
<1>1. Kind[h] = "tcp" /\ activecnt[h] \in Nat \ {0} /\ batch[h] \in Nat \ {0}
      /\ reqs[h] = activecnt[h] /\ reqs[h] # 0
  <2>1. Kind[h] = "tcp" /\ batch[h] \in Nat \ {0} /\ ~ InCallback(h)
    BY HandlesAssumption DEF TypeOK, TcpReqBegin, InCallback
  <2>2. activecnt[h] = os[h] + port[h] + pending[h] + batch[h] /\ reqs[h] = activecnt[h]
    BY <2>1 DEF TypeOK, ReqsInv
  <2> QED BY <2>1, <2>2 DEF TypeOK
<1>2. mem[h] = "live" /\ ~ Closed(h)
  BY <1>1 DEF OwedInv
<1>3. new \in SUBSET Flag /\ flags' = [flags EXCEPT ![h] = new]
      /\ \A f \in Flag \ {"ACTIVE"} : f \in new <=> f \in flags[h]
  BY DEF TypeOK, TcpReqBegin, DecreaseActive, SetFlags, Flag
<1>4. /\ \A k \in Handles : \A f \in Flag \ {"ACTIVE"} : f \in flags'[k] <=> f \in flags[k]
      /\ \A k \in Handles \ {h} : flags'[k] = flags[k]
      /\ flags'[h] = new /\ flags' \in [Handles -> SUBSET Flag]
  BY <1>3 DEF TypeOK
<1>5. EndgameInv'
  BY <1>4, EndgameKept DEF TcpReqBegin, Flag
<1>6. ActiveCountExact' /\ activeHandles' \in Int
  <2>1. CASE stops
    <3>1. CountChange(h, new)
      BY <2>1 DEF TcpReqBegin, DecreaseActive, SetFlags
    <3>2. (HoldsLoop(h)' <=> {"ACTIVE", "REF"} \subseteq new)
          /\ (HoldsLoop(h) <=> Counted(h))
          /\ \A k \in Handles \ {h} : HoldsLoop(k)' <=> HoldsLoop(k)
      BY <1>3, <1>4, <2>1 DEF HoldsLoop, Closing, Counted, Flag
    <3>3. activeHandles' = activeHandles + (IF HoldsLoop(h)' THEN 1 ELSE 0)
                                         - (IF HoldsLoop(h) THEN 1 ELSE 0)
      BY <3>1, <3>2 DEF CountChange
    <3>4. activeHandles' \in Int
      BY <3>1 DEF CountChange, TypeOK
    <3> QED BY <3>2, <3>3, <3>4, CountMoves
  <2>2. CASE ~ stops
    BY <2>2, CountStays DEF TcpReqBegin, DecreaseActive, HoldsLoop, TypeOK
  <2> QED BY <2>1, <2>2
<1>7. TypeOK'
  <2>1. batch' \in [Handles -> Nat] /\ activecnt' \in [Handles -> Nat]
    BY <1>1 DEF TypeOK, TcpReqBegin, DecreaseActive
  <2> QED BY <1>4, <1>6, <2>1 DEF TypeOK, TcpReqBegin
<1>8. LifeInv'
  BY <1>2, <1>4 DEF TcpReqBegin, LifeInv, Closing, Closed, Flag
<1>9. ReqsInv'
  <2>1. /\ activecnt'[h] = activecnt[h] - 1 /\ batch'[h] = batch[h] - 1
        /\ InCallback(h)' /\ ~ InCallback(h)
        /\ UNCHANGED <<os, port, pending, reqs>>
    BY <1>1, HandlesAssumption DEF TypeOK, TcpReqBegin, DecreaseActive, InCallback
  <2>2. \A k \in Handles \ {h} : activecnt'[k] = activecnt[k] /\ batch'[k] = batch[k]
                                /\ ~ InCallback(k) /\ ~ InCallback(k)'
    BY HandlesAssumption DEF TypeOK, TcpReqBegin, DecreaseActive, InCallback
  <2> SUFFICES ASSUME NEW k \in Handles
               PROVE  ReqsInv!(k)'
    BY DEF ReqsInv
  <2>3. CASE k = h
    <3>1. activecnt'[k] = os'[k] + port'[k] + pending'[k] + batch'[k]
      BY <1>1, <2>1, <2>3 DEF TypeOK, ReqsInv
    <3>2. reqs'[k] = activecnt'[k] + (IF InCallback(k)' THEN 1 ELSE 0)
      BY <1>1, <2>1, <2>3
    <3> QED BY <1>1, <2>3, <3>1, <3>2
  <2>4. CASE k # h
    BY <2>1, <2>2, <2>4 DEF ReqsInv
  <2> QED BY <2>3, <2>4
<1>10. OwedInv'
  BY <1>4 DEF TcpReqBegin, OwedInv, Closing, Closed, EndgameReady, Flag
<1>11. IterInv'
  BY <1>1, <1>4 DEF TypeOK, TcpReqBegin, IterInv
<1> QED BY <1>5, <1>6, <1>7, <1>8, <1>9, <1>10, <1>11

\* The last request of a closing handle queues its endgame.
LEMMA TcpReqEndStep ==
  ASSUME IInv, NEW h \in Handles, TcpReqEnd(h)
  PROVE  IInv'
<1> USE DEF IInv
<1> DEFINE last == Closing(h) /\ reqs[h] = 1
<1>1. Kind[h] = "tcp" /\ InCallback(h) /\ reqs[h] = activecnt[h] + 1
      /\ reqs[h] \in Nat \ {0} /\ mem[h] = "live" /\ ~ Closed(h)
      /\ ~ EndgameReady(h) /\ "ENDGAME_QUEUED" \notin flags[h]
  <2>1. Kind[h] = "tcp" /\ InCallback(h)
    BY DEF TcpReqEnd, InCallback
  <2>2. reqs[h] = activecnt[h] + 1 /\ reqs[h] \in Nat \ {0}
    BY <2>1 DEF ReqsInv, TypeOK
  <2> QED BY <2>1, <2>2 DEF OwedInv, EndgameReady
<1>2. reqs'[h] = reqs[h] - 1 /\ reqs' \in [Handles -> Nat]
      /\ \A k \in Handles \ {h} : reqs'[k] = reqs[k]
  BY <1>1 DEF TypeOK, TcpReqEnd
<1>3. /\ flags' \in [Handles -> SUBSET Flag]
      /\ \A k \in Handles \ {h} : flags'[k] = flags[k]
      /\ \A f \in Flag \ {"ENDGAME_QUEUED"} : f \in flags'[h] <=> f \in flags[h]
      /\ "ENDGAME_QUEUED" \in flags'[h] <=> last
  <2>1. flags' = [flags EXCEPT ![h] = IF last THEN flags[h] \union {"ENDGAME_QUEUED"}
                                      ELSE flags[h]]
    BY DEF TypeOK, TcpReqEnd, WantEndgame
  <2> QED BY <1>1, <2>1 DEF TypeOK, Flag
<1>4. EndgameInv' /\ endgame' \in Seq(Handles)
  <2>1. CASE last
    <3>1. endgame' = <<h>> \o endgame
      BY <1>1, <2>1 DEF TcpReqEnd, WantEndgame
    <3> QED BY <1>1, <1>3, <2>1, <3>1, EndgamePush
  <2>2. CASE ~ last
    <3>1. flags' = flags /\ endgame' = endgame
      BY <2>2 DEF TcpReqEnd
    <3> QED BY <3>1, EndgameKept DEF TypeOK
  <2> QED BY <2>1, <2>2
<1>5. ActiveCountExact'
  BY <1>3, CountStays DEF TcpReqEnd, HoldsLoop, Flag
<1>6. TypeOK'
  BY <1>2, <1>3, <1>4 DEF TypeOK, TcpReqEnd
<1>7. LifeInv'
  BY <1>1, <1>3 DEF TcpReqEnd, LifeInv, Closing, Closed, Flag
<1>8. ReqsInv'
  <2>1. ~ InCallback(h)' /\ UNCHANGED <<os, port, pending, batch, activecnt>>
        /\ \A k \in Handles \ {h} : ~ InCallback(k) /\ ~ InCallback(k)'
    BY HandlesAssumption DEF TcpReqEnd, InCallback
  <2> SUFFICES ASSUME NEW k \in Handles
               PROVE  ReqsInv!(k)'
    BY DEF ReqsInv
  <2>2. CASE k = h
    <3>1. reqs'[k] = activecnt'[k] + (IF InCallback(k)' THEN 1 ELSE 0)
      BY <1>1, <1>2, <2>1, <2>2 DEF TypeOK
    <3> QED BY <1>1, <2>1, <2>2, <3>1 DEF ReqsInv
  <2>3. CASE k # h
    BY <1>2, <2>1, <2>3 DEF ReqsInv
  <2> QED BY <2>2, <2>3
<1>9. OwedInv'
  <2>1. EndgameReady(h)' <=> reqs[h] = 1
    BY <1>1, <1>2 DEF EndgameReady
  <2>2. \A k \in Handles \ {h} : EndgameReady(k)' <=> EndgameReady(k)
    BY <1>2 DEF EndgameReady
  <2> QED BY <1>1, <1>2, <1>3, <2>1, <2>2 DEF TcpReqEnd, OwedInv, Closing, Closed, Flag
<1>10. IterInv'
  BY <1>3 DEF TypeOK, TcpReqEnd, IterInv, Flag
<1> QED BY <1>4, <1>5, <1>6, <1>7, <1>8, <1>9, <1>10

\* The packet of a closing async handle queues its endgame.
LEMMA AsyncWakeupStep ==
  ASSUME IInv, NEW h \in Handles, AsyncWakeup(h)
  PROVE  IInv'
<1> USE DEF IInv
<1>1. Kind[h] = "async" /\ batch[h] = 1 /\ port[h] = 0 /\ pending[h] = 0 
      /\ reqs[h] = 1 /\ os[h] = 0
  <2>1. Kind[h] = "async" /\ batch[h] \in Nat \ {0} /\ port[h] \in Nat
        /\ pending[h] \in Nat
    BY DEF TypeOK, AsyncWakeup
  <2>2. reqs[h] = port[h] + pending[h] + batch[h] /\ reqs[h] \in {0, 1} /\ os[h] = 0
    BY <2>1 DEF ReqsInv
  <2> QED BY <2>1, <2>2
<1>2. mem[h] = "live" /\ ~ Closed(h) /\ ~ EndgameReady(h)
      /\ "ENDGAME_QUEUED" \notin flags[h]
  BY <1>1 DEF OwedInv, EndgameReady
<1>3. /\ reqs' \in [Handles -> Nat] /\ reqs'[h] = 0
      /\ batch' \in [Handles -> Nat] /\ batch'[h] = 0
      /\ \A k \in Handles \ {h} : reqs'[k] = reqs[k] /\ batch'[k] = batch[k]
  BY <1>1 DEF TypeOK, AsyncWakeup
<1>4. /\ flags' \in [Handles -> SUBSET Flag]
      /\ \A k \in Handles \ {h} : flags'[k] = flags[k]
      /\ \A f \in Flag \ {"ENDGAME_QUEUED"} : f \in flags'[h] <=> f \in flags[h]
      /\ "ENDGAME_QUEUED" \in flags'[h] <=> Closing(h)
  <2>1. flags' = [flags EXCEPT ![h] = IF Closing(h) THEN flags[h] \union {"ENDGAME_QUEUED"}
                                      ELSE flags[h]]
    BY DEF TypeOK, AsyncWakeup, WantEndgame
  <2> QED BY <1>2, <2>1 DEF TypeOK, Flag
<1>5. EndgameInv' /\ endgame' \in Seq(Handles)
  <2>1. CASE Closing(h)
    <3>1. endgame' = <<h>> \o endgame
      BY <1>2, <2>1 DEF AsyncWakeup, WantEndgame
    <3> QED BY <1>2, <1>4, <2>1, <3>1, EndgamePush
  <2>2. CASE ~ Closing(h)
    <3>1. flags' = flags /\ endgame' = endgame
      BY <2>2 DEF AsyncWakeup
    <3> QED BY <3>1, EndgameKept DEF TypeOK
  <2> QED BY <2>1, <2>2
<1>6. ActiveCountExact'
  BY <1>4, CountStays DEF AsyncWakeup, HoldsLoop, Flag
<1>7. TypeOK'
  BY <1>3, <1>4, <1>5 DEF TypeOK, AsyncWakeup
<1>8. LifeInv'
  BY <1>2, <1>4 DEF AsyncWakeup, LifeInv, Closing, Closed, Flag
<1>9. ReqsInv'
  <2>1. \A k \in Handles : ~ InCallback(k) /\ ~ InCallback(k)'
    BY <1>1, HandlesAssumption DEF AsyncWakeup, InCallback
  <2> SUFFICES ASSUME NEW k \in Handles
               PROVE  ReqsInv!(k)'
    BY DEF ReqsInv
  <2>2. CASE k = h
    BY <1>1, <1>3, <2>2 DEF AsyncWakeup, ReqsInv
  <2>3. CASE k # h
    BY <1>3, <2>1, <2>3 DEF AsyncWakeup, ReqsInv
  <2> QED BY <2>2, <2>3
<1>10. OwedInv'
  <2>1. EndgameReady(h)'
    BY <1>3 DEF EndgameReady
  <2>2. \A k \in Handles \ {h} : EndgameReady(k)' <=> EndgameReady(k)
    BY <1>3 DEF EndgameReady
  <2> QED BY <1>2, <1>3, <1>4, <2>1, <2>2 DEF AsyncWakeup, OwedInv, Closing, Closed, Flag
<1>11. IterInv'
  BY <1>4 DEF TypeOK, AsyncWakeup, IterInv, Flag
<1> QED BY <1>5, <1>6, <1>7, <1>8, <1>9, <1>10, <1>11

\* The steps that only move uv_run along.
LEMMA ControlStep ==
  ASSUME IInv,
         \/ ReqsDone \/ IdleDone \/ Return \/ RunInVain \/ StopLoop
         \/ \E h \in Handles : IdleCall(h)
  PROVE  IInv'
<1> USE DEF IInv, ReqsDone, IdleDone, Return, RunInVain, StopLoop, IdleCall, block, queues
<1>1. UNCHANGED <<wrapper, onclose, block, queues>>
  OBVIOUS
<1>2. phase' \in Phase /\ visit' \in SUBSET Handles /\ frame' \in Handles \union {NoHandle}
      /\ mode' \in Mode /\ stop' \in BOOLEAN
  BY DEF TypeOK, Phase
<1>3. TypeOK'
  BY <1>1, <1>2 DEF TypeOK
<1>4. LifeInv' /\ OwedInv'
  BY <1>1 DEF LifeInv, OwedInv, Closing, Closed, EndgameReady
<1>5. EndgameInv' /\ ActiveCountExact'
  BY <1>1, EndgameKept, CountStays DEF HoldsLoop
<1>6. ReqsInv'
  <2>1. \A k \in Handles : InCallback(k)' <=> InCallback(k)
    BY HandlesAssumption DEF InCallback, IterInv
  <2> QED BY <1>1, <2>1 DEF ReqsInv
<1>7. IterInv'
  BY DEF IterInv
<1> QED BY <1>3, <1>4, <1>5, <1>6, <1>7

\* Completions move from the port to the pending requests.
LEMMA PollStep ==
  ASSUME IInv, Poll
  PROVE  IInv'
<1> USE DEF IInv, Poll, block
<1>1. TypeOK'
  <2>1. phase' \in Phase /\ mode' \in Mode
    BY DEF TypeOK, Phase, Mode
  <2>2. pending' \in [Handles -> Nat] /\ port' \in [Handles -> Nat]
    BY DEF TypeOK
  <2> QED BY <2>1, <2>2 DEF TypeOK
<1>2. LifeInv' /\ OwedInv' /\ IterInv'
  BY DEF LifeInv, OwedInv, IterInv, Closing, Closed, EndgameReady
<1>3. EndgameInv' /\ ActiveCountExact'
  BY EndgameKept, CountStays DEF HoldsLoop
<1>4. ReqsInv'
  <2>1. \A k \in Handles : InCallback(k)' <=> InCallback(k)
    BY DEF InCallback
  <2>2. \A k \in Handles : pending'[k] = pending[k] + port[k] /\ port'[k] = 0
    OBVIOUS
  <2> QED BY <2>1, <2>2 DEF ReqsInv, TypeOK
<1> QED BY <1>1, <1>2, <1>3, <1>4

\* The head of the endgame list is always ready: its close ends here.
LEMMA EndgameStep ==
  ASSUME IInv, Endgame
  PROVE  IInv'
<1> USE DEF IInv
<1>1. PICK h \in Handles : h = Head(endgame) /\ "ENDGAME_QUEUED" \in flags[h]
  <2>1. Head(endgame) = endgame[1] /\ 1 \in DOMAIN endgame
    BY DEF Endgame, TypeOK
  <2> QED BY <2>1 DEF EndgameInv, TypeOK
<1>2. Closing(h) /\ ~ Closed(h) /\ EndgameReady(h) /\ mem[h] = "live"
      /\ (Kind[h] # "idle" => reqs[h] = 0) /\ "ACTIVE" \notin flags[h]
  BY <1>1 DEF OwedInv, LifeInv, EndgameReady, Closing
<1>3. /\ data' = [data EXCEPT ![h] = FALSE] /\ activeHandles' = activeHandles - 1
      /\ flags' = [flags EXCEPT ![h] =
                     IF data[h] THEN (flags[h] \ {"ENDGAME_QUEUED"}) \union {"CLOSED"}
                     ELSE {}]
      /\ mem' = IF data[h] THEN mem ELSE [mem EXCEPT ![h] = "freed"]
  BY <1>1, <1>2 DEF Endgame, Free
<1>4. /\ flags' \in [Handles -> SUBSET Flag]
      /\ \A k \in Handles \ {h} : flags'[k] = flags[k] /\ data'[k] = data[k]
                                /\ mem'[k] = mem[k]
      /\ "ENDGAME_QUEUED" \notin flags'[h] /\ "ACTIVE" \notin flags'[h]
      /\ ("CLOSING" \in flags'[h] => "CLOSED" \in flags'[h])
  <2>1. flags' \in [Handles -> SUBSET Flag]
        /\ \A k \in Handles \ {h} : flags'[k] = flags[k] /\ data'[k] = data[k]
                                /\ mem'[k] = mem[k]
    BY <1>1, <1>3 DEF TypeOK, Flag
  <2>2. flags'[h] = IF data[h] THEN (flags[h] \ {"ENDGAME_QUEUED"}) \union {"CLOSED"}
                    ELSE {}
    BY <1>1, <1>3 DEF TypeOK
  <2> QED BY <1>2, <2>1, <2>2
<1>5. EndgameInv' /\ endgame' \in Seq(Handles)
  BY <1>1, <1>4, EndgamePop DEF Endgame
<1>6. ActiveCountExact'
  <2>1. ~ HoldsLoop(h)' /\ HoldsLoop(h)
    BY <1>1, <1>2, <1>4 DEF HoldsLoop, Closing, Closed
  <2>2. \A k \in Handles \ {h} : HoldsLoop(k)' <=> HoldsLoop(k)
    BY <1>4 DEF HoldsLoop
  <2>3. activeHandles' = activeHandles + (IF HoldsLoop(h)' THEN 1 ELSE 0)
                                       - (IF HoldsLoop(h) THEN 1 ELSE 0)
    BY <1>3, <2>1 DEF TypeOK
  <2> QED BY <1>1, <2>2, <2>3, CountMoves
<1>7. TypeOK'
  <2>1. /\ mem' \in [Handles -> {"unborn", "live", "freed"}]
        /\ data' \in [Handles -> BOOLEAN] /\ activeHandles' \in Int
    <3>1. mem' \in [Handles -> {"unborn", "live", "freed"}]
      BY <1>1, <1>3 DEF TypeOK
    <3>2. data' \in [Handles -> BOOLEAN]
      BY <1>1, <1>3 DEF TypeOK
    <3>3. activeHandles' \in Int
      BY <1>1, <1>3 DEF TypeOK
    <3> QED BY <3>1, <3>2, <3>3
  <2>2. onclose' \in [Handles -> BOOLEAN] /\ frame' \in Handles \union {NoHandle}
    BY <1>1 DEF TypeOK, Endgame
  <2> QED BY <1>4, <1>5, <2>1, <2>2 DEF TypeOK, Endgame
<1>8. LifeInv'
  <2> SUFFICES ASSUME NEW k \in Handles
               PROVE  LifeInv!(k)'
    BY DEF LifeInv
  <2>1. CASE k # h
    BY <1>4, <2>1 DEF Endgame, LifeInv, Closing, Closed
  <2>2. CASE k = h /\ data[h]
    <3>1. flags'[h] = (flags[h] \ {"ENDGAME_QUEUED"}) \union {"CLOSED"}
          /\ mem'[h] = "live" /\ ~ data'[h] /\ wrapper'[h] = "alive"
      BY <1>1, <1>2, <1>3, <2>2 DEF TypeOK, Endgame, LifeInv
    <3> QED BY <1>2, <2>2, <3>1 DEF LifeInv, Closing, Closed
  <2>3. CASE k = h /\ ~ data[h]
    <3>1. flags'[h] = {} /\ mem'[h] = "freed" /\ ~ data'[h]
          /\ wrapper'[h] = "destroyed"
      BY <1>1, <1>2, <1>3, <2>3 DEF TypeOK, Endgame, LifeInv
    <3> QED BY <2>3, <3>1 DEF LifeInv, Closing, Closed
  <2> QED BY <2>1, <2>2, <2>3
<1>9. ReqsInv'
  <2>1. \A k \in Handles : ~ InCallback(k) /\ ~ InCallback(k)'
    BY DEF Endgame, InCallback
  <2> QED BY <2>1 DEF Endgame, ReqsInv
<1>10. OwedInv'
  <2> SUFFICES ASSUME NEW k \in Handles
               PROVE  OwedInv!(k)'
    BY DEF OwedInv
  <2>1. CASE k # h
    BY <1>4, <2>1 DEF Endgame, OwedInv, Closing, Closed, EndgameReady
  <2>2. CASE k = h
    BY <1>2, <1>4, <2>2 DEF Endgame, Closing, Closed
  <2> QED BY <2>1, <2>2
<1>11. IterInv'
  BY <1>2, <1>4 DEF TypeOK, Endgame, IterInv
<1> QED BY <1>5, <1>6, <1>7, <1>8, <1>9, <1>10, <1>11

\* The invariant is about the variables of vars alone.
LEMMA FinishedStep ==
  ASSUME IInv, UNCHANGED vars
  PROVE  IInv'
<1> USE DEF IInv, vars, block, queues, control
<1>1. TypeOK' /\ LifeInv' /\ ReqsInv' /\ OwedInv' /\ IterInv'
  BY DEF TypeOK, LifeInv, ReqsInv, OwedInv, IterInv, Closing, Closed, EndgameReady,
         InCallback
<1>2. EndgameInv' /\ ActiveCountExact'
  BY EndgameKept, CountStays DEF HoldsLoop
<1> QED BY <1>1, <1>2

-----------------------------------------------------------------------------
\* Before anything is allocated the invariant holds.
LEMMA InitInv == Init => IInv
<1> SUFFICES ASSUME Init PROVE IInv
  OBVIOUS
<1> USE DEF Init
<1>1. TypeOK
  <2>1. phase \in Phase /\ mode \in Mode
    BY DEF Phase, Mode
  <2>6. activeHandles \in Int
    OBVIOUS
  <2>8. stop \in BOOLEAN
    BY Zenon
  <2>7. visit \in SUBSET Handles /\ frame \in Handles \union {NoHandle}
    OBVIOUS
  <2>4. flags \in [Handles -> SUBSET Flag]
    OBVIOUS
  <2>5. endgame \in Seq(Handles)
    OBVIOUS
  <2>2. /\ wrapper \in [Handles -> {"unborn", "alive", "destroyed"}]
        /\ mem \in [Handles -> {"unborn", "live", "freed"}]
        /\ data \in [Handles -> BOOLEAN] /\ onclose \in [Handles -> BOOLEAN]
    OBVIOUS
  <2>3. /\ reqs \in [Handles -> Nat] /\ activecnt \in [Handles -> Nat]
        /\ os \in [Handles -> Nat] /\ port \in [Handles -> Nat]
        /\ pending \in [Handles -> Nat] /\ batch \in [Handles -> Nat]
    OBVIOUS
  <2> QED BY <2>1, <2>2, <2>3, <2>4, <2>5, <2>6, <2>7, <2>8 DEF TypeOK
<1>2. LifeInv /\ OwedInv /\ IterInv
  BY DEF LifeInv, OwedInv, IterInv, Closing, Closed
<1>3. EndgameInv
  BY DEF EndgameInv
<1>4. ReqsInv
  BY HandlesAssumption DEF ReqsInv, InCallback
<1>5. ActiveCountExact
  <2>1. {h \in Handles : HoldsLoop(h)} = {}
    BY DEF HoldsLoop
  <2> QED BY <2>1, FS_EmptySet DEF ActiveCountExact
<1> QED BY <1>1, <1>2, <1>3, <1>4, <1>5 DEF IInv

\* Every step of the program, the kernel and the loop preserves the invariant.
LEMMA StepInv == IInv /\ [Next]_vars => IInv'
<1> SUFFICES ASSUME IInv, [Next]_vars PROVE IInv'
  OBVIOUS
<1>1. CASE \E h \in Handles : UserNext(h)
  BY <1>1, CreateStep, OnCloseStep, CloseStep, DestroyStep, RerefStep, IdleStartStep,
     IdleStopStep, RequestStep, SendStep DEF UserNext
<1>2. CASE \E h \in Handles : Complete(h)
  BY <1>2, CompleteStep
<1>3. CASE LoopNext \/ Enter \/ RunInVain \/ StopLoop
  BY <1>3, BeginStep, TcpReqBeginStep, TcpReqEndStep, AsyncWakeupStep, ControlStep,
     PollStep, EndgameStep DEF LoopNext
<1>4. CASE Finished \/ UNCHANGED vars
  BY <1>4, FinishedStep DEF Finished
<1> QED BY <1>1, <1>2, <1>3, <1>4 DEF Next

\* The inductive invariant holds in every behaviour.
THEOREM Invariant == Spec => []IInv
BY InitInv, StepInv, PTL DEF Spec

\* Type correctness: no counter of a handle goes below zero.
THEOREM TypeCorrect == Spec => []TypeOK
<1>1. IInv => TypeOK
  BY DEF IInv
<1> QED BY <1>1, Invariant, PTL

\* No wrapper, endgame list, request or iteration points at a deleted block,
\* and no data pointer at a deleted wrapper.
THEOREM NoDangling == Spec => []NoDanglingPointer
<1>1. ASSUME IInv PROVE NoDanglingPointer
  <2> SUFFICES ASSUME NEW h \in Handles PROVE NoDanglingPointer!(h)
    BY DEF NoDanglingPointer
  <2> USE <1>1 DEF IInv
  <2>1. ASSUME NEW i \in DOMAIN endgame, endgame[i] = h PROVE mem[h] = "live"
    BY <2>1 DEF EndgameInv, LifeInv
  <2>2. ASSUME Underway(h) > 0 \/ InCallback(h) PROVE mem[h] = "live"
    <3>1. Kind[h] # "idle" /\ reqs[h] # 0
      <4>1. CASE Kind[h] = "tcp"
        BY <2>2, <4>1 DEF TypeOK, ReqsInv, Underway
      <4>2. CASE Kind[h] # "tcp"
        <5>1. os[h] + port[h] + pending[h] + batch[h] > 0
          BY <2>2, <4>2 DEF InCallback, Underway
        <5> QED BY <4>2, <5>1, KindAssumption DEF TypeOK, ReqsInv
      <4> QED BY <4>1, <4>2
    <3> QED BY <3>1 DEF OwedInv
  <2>3. ASSUME h \in visit PROVE mem[h] = "live"
    BY <2>3 DEF IterInv, LifeInv
  <2> QED BY <2>1, <2>2, <2>3 DEF LifeInv
<1> QED BY <1>1, Invariant, PTL

\* A block without wrapper is on its way to being deleted.
THEOREM NothingLeaks == Spec => []NoLeak
<1>1. IInv => NoLeak
  BY DEF IInv, LifeInv, NoLeak
<1> QED BY <1>1, Invariant, PTL

\* A close in progress is queued for its endgame or awaits a request.
THEOREM CloseOwed == Spec => []CloseIsOwed
<1>1. ASSUME IInv PROVE CloseIsOwed
  <2> USE <1>1 DEF IInv
  <2> SUFFICES ASSUME NEW h \in Handles, Closing(h), ~ Closed(h)
               PROVE  CloseIsOwed!(h)!2
    BY DEF CloseIsOwed
  <2>1. CASE EndgameReady(h)
    BY <2>1 DEF OwedInv, EndgameInv
  <2>2. CASE ~ EndgameReady(h)
    <3>1. Kind[h] \in {"tcp", "async"} /\ reqs[h] \in Nat \ {0}
      BY <2>2, KindAssumption DEF EndgameReady, TypeOK
    <3>2. CASE Kind[h] = "tcp"
      BY <3>1, <3>2 DEF ReqsInv, TypeOK, Underway
    <3>3. CASE Kind[h] = "async"
      BY <3>1, <3>3 DEF ReqsInv, TypeOK, Underway
    <3> QED BY <3>1, <3>2, <3>3
  <2> QED BY <2>1, <2>2
<1> QED BY <1>1, Invariant, PTL

\* loop->active_handles is the number of handles that hold the loop.
THEOREM ActiveCount == Spec => []ActiveCountExact
<1>1. IInv => ActiveCountExact
  BY DEF IInv
<1> QED BY <1>1, Invariant, PTL

-----------------------------------------------------------------------------
(* Action properties. *)

\* Loop::run returns only when every close it has accepted is over, but for
\* stop(); and where a close is left, the loop is alive.
THEOREM RunFinishes == Spec => RunFinishesCloses
<1>1. ASSUME IInv, [Next]_vars, phase = "endgame", phase' = "outside"
      PROVE  \/ \A h \in Handles : Closing(h) => Closed(h)
             \/ LoopAlive /\ (stop \/ mode # "default")
  <2>1. EndgamesDone
    BY <1>1 DEF Next, UserNext, LoopNext, Create, OnClose, Close, Destroy, Reref, IdleStart,
       IdleStop, Request, Send, Complete, Enter, Run, RunInVain, StopLoop, BeginIteration,
       TcpReqBegin, TcpReqEnd, AsyncWakeup, ReqsDone, IdleCall, IdleDone, Poll, Endgame,
       Return, Finished, vars, control
  <2>2. CASE LoopAlive
    BY <1>1, <2>1, <2>2 DEF EndgamesDone, BeginIteration
  <2>3. CASE ~ LoopAlive
    <3>1. ~ (activeHandles > 0)
      BY <2>3 DEF LoopAlive
    <3>2. Cardinality(Holders) = 0
      BY <1>1, <3>1, HoldersFinite DEF IInv, ActiveCountExact, Holders
    <3>3. Holders = {}
      BY <3>2, HoldersFinite, FS_EmptySet
    <3> QED BY <3>3 DEF Holders, HoldsLoop, Closing, Closed
  <2> QED BY <2>2, <2>3
<1>2. IInv /\ [Next]_vars => [NoCloseLeft]_vars
  BY <1>1 DEF NoCloseLeft
<1> QED BY <1>2, Invariant, PTL DEF Spec, RunFinishesCloses

\* The step that starts a callback is the loop's, and says for whom.
LEMMA FrameMoves ==
  ASSUME [Next]_vars, NEW h \in Handles, frame # h, frame' = h
  PROVE  \/ TcpReqBegin(h) \/ IdleCall(h)
         \/ AsyncWakeup(h) /\ ~ Closing(h)
         \/ Endgame /\ h = Head(endgame) /\ Closing(h) /\ EndgameReady(h) /\ data[h]
<1>1. frame' # frame /\ frame' # NoHandle
  BY HandlesAssumption
<1>2. ~ \E k \in Handles : UserNext(k) \/ Complete(k)
  BY <1>1 DEF UserNext, Create, OnClose, Close, Destroy, Reref, IdleStart, IdleStop,
     Request, Send, Complete, control
<1>3. ~ (Finished \/ UNCHANGED vars \/ Enter \/ RunInVain \/ StopLoop \/ ReqsDone
         \/ IdleDone \/ Poll \/ EndgamesDone \/ Return)
  BY <1>1 DEF Finished, vars, control, Enter, Run, RunInVain, StopLoop, ReqsDone, IdleDone,
     Poll, EndgamesDone, Return
<1>4. CASE Endgame
  BY <1>1, <1>4 DEF Endgame
<1>5. CASE \E k \in Handles : TcpReqBegin(k) \/ TcpReqEnd(k) \/ AsyncWakeup(k) \/ IdleCall(k)
  <2>1. PICK k \in Handles : TcpReqBegin(k) \/ TcpReqEnd(k) \/ AsyncWakeup(k) \/ IdleCall(k)
    BY <1>5
  <2>2. ~ TcpReqEnd(k)
    BY <1>1 DEF TcpReqEnd
  <2>3. CASE TcpReqBegin(k) \/ IdleCall(k)
    BY <2>3 DEF TcpReqBegin, IdleCall
  <2>4. CASE AsyncWakeup(k)
    BY <1>1, <2>4 DEF AsyncWakeup
  <2> QED BY <2>1, <2>2, <2>3, <2>4
<1> QED BY <1>2, <1>3, <1>4, <1>5 DEF Next, LoopNext

\* async_cb and idle_cb never follow a null or stale data pointer.
THEOREM CallbackFinds == Spec => CallbackFindsWrapper
<1>1. ASSUME IInv, [Next]_vars, NEW h \in Handles, EntersCallback(h), Kind[h] # "tcp"
      PROVE  data[h] /\ wrapper[h] = "alive" /\ ~ Closing(h)
  <2> USE <1>1 DEF IInv
  <2>1. (AsyncWakeup(h) /\ ~ Closing(h)) \/ IdleCall(h)
    BY FrameMoves DEF EntersCallback, TcpReqBegin, Endgame
  <2>2. mem[h] = "live" /\ ~ Closing(h)
    <3>1. CASE AsyncWakeup(h) /\ ~ Closing(h)
      <4>1. Kind[h] = "async" /\ reqs[h] # 0
        BY <3>1 DEF AsyncWakeup, ReqsInv, TypeOK
      <4> QED BY <3>1, <4>1 DEF OwedInv
    <3>2. CASE IdleCall(h)
      BY <3>2 DEF IdleCall, IterInv, LifeInv
    <3> QED BY <2>1, <3>1, <3>2
  <2> QED BY <2>2 DEF LifeInv, TypeOK, Closing, Closed
<1>2. IInv /\ [Next]_vars => [CallbackTarget]_vars
  BY <1>1 DEF CallbackTarget
<1> QED BY <1>2, Invariant, PTL DEF Spec, CallbackFindsWrapper

\* The close callback is the last the program hears of a handle.
THEOREM CloseLast == Spec => CloseCallbackIsLast
<1>1. ASSUME IInv, [Next]_vars, NEW h \in Handles,
             phase = "endgame", frame # h, frame' = h
      PROVE  /\ data[h] /\ ~ data'[h] /\ wrapper[h] = "alive"
             /\ os[h] + port[h] + pending[h] + batch[h] = 0
             /\ Closing(h) /\ ~ Closed(h)
  <2> USE <1>1 DEF IInv
  <2>1. Endgame /\ h = Head(endgame) /\ Closing(h) /\ EndgameReady(h) /\ data[h]
    BY FrameMoves DEF TcpReqBegin, IdleCall, AsyncWakeup
  <2>2. ~ data'[h] /\ wrapper[h] = "alive" /\ ~ Closed(h)
    BY <2>1 DEF Endgame, LifeInv, TypeOK
  <2>3. os[h] + port[h] + pending[h] + batch[h] = 0
    <3>1. CASE Kind[h] = "idle"
      BY <3>1 DEF ReqsInv
    <3>2. CASE Kind[h] = "async"
      BY <2>1, <3>2 DEF ReqsInv, EndgameReady, TypeOK
    <3>3. CASE Kind[h] = "tcp"
      <4>1. activecnt[h] = os[h] + port[h] + pending[h] + batch[h] /\ activecnt[h] = 0
        BY <2>1, <3>3 DEF ReqsInv, EndgameReady, InCallback, TypeOK
      <4> QED BY <4>1
    <3> QED BY <3>1, <3>2, <3>3, KindAssumption
  <2> QED BY <2>1, <2>2, <2>3
<1>2. IInv /\ [Next]_vars => [LastCallback]_vars
  BY <1>1 DEF LastCallback, Underway
<1> QED BY <1>2, Invariant, PTL DEF Spec, CloseCallbackIsLast

-----------------------------------------------------------------------------
(* HandleLifecycle implements HandleContract. *)

View == [h \in Handles |-> ContractState(h)]

\* A step that changes the view of h alone is a move of h in the contract.
LEMMA ViewMoves ==
  ASSUME NEW h \in Handles, NEW from, ContractState(h) \in from, NEW to,
         ContractState(h)' = to,
         \A k \in Handles \ {h} : ContractState(k)' = ContractState(k)
  PROVE  Contract!Move(h, from, to)
BY DEF Contract!Move

\* A step that leaves wrapper, block and closing flags alone stutters.
LEMMA ViewStays ==
  ASSUME UNCHANGED <<wrapper, mem>>,
         \A k \in Handles : \A f \in {"CLOSING", "CLOSED"} : f \in flags'[k] <=> f \in flags[k]
  PROVE  View' = View
<1>1. \A k \in Handles : ContractState(k)' = ContractState(k)
  BY DEF ContractState, Closing, Closed
<1> QED BY <1>1 DEF View

\* Initially every handle is absent.
LEMMA ContractInit == Init => Contract!Init
BY DEF Init, Contract!Init, ContractState

\* Each step is a move of one handle in the contract, or a stutter.
LEMMA ContractStep == IInv /\ [Next]_vars => [Contract!Next]_View
<1> SUFFICES ASSUME IInv, [Next]_vars PROVE [Contract!Next]_View
  OBVIOUS
<1> USE DEF IInv
<1>1. ASSUME NEW h \in Handles, Create(h) PROVE Contract!Create(h)
  <2>1. ContractState(h) = "absent" /\ ContractState(h)' = "open"
    BY <1>1 DEF Create, SetFlags, TypeOK, ContractState, Closing, Closed
  <2>2. \A k \in Handles \ {h} : ContractState(k)' = ContractState(k)
    BY <1>1 DEF Create, SetFlags, TypeOK, ContractState, Closing, Closed
  <2> QED BY <2>1, <2>2, ViewMoves DEF Contract!Create
<1>2. ASSUME NEW h \in Handles, Close(h) PROVE Contract!Close(h)
  <2>1. wrapper[h] = "alive" /\ mem[h] = "live" /\ ~ Closing(h) /\ ~ Closed(h)
        /\ UvClose(h) /\ UNCHANGED <<wrapper, mem>>
    BY <1>2 DEF Close, LifeInv
  <2>2. ContractState(h) = "open" /\ ContractState(h)' = "closing"
    BY <2>1, UvCloseFacts DEF ContractState, Closing, Closed
  <2>3. \A k \in Handles \ {h} : ContractState(k)' = ContractState(k)
    BY <2>1, UvCloseFacts DEF ContractState, Closing, Closed
  <2> QED BY <2>2, <2>3, ViewMoves DEF Contract!Close
<1>3. ASSUME NEW h \in Handles, Destroy(h) PROVE Contract!Destroy(h)
  <2>1. wrapper[h] = "alive" /\ mem[h] = "live"
        /\ wrapper' = [wrapper EXCEPT ![h] = "destroyed"]
    BY <1>3 DEF Destroy, LifeInv
  <2>2. CASE IsClosed(h) /\ Free(h)
    <3>1. ContractState(h) = "closed"
      BY <2>1, <2>2 DEF IsClosed, LifeInv, ContractState
    <3>2. ContractState(h)' = "gone"
      BY <2>2 DEF Free, TypeOK, ContractState
    <3>3. \A k \in Handles \ {h} : ContractState(k)' = ContractState(k)
      BY <2>1, <2>2 DEF Free, TypeOK, ContractState, Closing, Closed
    <3> QED BY <3>1, <3>2, <3>3, ViewMoves DEF Contract!Destroy
  <2>3. CASE ~ IsClosed(h) /\ ~ Closing(h) /\ UvClose(h) /\ UNCHANGED mem
    <3>1. ContractState(h) = "open"
      BY <2>1, <2>3 DEF LifeInv, ContractState
    <3>2. ContractState(h)' = "orphan"
      BY <2>1, <2>3 DEF TypeOK, ContractState
    <3>3. \A k \in Handles \ {h} : ContractState(k)' = ContractState(k)
      BY <2>1, <2>3, UvCloseFacts DEF TypeOK, ContractState, Closing, Closed
    <3> QED BY <3>1, <3>2, <3>3, ViewMoves DEF Contract!Destroy
  <2>4. CASE ~ IsClosed(h) /\ Closing(h) /\ UNCHANGED <<mem, flags>>
    <3>1. ContractState(h) = "closing"
      BY <2>1, <2>4 DEF IsClosed, LifeInv, ContractState
    <3>2. ContractState(h)' = "orphan"
      BY <2>1, <2>4 DEF TypeOK, ContractState
    <3>3. \A k \in Handles \ {h} : ContractState(k)' = ContractState(k)
      BY <2>1, <2>4 DEF TypeOK, ContractState, Closing, Closed
    <3> QED BY <3>1, <3>2, <3>3, ViewMoves DEF Contract!Destroy
  <2> QED BY <1>3, <2>2, <2>3, <2>4 DEF Destroy
<1>4. CASE Endgame
  <2>1. PICK h \in Handles : h = Head(endgame) /\ "ENDGAME_QUEUED" \in flags[h]
    <3>1. Head(endgame) = endgame[1] /\ 1 \in DOMAIN endgame
      BY <1>4 DEF Endgame, TypeOK
    <3> QED BY <3>1 DEF EndgameInv, TypeOK
  <2>2. Closing(h) /\ ~ Closed(h) /\ EndgameReady(h) /\ mem[h] = "live"
    BY <2>1 DEF OwedInv, LifeInv
  <2>3. CASE data[h]
    <3>1. flags' = [flags EXCEPT ![h] = (flags[h] \ {"ENDGAME_QUEUED"}) \union {"CLOSED"}]
          /\ UNCHANGED <<wrapper, mem>>
      BY <1>4, <2>1, <2>2, <2>3 DEF Endgame
    <3>2. ContractState(h) = "closing" /\ ContractState(h)' = "closed"
      BY <2>2, <2>3, <3>1 DEF LifeInv, TypeOK, ContractState, Closed
    <3>3. \A k \in Handles \ {h} : ContractState(k)' = ContractState(k)
      BY <3>1 DEF TypeOK, ContractState, Closing, Closed
    <3> QED BY <3>2, <3>3, ViewMoves DEF Contract!Finish, Contract!Next
  <2>4. CASE ~ data[h]
    <3>1. flags' = [flags EXCEPT ![h] = {}] /\ UNCHANGED wrapper
          /\ mem' = [mem EXCEPT ![h] = "freed"]
      BY <1>4, <2>1, <2>2, <2>4 DEF Endgame, Free
    <3>2. ContractState(h) = "orphan" /\ ContractState(h)' = "gone"
      BY <2>2, <2>4, <3>1 DEF LifeInv, TypeOK, ContractState
    <3>3. \A k \in Handles \ {h} : ContractState(k)' = ContractState(k)
      BY <3>1 DEF TypeOK, ContractState, Closing, Closed
    <3> QED BY <3>2, <3>3, ViewMoves DEF Contract!Finish, Contract!Next
  <2> QED BY <2>3, <2>4
<1>5. ASSUME NEW h \in Handles,
             \/ Reref(h) \/ IdleStart(h) \/ IdleStop(h) \/ Request(h)
             \/ TcpReqBegin(h) \/ TcpReqEnd(h) \/ AsyncWakeup(h)
      PROVE  View' = View
  <2>1. UNCHANGED <<wrapper, mem>>
    BY <1>5 DEF Reref, IdleStart, IdleStop, Request, TcpReqBegin, TcpReqEnd, AsyncWakeup
  <2>2. \A k \in Handles : \A f \in {"CLOSING", "CLOSED"} : f \in flags'[k] <=> f \in flags[k]
    <3>1. PICK new : /\ flags' = [flags EXCEPT ![h] = new]
                     /\ "CLOSING" \in new <=> "CLOSING" \in flags[h]
                     /\ "CLOSED" \in new <=> "CLOSED" \in flags[h]
      <4>1. flags = [flags EXCEPT ![h] = flags[h]]
        BY DEF TypeOK
      <4>2. CASE Reref(h)
        BY <4>2 DEF Reref, SetFlags
      <4>3. CASE IdleStart(h)
        <5>1. flags' = [flags EXCEPT ![h] = flags[h] \union {"ACTIVE"}]
          BY <4>3 DEF IdleStart, SetFlags
        <5> WITNESS flags[h] \union {"ACTIVE"}
        <5> QED BY <5>1
      <4>4. CASE IdleStop(h)
        <5>1. flags' = [flags EXCEPT ![h] = flags[h] \ {"ACTIVE"}]
          BY <4>4 DEF IdleStop, SetFlags
        <5> WITNESS flags[h] \ {"ACTIVE"}
        <5> QED BY <5>1
      <4>5. CASE Request(h)
        <5>1. IncreaseActive(h)
          BY <4>5 DEF Request
        <5> QED BY <5>1 DEF IncreaseActive, SetFlags
      <4>6. CASE TcpReqBegin(h)
        BY <4>1, <4>6 DEF TcpReqBegin, DecreaseActive, SetFlags
      <4>7. CASE TcpReqEnd(h)
        BY <4>1, <4>7 DEF TcpReqEnd, WantEndgame
      <4>8. CASE AsyncWakeup(h)
        BY <4>1, <4>8 DEF AsyncWakeup, WantEndgame
      <4> QED BY <1>5, <4>2, <4>3, <4>4, <4>5, <4>6, <4>7, <4>8
    <3> QED BY <3>1 DEF TypeOK
  <2> QED BY <2>1, <2>2, ViewStays
<1>6. CASE \/ Enter \/ RunInVain \/ StopLoop \/ ReqsDone \/ IdleDone \/ Poll \/ EndgamesDone \/ Return \/ Finished
           \/ UNCHANGED vars
           \/ \E h \in Handles : OnClose(h) \/ Send(h) \/ Complete(h) \/ IdleCall(h)
  <2>1. UNCHANGED <<wrapper, mem, flags>>
    BY <1>6 DEF Enter, Run, RunInVain, StopLoop, ReqsDone, IdleDone, Poll, EndgamesDone, Return, Finished, vars, OnClose,
       Send, Complete, IdleCall, block
  <2> QED BY <2>1, ViewStays
<1> QED BY <1>1, <1>2, <1>3, <1>4, <1>5, <1>6 DEF Next, UserNext, LoopNext, Contract!Next

\* Wrapper, block and flags always go through the life HandleContract states.
THEOREM Refinement == Spec => RefinesContract
<1>1. IInv /\ [Next]_vars => [Contract!Next]_[h \in Handles |-> ContractState(h)]
  BY ContractStep DEF View
<1> QED BY ContractInit, <1>1, Invariant, PTL DEF Spec, RefinesContract, Contract!Spec
=============================================================================
