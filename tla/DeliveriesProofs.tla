-------------------------- MODULE DeliveriesProofs --------------------------
(***************************************************************************)
(* Proofs about Deliveries, for any number of threads, callbacks and       *)
(* handlers and however deep they are inside one another.                  *)
(***************************************************************************)
EXTENDS Deliveries, SetLemmas, SequenceTheorems

CallType == [kind : {"intr", "cb"}, at : Nat, body : BOOLEAN, ran : Nat, entry : Nat,
             masked : BOOLEAN]

CbType == [used : BOOLEAN, uid : Nat, owner : Thread, known : BOOLEAN, count : 0..NotifyMax]

(* TypeOK, without the bounds that only finite models need. *)
Typed == /\ cpu \in Thread \cup {NoThread}
         /\ calls \in [Thread -> Seq(CallType)]
         /\ depth \in [Thread -> Nat]
         /\ cb \in [CbSlot -> CbType]
         /\ nextUid \in Nat
         /\ cbBusy \in BOOLEAN /\ intrBusy \in BOOLEAN

LEMMA Constants == /\ Boot \in Thread /\ NoThread \notin Thread
                   /\ NCbs \in Nat /\ NSubs \in Nat /\ NotifyMax \in Nat /\ DeliverMax \in Nat
BY DeliveriesAssumption

LEMMA NewCallTyped == ASSUME NEW kind \in {"intr", "cb"} PROVE NewCall(kind) \in CallType
BY DEF NewCall, CallType

(* The innermost delivery, and the ones around it. *)
LEMMA Innermost ==
    ASSUME NEW S, NEW s \in Seq(S), s # <<>>
    PROVE  /\ Len(s) \in Nat \ {0} /\ DOMAIN s = 1..Len(s)
           /\ Last(s) = s[Len(s)] /\ Last(s) \in S
           /\ Front(s) \in Seq(S) /\ Len(Front(s)) = Len(s) - 1
           /\ DOMAIN Front(s) = 1..Len(s) - 1
           /\ \A i \in 1..Len(s) - 1 : Front(s)[i] = s[i]
<1>1. Len(s) \in Nat \ {0} /\ DOMAIN s = 1..Len(s)
  OBVIOUS
<1>2. Last(s) = s[Len(s)] /\ Last(s) \in S
  BY <1>1 DEF Last
<1>3. Front(s) = SubSeq(s, 1, Len(s) - 1)
  BY DEF Front
<1>4. Front(s) \in Seq(S) /\ Len(Front(s)) = Len(s) - 1
  BY <1>1, <1>3
<1>5. \A i \in 1..Len(s) - 1 : Front(s)[i] = s[i]
  BY <1>1, <1>3
<1> QED
  BY <1>1, <1>2, <1>4, <1>5

LEMMA Pushed ==
    ASSUME NEW S, NEW s \in Seq(S), NEW c \in S
    PROVE  /\ Append(s, c) \in Seq(S) /\ Len(Append(s, c)) = Len(s) + 1
           /\ DOMAIN Append(s, c) = 1..Len(s) + 1 /\ DOMAIN s = 1..Len(s) /\ Len(s) \in Nat
           /\ Append(s, c)[Len(s) + 1] = c /\ Last(Append(s, c)) = c
           /\ \A i \in 1..Len(s) : Append(s, c)[i] = s[i]
BY DEF Last

-----------------------------------------------------------------------------
(* What a step may do to the deliveries that its thread is inside of. *)
Guarded == <<cbBusy, intrBusy>>

Quiet(t) == /\ calls' = calls /\ UNCHANGED Guarded
            /\ \/ UNCHANGED depth
               \/ /\ InGuest(t)
                  /\ \E n \in Nat : depth' = [depth EXCEPT ![t] = n]

Begins(t, kind) == /\ depth[t] = 0 /\ UNCHANGED depth
                   /\ \/ InGuest(t) /\ calls' = [calls EXCEPT ![t] = Append(@, NewCall(kind))]
                      \/ /\ InLoop(t, "intr") /\ kind = "cb" /\ intrBusy' = FALSE
                         /\ calls' = [calls EXCEPT ![t] = Append(Front(@), NewCall(kind))]
                   /\ kind = "cb" => cbBusy' = TRUE /\ intrBusy' \in {intrBusy, FALSE}
                   /\ kind = "intr" => intrBusy' = TRUE /\ UNCHANGED cbBusy

Enters(t, kind, c) == /\ InLoop(t, kind)
                      /\ c \in CallType /\ c.kind = kind /\ c.body /\ c.masked = (depth[t] > 0)
                      /\ calls' = SetTop(t, c)
                      /\ UNCHANGED <<depth, Guarded>>

Returns(t, c) == /\ InGuest(t) /\ calls[t] # <<>>
                 /\ depth[t] = 0 \/ "leaveMasked" \in Liberties
                 /\ c \in CallType /\ c.kind = Top(t).kind /\ c.masked = Top(t).masked /\ ~c.body
                 /\ calls' = SetTop(t, c)
                 /\ UNCHANGED <<depth, Guarded>>

Ends(t, kind) == /\ InLoop(t, kind)
                 /\ calls' = [calls EXCEPT ![t] = Front(@)]
                 /\ UNCHANGED depth
                 /\ kind = "intr" => intrBusy' = FALSE /\ UNCHANGED cbBusy
                 /\ kind = "cb" => cbBusy' = FALSE /\ UNCHANGED intrBusy

Unwinds(t) == /\ InGuest(t)
              /\ calls[t] = <<>> \/ "exitInHandler" \in Liberties
              /\ calls' = [calls EXCEPT ![t] = <<>>]
              /\ depth' = [depth EXCEPT ![t] = 0]
              /\ UNCHANGED Guarded

Shape(t) == \/ Quiet(t)
            \/ \E kind \in {"intr", "cb"} : Begins(t, kind)
            \/ \E kind \in {"intr", "cb"}, c \in CallType : Enters(t, kind, c)
            \/ \E c \in CallType : Returns(t, c)
            \/ \E kind \in {"intr", "cb"} : Ends(t, kind)
            \/ Unwinds(t)

(* Each action of the model has one of these shapes. *)
LEMMA BeginCallbacksShape ==
    ASSUME Typed, NEW t \in Thread, InGuest(t), BeginCallbacks(t, calls[t]),
           UNCHANGED <<depth, intrBusy>>
    PROVE  Shape(t)
<1>1. CASE MayDeliver(t, cbBusy)
  <2>1. Begins(t, "cb")
    BY <1>1 DEF BeginCallbacks, Begins, MayDeliver
  <2> QED
    BY <2>1 DEF Shape
<1>2. CASE ~MayDeliver(t, cbBusy)
  <2>1. calls' = calls
    BY <1>2 DEF BeginCallbacks, Typed
  <2>2. Quiet(t)
    BY <1>2, <2>1 DEF BeginCallbacks, Quiet, Guarded
  <2> QED
    BY <2>2 DEF Shape
<1> QED
  BY <1>1, <1>2

LEMMA TopTyped == ASSUME Typed, NEW t \in Thread, calls[t] # <<>> PROVE Top(t) \in CallType
<1>1. calls[t] \in Seq(CallType)
  BY DEF Typed
<1> QED
  BY <1>1, Innermost DEF Top

LEMMA EnterHandlerShape == ASSUME Typed, NEW t \in Thread, EnterHandler(t) PROVE Shape(t)
<1> DEFINE due == {i \in Armed(t) : sub[i].known}
           n == Min(due) + 1
           m == depth[t] > 0
           c == [Top(t) EXCEPT !.at = n, !.body = TRUE, !.masked = m]
<1>0. due \in SUBSET Nat
  BY Constants DEF Armed, SubSlot
<1>1. due # {}
  BY DEF EnterHandler
<1>2. n \in Nat /\ m \in BOOLEAN
  BY <1>0, <1>1, MinIsLeast
<1>3. InLoop(t, "intr") /\ calls' = SetTop(t, c) /\ UNCHANGED <<depth, Guarded>>
  BY DEF EnterHandler, Guarded, cbVars, intrVars
<1>4. Top(t) \in CallType /\ Top(t).kind = "intr"
  BY <1>3, TopTyped DEF InLoop
<1> HIDE DEF due, n, m
<1>5. c \in CallType /\ c.kind = "intr" /\ c.body /\ c.masked = m
  BY <1>2, <1>4 DEF CallType
<1> HIDE DEF c
<1>6. Enters(t, "intr", c)
  BY <1>3, <1>5 DEF Enters, m
<1> QED
  BY <1>5, <1>6 DEF Shape

LEMMA EnterCallbackShape ==
    ASSUME Typed, NEW t \in Thread, EnterCallback(t)
    PROVE  /\ Shape(t)
           /\ \E i \in CbSlot :
                 /\ cb[i].owner = t /\ i \in Notified(t) /\ cb[i].known
                 /\ \A j \in Notified(t) : cb[j].known => i <= j
                 /\ cb' = [Dropped({j \in Notified(t) : j < i}) EXCEPT ![i].count = @ - 1]
                 /\ Last(calls'[t]).body /\ Last(calls'[t]).entry = cb[i].uid
<1> DEFINE due == {i \in Notified(t) : cb[i].known}
           i == Min(due)
           n == i + 1
           e == cb[i].uid
           m == depth[t] > 0
           c == [Top(t) EXCEPT !.at = n, !.body = TRUE, !.entry = e, !.masked = m]
<1>0. due \in SUBSET Nat
  BY Constants DEF Notified, CbSlot
<1>1. due # {}
  BY DEF EnterCallback
<1>2. i \in due /\ \A j \in due : i <= j
  BY <1>0, <1>1, MinIsLeast
<1>3. /\ InLoop(t, "cb") /\ calls' = SetTop(t, c) /\ UNCHANGED <<depth, Guarded>>
      /\ cb' = [Dropped({j \in Notified(t) : j < i}) EXCEPT ![i].count = @ - 1]
  BY DEF EnterCallback, Guarded, intrVars
<1>4. Top(t) \in CallType /\ Top(t).kind = "cb" /\ calls[t] # <<>>
  BY <1>3, TopTyped DEF InLoop
<1>5. i \in CbSlot /\ i \in Nat /\ cb[i].owner = t /\ i \in Notified(t) /\ cb[i].known
  BY <1>0, <1>2 DEF Notified
<1> HIDE DEF i, due
<1>6. n \in Nat /\ e \in Nat /\ m \in BOOLEAN
  BY <1>5 DEF Typed, CbType
<1> HIDE DEF n, e, m
<1>7. c \in CallType /\ c.kind = "cb" /\ c.body /\ c.entry = e /\ c.masked = m
  BY <1>4, <1>6 DEF CallType
<1> HIDE DEF c
<1>8. Enters(t, "cb", c)
  BY <1>3, <1>7 DEF Enters, m
<1>9. Shape(t)
  BY <1>7, <1>8 DEF Shape
<1>10. Last(calls'[t]) = c
  <2>1. calls[t] \in Seq(CallType)
    BY DEF Typed
  <2>2. Front(calls[t]) \in Seq(CallType)
    BY <1>4, <2>1, Innermost
  <2>3. calls'[t] = Append(Front(calls[t]), c)
    BY <1>3 DEF SetTop, Typed
  <2> QED
    BY <1>7, <2>2, <2>3, Pushed
<1>11. \A j \in Notified(t) : cb[j].known => i <= j
  BY <1>2 DEF due
<1> QED
  BY <1>3, <1>5, <1>7, <1>9, <1>10, <1>11 DEF e

LEMMA ReturnShape == ASSUME Typed, NEW t \in Thread, Return(t) PROVE Shape(t)
<1> DEFINE n == IF Top(t).kind = "cb" THEN Top(t).ran + 1 ELSE 0
           c == [Top(t) EXCEPT !.body = FALSE, !.ran = n]
<1>1. /\ InGuest(t) /\ calls[t] # <<>> /\ (depth[t] = 0 \/ "leaveMasked" \in Liberties)
      /\ calls' = SetTop(t, c) /\ UNCHANGED <<depth, Guarded>>
  BY DEF Return, Guarded, cbVars, intrVars
<1>2. Top(t) \in CallType
  BY <1>1, TopTyped
<1>3. n \in Nat
  BY <1>2 DEF CallType
<1> HIDE DEF n
<1>4. c \in CallType /\ c.kind = Top(t).kind /\ c.masked = Top(t).masked /\ ~c.body
  BY <1>2, <1>3 DEF CallType
<1> HIDE DEF c
<1>5. Returns(t, c)
  BY <1>1, <1>4 DEF Returns
<1> QED
  BY <1>4, <1>5 DEF Shape

LEMMA EveryShape ==
    ASSUME Typed, Next
    PROVE  \E t \in Thread : Shape(t)
<1>1. PICK t \in Thread : \/ CallbackCalls(t) \/ InterruptCalls(t) \/ Delivery(t)
                          \/ Park(t) \/ Unpark(t) \/ Leave(t)
  BY DEF Next
<1>2. CASE CallbackCalls(t)
  <2>1. ASSUME CheckCallback(t) PROVE Shape(t)
    BY <2>1, BeginCallbacksShape DEF CheckCallback, intrVars
  <2>2. ASSUME \/ \E known \in BOOLEAN : CreateCallback(t, known)
               \/ \E i \in CbSlot : DeleteCallback(t, i)
               \/ \E i \in CbSlot : NotifyCallback(t, i)
        PROVE  Quiet(t)
    BY <2>2 DEF CreateCallback, DeleteCallback, NotifyCallback, Quiet, Guarded, threadVars, intrVars
  <2> QED
    BY <1>2, <2>1, <2>2 DEF CallbackCalls, Shape
<1>3. CASE InterruptCalls(t)
  <2>1. ASSUME SuspendIntr(t) PROVE Quiet(t)
    <3>1. depth[t] + 1 \in Nat
      BY DEF Typed
    <3> QED
      BY <2>1, <3>1 DEF SuspendIntr, Quiet, Guarded, cbVars, intrVars
  <2>2. ASSUME NEW cookie \in BOOLEAN, ResumeIntr(t, cookie) PROVE Quiet(t)
    <3> DEFINE n == IF cookie \/ depth[t] = 0 THEN 0 ELSE depth[t] - 1
    <3>1. n \in Nat
      BY DEF Typed
    <3>2. depth' = [depth EXCEPT ![t] = n]
      BY <2>2 DEF ResumeIntr
    <3> HIDE DEF n
    <3> QED
      BY <2>2, <3>1, <3>2 DEF ResumeIntr, Quiet, Guarded, cbVars, intrVars
  <2>3. ASSUME \/ \E k \in Key, known \in BOOLEAN : RegisterSubIntrHandler(t, k, known)
               \/ \E i \in SubSlot : EnableSubIntr(t, i)
               \/ \E i \in SubSlot : ReleaseSubIntrHandler(t, i)
        PROVE  Quiet(t)
    BY <2>3 DEF RegisterSubIntrHandler, EnableSubIntr, ReleaseSubIntrHandler, Quiet, Guarded,
                threadVars, cbVars
  <2> QED
    BY <1>3, <2>1, <2>2, <2>3 DEF InterruptCalls, Shape
<1>4. CASE Delivery(t)
  <2>1. ASSUME DeliverTick(t) PROVE Shape(t)
    <3>1. CASE MayDeliver(t, intrBusy)
      <4>1. Begins(t, "intr")
        BY <2>1, <3>1 DEF DeliverTick, Begins, MayDeliver
      <4> QED
        BY <4>1 DEF Shape
    <3>2. CASE ~MayDeliver(t, intrBusy)
      BY <2>1, <3>2, BeginCallbacksShape DEF DeliverTick
    <3> QED
      BY <3>1, <3>2
  <2>2. ASSUME EndHandlers(t) PROVE Shape(t)
    <3>1. CASE MayDeliver(t, cbBusy)
      <4>1. Begins(t, "cb")
        BY <2>2, <3>1 DEF EndHandlers, BeginCallbacks, Begins, MayDeliver
      <4> QED
        BY <4>1 DEF Shape
    <3>2. CASE ~MayDeliver(t, cbBusy)
      <4>1. Ends(t, "intr")
        BY <2>2, <3>2 DEF EndHandlers, BeginCallbacks, Ends
      <4> QED
        BY <4>1 DEF Shape
    <3> QED
      BY <3>1, <3>2
  <2>3. ASSUME EndCallbacks(t) PROVE Shape(t)
    <3>1. Ends(t, "cb")
      BY <2>3 DEF EndCallbacks, Ends, intrVars
    <3> QED
      BY <3>1 DEF Shape
  <2> QED
    BY <1>4, <2>1, <2>2, <2>3, EnterHandlerShape, EnterCallbackShape, ReturnShape DEF Delivery
<1>5. CASE Park(t) \/ Unpark(t)
  <2>1. Quiet(t)
    BY <1>5 DEF Park, Unpark, Quiet, Guarded, cbVars, intrVars
  <2> QED
    BY <2>1 DEF Shape
<1>6. CASE Leave(t)
  <2>1. Unwinds(t)
    BY <1>6 DEF Leave, Unwinds, Guarded, cbVars, intrVars
  <2> QED
    BY <2>1 DEF Shape
<1> QED
  BY <1>1, <1>2, <1>3, <1>4, <1>5, <1>6

-----------------------------------------------------------------------------
(* What the shapes have in common: they are about one thread. *)
LEMMA ShapeTyped ==
    ASSUME Typed, NEW t \in Thread, Shape(t)
    PROVE  /\ calls' \in [Thread -> Seq(CallType)] /\ depth' \in [Thread -> Nat]
           /\ cbBusy' \in BOOLEAN /\ intrBusy' \in BOOLEAN
           /\ \A u \in Thread \ {t} : calls'[u] = calls[u] /\ depth'[u] = depth[u]
<1>1. calls[t] \in Seq(CallType) /\ calls \in [Thread -> Seq(CallType)]
      /\ depth \in [Thread -> Nat] /\ cbBusy \in BOOLEAN /\ intrBusy \in BOOLEAN
  BY DEF Typed
<1>2. CASE Quiet(t)
  BY <1>1, <1>2 DEF Quiet, Guarded
<1>3. ASSUME NEW s \in Seq(CallType), calls' = [calls EXCEPT ![t] = s]
      PROVE  /\ calls' \in [Thread -> Seq(CallType)]
             /\ \A u \in Thread \ {t} : calls'[u] = calls[u]
  BY <1>1, <1>3
<1>4. ASSUME NEW kind \in {"intr", "cb"}, Begins(t, kind)
      PROVE  \E s \in Seq(CallType) : calls' = [calls EXCEPT ![t] = s]
  <2>1. NewCall(kind) \in CallType
    BY NewCallTyped
  <2>2. CASE calls' = [calls EXCEPT ![t] = Append(@, NewCall(kind))]
    BY <1>1, <2>1, <2>2, Pushed
  <2>3. CASE InLoop(t, "intr") /\ calls' = [calls EXCEPT ![t] = Append(Front(@), NewCall(kind))]
    <3>1. Front(calls[t]) \in Seq(CallType)
      BY <1>1, <2>3, Innermost DEF InLoop
    <3> QED
      BY <1>1, <2>1, <2>3, <3>1, Pushed
  <2> QED
    BY <1>4, <2>2, <2>3 DEF Begins
<1>5. ASSUME NEW c \in CallType, calls[t] # <<>>, calls' = SetTop(t, c)
      PROVE  \E s \in Seq(CallType) : calls' = [calls EXCEPT ![t] = s]
  <2>1. Front(calls[t]) \in Seq(CallType)
    BY <1>1, <1>5, Innermost
  <2> QED
    BY <1>1, <1>5, <2>1, Pushed DEF SetTop
<1>6. ASSUME NEW kind \in {"intr", "cb"}, Ends(t, kind)
      PROVE  \E s \in Seq(CallType) : calls' = [calls EXCEPT ![t] = s]
  BY <1>1, <1>6, Innermost DEF Ends, InLoop
<1>7. CASE \E kind \in {"intr", "cb"} : Begins(t, kind)
  <2>1. PICK kind \in {"intr", "cb"} : Begins(t, kind)
    BY <1>7
  <2>2. \E s \in Seq(CallType) : calls' = [calls EXCEPT ![t] = s]
    BY <1>4, <2>1
  <2>3. depth' = depth /\ cbBusy' \in BOOLEAN /\ intrBusy' \in BOOLEAN
    BY <1>1, <2>1 DEF Begins
  <2> QED
    BY <1>1, <1>3, <2>2, <2>3
<1>8. CASE \E kind \in {"intr", "cb"}, c \in CallType : Enters(t, kind, c)
  <2>1. PICK kind \in {"intr", "cb"}, c \in CallType : Enters(t, kind, c)
    BY <1>8
  <2>2. \E s \in Seq(CallType) : calls' = [calls EXCEPT ![t] = s]
    BY <1>5, <2>1 DEF Enters, InLoop
  <2>3. depth' = depth /\ UNCHANGED Guarded
    BY <2>1 DEF Enters
  <2> QED
    BY <1>1, <1>3, <2>2, <2>3 DEF Guarded
<1>9. CASE \E c \in CallType : Returns(t, c)
  <2>1. PICK c \in CallType : Returns(t, c)
    BY <1>9
  <2>2. \E s \in Seq(CallType) : calls' = [calls EXCEPT ![t] = s]
    BY <1>5, <2>1 DEF Returns
  <2>3. depth' = depth /\ UNCHANGED Guarded
    BY <2>1 DEF Returns
  <2> QED
    BY <1>1, <1>3, <2>2, <2>3 DEF Guarded
<1>10. CASE \E kind \in {"intr", "cb"} : Ends(t, kind)
  <2>1. PICK kind \in {"intr", "cb"} : Ends(t, kind)
    BY <1>10
  <2>2. \E s \in Seq(CallType) : calls' = [calls EXCEPT ![t] = s]
    BY <1>6, <2>1
  <2>3. depth' = depth /\ cbBusy' \in BOOLEAN /\ intrBusy' \in BOOLEAN
    BY <1>1, <2>1 DEF Ends
  <2> QED
    BY <1>1, <1>3, <2>2, <2>3
<1>11. CASE Unwinds(t)
  <2>0. <<>> \in Seq(CallType)
    OBVIOUS
  <2>1. \E s \in Seq(CallType) : calls' = [calls EXCEPT ![t] = s]
    BY <1>11, <2>0 DEF Unwinds
  <2>2. /\ depth' \in [Thread -> Nat] /\ UNCHANGED Guarded
        /\ \A u \in Thread \ {t} : depth'[u] = depth[u]
    BY <1>1, <1>11 DEF Unwinds
  <2> QED
    BY <1>1, <1>3, <2>1, <2>2 DEF Guarded
<1> QED
  BY <1>2, <1>7, <1>8, <1>9, <1>10, <1>11 DEF Shape

LEMMA DroppedTyped ==
    ASSUME Typed, NEW D
    PROVE  Dropped(D) \in [CbSlot -> CbType]
<1>1. \A i \in CbSlot : [cb[i] EXCEPT !.count = 0] \in CbType
  <2>1. TAKE i \in CbSlot
  <2>2. cb[i] \in CbType /\ 0 \in 0..NotifyMax
    BY Constants DEF Typed
  <2> QED
    BY <2>2 DEF CbType
<1> QED
  BY <1>1 DEF Dropped, Typed

LEMMA NoCbTyped == NoCb \in CbType
BY Constants DEF NoCb, CbType

LEMMA CbTyped ==
    ASSUME Typed, Next
    PROVE  cb' \in [CbSlot -> CbType] /\ nextUid' \in Nat
<1>0. cb \in [CbSlot -> CbType] /\ nextUid \in Nat /\ NotifyMax \in Nat
  BY Constants DEF Typed
<1>1. ASSUME NEW i \in CbSlot, NEW c \in CbType, cb' = [cb EXCEPT ![i] = c]
      PROVE  cb' \in [CbSlot -> CbType]
  BY <1>0, <1>1
<1>2. ASSUME NEW t \in Thread, NEW known \in BOOLEAN, CreateCallback(t, known)
      PROVE  cb' \in [CbSlot -> CbType] /\ nextUid' \in Nat
  <2> DEFINE free == {i \in CbSlot : ~cb[i].used}
             c == [NoCb EXCEPT !.used = TRUE, !.uid = nextUid, !.owner = t, !.known = known]
  <2>1. free \in SUBSET Nat
    BY Constants DEF CbSlot
  <2>2. free # {}
    BY <1>2 DEF CreateCallback
  <2>3. Min(free) \in CbSlot
    BY <2>1, <2>2, MinIsLeast
  <2>4. c \in CbType
    <3>1. NoCb \in CbType
      BY NoCbTyped
    <3> QED
      BY <1>0, <3>1 DEF CbType
  <2>5. cb' = [cb EXCEPT ![Min(free)] = c] /\ nextUid' = nextUid + 1
    BY <1>2 DEF CreateCallback
  <2> HIDE DEF free, c
  <2> QED
    BY <1>0, <1>1, <2>3, <2>4, <2>5
<1>3. ASSUME NEW t \in Thread, NEW i \in CbSlot, DeleteCallback(t, i)
      PROVE  cb' \in [CbSlot -> CbType] /\ nextUid' \in Nat
  <2>1. [cb[i] EXCEPT !.used = FALSE] \in CbType
    BY <1>0 DEF CbType
  <2>2. cb' = [cb EXCEPT ![i] = [cb[i] EXCEPT !.used = FALSE]] /\ nextUid' = nextUid
    BY <1>3 DEF DeleteCallback
  <2> QED
    BY <1>0, <1>1, <2>1, <2>2
<1>4. ASSUME NEW t \in Thread, NEW i \in CbSlot, NotifyCallback(t, i)
      PROVE  cb' \in [CbSlot -> CbType] /\ nextUid' \in Nat
  <2> DEFINE n == Min({cb[i].count + 1, NotifyMax})
  <2>1. n \in 0..NotifyMax
    <3>1. cb[i].count \in 0..NotifyMax
      BY <1>0 DEF CbType
    <3>2. {cb[i].count + 1, NotifyMax} \in SUBSET Nat
      BY <1>0, <3>1
    <3>3. n \in {cb[i].count + 1, NotifyMax} /\ n <= NotifyMax
      BY <3>2, MinIsLeast
    <3> QED
      BY <1>0, <3>1, <3>3
  <2>2. cb' = [cb EXCEPT ![i] = [cb[i] EXCEPT !.count = n]] /\ nextUid' = nextUid
    BY <1>4 DEF NotifyCallback
  <2> HIDE DEF n
  <2>3. [cb[i] EXCEPT !.count = n] \in CbType
    BY <1>0, <2>1 DEF CbType
  <2> QED
    BY <1>0, <1>1, <2>2, <2>3
<1>5. ASSUME NEW t \in Thread, EnterCallback(t)
      PROVE  cb' \in [CbSlot -> CbType] /\ nextUid' \in Nat
  <2>1. PICK i \in CbSlot :
           /\ i \in Notified(t)
           /\ cb' = [Dropped({j \in Notified(t) : j < i}) EXCEPT ![i].count = @ - 1]
    BY <1>5, EnterCallbackShape
  <2> DEFINE D == Dropped({j \in Notified(t) : j < i})
             n == cb[i].count - 1
  <2>2. D \in [CbSlot -> CbType]
    BY DroppedTyped
  <2>3. D[i] = cb[i]
    BY Constants DEF Dropped, CbSlot
  <2>4. n \in 0..NotifyMax
    BY <1>0, <2>1 DEF Notified, CbType
  <2>5. cb' = [D EXCEPT ![i].count = @ - 1]
    BY <2>1
  <2> HIDE DEF D
  <2>6. cb' = [D EXCEPT ![i] = [cb[i] EXCEPT !.count = n]]
    BY <2>2, <2>3, <2>5
  <2> HIDE DEF n
  <2>7. [cb[i] EXCEPT !.count = n] \in CbType
    BY <1>0, <2>4 DEF CbType
  <2>8. nextUid' = nextUid
    BY <1>5 DEF EnterCallback
  <2> QED
    BY <1>0, <2>2, <2>6, <2>7, <2>8
<1>6. ASSUME NEW t \in Thread, EndCallbacks(t)
      PROVE  cb' \in [CbSlot -> CbType] /\ nextUid' \in Nat
  BY <1>0, <1>6, DroppedTyped DEF EndCallbacks
<1>7. PICK t \in Thread : \/ CallbackCalls(t) \/ InterruptCalls(t) \/ Delivery(t)
                          \/ Park(t) \/ Unpark(t) \/ Leave(t)
  BY DEF Next
<1>8. CASE CallbackCalls(t)
  BY <1>0, <1>2, <1>3, <1>4, <1>8 DEF CallbackCalls, CheckCallback
<1>9. CASE InterruptCalls(t)
  BY <1>0, <1>9 DEF InterruptCalls, SuspendIntr, ResumeIntr, RegisterSubIntrHandler, EnableSubIntr,
                    ReleaseSubIntrHandler, cbVars
<1>10. CASE Delivery(t)
  BY <1>0, <1>5, <1>6, <1>10 DEF Delivery, DeliverTick, EnterHandler, EndHandlers, Return, cbVars
<1>11. CASE Park(t) \/ Unpark(t) \/ Leave(t)
  BY <1>0, <1>11 DEF Park, Unpark, Leave, cbVars
<1> QED
  BY <1>7, <1>8, <1>9, <1>10, <1>11

LEMMA InitTyped == Init => Typed
<1> SUFFICES ASSUME Init PROVE Typed
  OBVIOUS
<1>1. NoCb \in CbType
  BY NoCbTyped
<1>2. <<>> \in Seq(CallType)
  OBVIOUS
<1> QED
  BY <1>1, <1>2, Constants DEF Init, Typed

LEMMA NextTyped == Typed /\ [Next]_vars => Typed'
<1> SUFFICES ASSUME Typed, [Next]_vars PROVE Typed'
  OBVIOUS
<1>1. CASE Next
  <2>1. PICK t \in Thread : Shape(t)
    BY <1>1, EveryShape
  <2>2. cpu' \in Thread \cup {NoThread}
    BY <1>1 DEF Typed, Next, CallbackCalls, InterruptCalls, Delivery, CreateCallback,
       DeleteCallback, NotifyCallback, CheckCallback, SuspendIntr, ResumeIntr,
       RegisterSubIntrHandler, EnableSubIntr, ReleaseSubIntrHandler, DeliverTick, EnterHandler,
       EndHandlers, EnterCallback, EndCallbacks, Return, Park, Unpark, Leave, threadVars
  <2> QED
    BY <1>1, <2>1, <2>2, ShapeTyped, CbTyped DEF Typed
<1>2. CASE UNCHANGED vars
  BY <1>2 DEF vars, Typed
<1> QED
  BY <1>1, <1>2

-----------------------------------------------------------------------------
(* The guards: what sets one is inside the delivery that clears it, and leaves the
   delivery only there. *)
Has(s, kind) == \E n \in DOMAIN s : s[n].kind = kind

LEMMA HasMore ==
    ASSUME NEW s \in Seq(CallType), NEW c \in CallType, NEW kind, Has(s, kind) \/ c.kind = kind
    PROVE  Has(Append(s, c), kind)
BY Pushed DEF Has

LEMMA HasLess ==
    ASSUME NEW s \in Seq(CallType), s # <<>>, NEW kind, Has(s, kind), Last(s).kind # kind
    PROVE  Has(Front(s), kind)
<1>1. PICK n \in DOMAIN s : s[n].kind = kind
  BY DEF Has
<1>2. n \in 1..Len(s) - 1
  <2>1. n \in 1..Len(s) /\ Len(s) \in Nat
    OBVIOUS
  <2>2. n # Len(s)
    BY <1>1, Innermost
  <2> QED
    BY <2>1, <2>2
<1> QED
  BY <1>1, <1>2, Innermost DEF Has

LEMMA HasChanged ==
    ASSUME NEW s \in Seq(CallType), s # <<>>, NEW c \in CallType, c.kind = Last(s).kind,
           NEW kind, Has(s, kind)
    PROVE  Has(Append(Front(s), c), kind)
<1>1. Front(s) \in Seq(CallType)
  BY Innermost
<1>2. CASE Last(s).kind = kind
  BY <1>1, <1>2, HasMore
<1>3. CASE Last(s).kind # kind
  BY <1>1, <1>3, HasLess, HasMore
<1> QED
  BY <1>2, <1>3

Guards(kind) == IF kind = "intr" THEN intrBusy ELSE cbBusy

LEMMA GuardKept ==
    ASSUME Typed, "exitInHandler" \notin Liberties, NEW t \in Thread, Shape(t),
           NEW kind \in {"intr", "cb"},
           Guards(kind) => \E u \in Thread : Has(calls[u], kind)
    PROVE  Guards(kind)' => \E u \in Thread : Has(calls'[u], kind)
<1> SUFFICES ASSUME Guards(kind)' PROVE \E u \in Thread : Has(calls'[u], kind)
  OBVIOUS
<1>1. calls[t] \in Seq(CallType) /\ calls \in [Thread -> Seq(CallType)]
  BY DEF Typed
<1>2. \A u \in Thread \ {t} : calls'[u] = calls[u]
  BY ShapeTyped
<1>3. ASSUME Guards(kind), Has(calls[t], kind) => Has(calls'[t], kind)
      PROVE  \E u \in Thread : Has(calls'[u], kind)
  BY <1>2, <1>3
<1>4. CASE Quiet(t)
  BY <1>3, <1>4 DEF Quiet, Guarded, Guards
<1>5. CASE \E k \in {"intr", "cb"} : Begins(t, k)
  <2>1. PICK k \in {"intr", "cb"} : Begins(t, k)
    BY <1>5
  <2>2. NewCall(k) \in CallType /\ NewCall(k).kind = k
    BY NewCallTyped DEF NewCall
  <2>3. CASE k = kind
    <3>1. PICK s \in Seq(CallType) : calls'[t] = Append(s, NewCall(k))
      <4>1. CASE calls' = [calls EXCEPT ![t] = Append(@, NewCall(k))]
        BY <1>1, <4>1
      <4>2. CASE /\ InLoop(t, "intr")
                 /\ calls' = [calls EXCEPT ![t] = Append(Front(@), NewCall(k))]
        <5>1. Front(calls[t]) \in Seq(CallType)
          BY <1>1, <4>2, Innermost DEF InLoop
        <5> QED
          BY <1>1, <4>2, <5>1
      <4> QED
        BY <2>1, <4>1, <4>2 DEF Begins
    <3>2. Has(calls'[t], kind)
      BY <2>2, <2>3, <3>1, HasMore
    <3> QED
      BY <3>2
  <2>4. CASE k # kind
    <3>1. Guards(kind)
      <4>1. CASE kind = "intr"
        <5>1. intrBusy' \in {intrBusy, FALSE} /\ intrBusy'
          BY <2>1, <2>4, <4>1 DEF Begins, Guards
        <5> QED
          BY <4>1, <5>1 DEF Guards
      <4>2. CASE kind = "cb"
        <5>1. cbBusy' = cbBusy /\ cbBusy'
          BY <2>1, <2>4, <4>2 DEF Begins, Guards
        <5> QED
          BY <4>2, <5>1 DEF Guards
      <4> QED
        BY <4>1, <4>2
    <3>2. ASSUME Has(calls[t], kind) PROVE Has(calls'[t], kind)
      <4>1. CASE calls' = [calls EXCEPT ![t] = Append(@, NewCall(k))]
        BY <1>1, <2>2, <3>2, <4>1, HasMore
      <4>2. CASE /\ InLoop(t, "intr") /\ intrBusy' = FALSE /\ k = "cb"
                 /\ calls' = [calls EXCEPT ![t] = Append(Front(@), NewCall(k))]
        BY <2>4, <4>2 DEF Guards
      <4> QED
        BY <2>1, <4>1, <4>2 DEF Begins
    <3> QED
      BY <1>3, <3>1, <3>2
  <2> QED
    BY <2>3, <2>4
<1>6. CASE \E k \in {"intr", "cb"}, c \in CallType : Enters(t, k, c)
  <2>1. PICK k \in {"intr", "cb"}, c \in CallType : Enters(t, k, c)
    BY <1>6
  <2>2. calls'[t] = Append(Front(calls[t]), c) /\ calls[t] # <<>> /\ c.kind = Last(calls[t]).kind
    BY <1>1, <2>1 DEF Enters, InLoop, SetTop, Top
  <2>3. Guards(kind)
    BY <2>1 DEF Enters, Guarded, Guards
  <2> QED
    BY <1>1, <1>3, <2>2, <2>3, HasChanged
<1>7. CASE \E c \in CallType : Returns(t, c)
  <2>1. PICK c \in CallType : Returns(t, c)
    BY <1>7
  <2>2. calls'[t] = Append(Front(calls[t]), c) /\ calls[t] # <<>> /\ c.kind = Last(calls[t]).kind
    BY <1>1, <2>1 DEF Returns, SetTop, Top
  <2>3. Guards(kind)
    BY <2>1 DEF Returns, Guarded, Guards
  <2> QED
    BY <1>1, <1>3, <2>2, <2>3, HasChanged
<1>8. CASE \E k \in {"intr", "cb"} : Ends(t, k)
  <2>1. PICK k \in {"intr", "cb"} : Ends(t, k)
    BY <1>8
  <2>2. k # kind /\ Guards(kind)
    BY <2>1 DEF Ends, Guards
  <2>3. calls'[t] = Front(calls[t]) /\ calls[t] # <<>> /\ Last(calls[t]).kind # kind
    BY <1>1, <2>1, <2>2 DEF Ends, InLoop, Top
  <2> QED
    BY <1>1, <1>3, <2>2, <2>3, HasLess
<1>9. CASE Unwinds(t)
  <2>1. calls[t] = <<>> /\ calls'[t] = <<>> /\ Guards(kind)
    BY <1>1, <1>9 DEF Unwinds, Guarded, Guards
  <2> QED
    BY <1>3, <2>1
<1> QED
  BY <1>4, <1>5, <1>6, <1>7, <1>8, <1>9 DEF Shape

LEMMA GuardsAreServicedLater ==
    ServicedLater <=> \A kind \in {"intr", "cb"} :
                         Guards(kind) => \E u \in Thread : Has(calls[u], kind)
BY DEF ServicedLater, Guards, Has, Inside

(* As long as no thread ends inside a handler or a callback, an interrupt or a
   notification that finds a delivery running is serviced later: g_delivering and
   g_cb_delivering are never left set behind psp_intr_tick and deliver_callbacks,
   however the deliveries of the threads nest and interleave. *)
THEOREM GuardsAlwaysCleared ==
    ASSUME "exitInHandler" \notin Liberties
    PROVE  Spec => []ServicedLater
<1> DEFINE Inv == Typed /\ ServicedLater
<1>1. Init => Inv
  <2>1. Init => ServicedLater
    BY DEF Init, ServicedLater
  <2> QED
    BY <2>1, InitTyped
<1>2. Inv /\ [Next]_vars => Inv'
  <2> SUFFICES ASSUME Inv, [Next]_vars PROVE Inv'
    OBVIOUS
  <2>1. Typed'
    BY NextTyped
  <2>2. CASE Next
    <3>1. PICK t \in Thread : Shape(t)
      BY <2>2, EveryShape
    <3>2. ASSUME NEW kind \in {"intr", "cb"}
          PROVE  Guards(kind)' => \E u \in Thread : Has(calls'[u], kind)
      BY <3>1, GuardKept, GuardsAreServicedLater
    <3>3. ServicedLater'
      BY <3>2 DEF ServicedLater, Guards, Has, Inside
    <3> QED
      BY <2>1, <3>3
  <2>3. CASE UNCHANGED vars
    BY <2>1, <2>3 DEF vars, ServicedLater, Inside
  <2> QED
    BY <2>2, <2>3
<1>3. Inv => ServicedLater
  OBVIOUS
<1> QED
  BY <1>1, <1>2, <1>3, PTL DEF Spec

-----------------------------------------------------------------------------
(* The mask: the deliveries around the innermost one have called into the guest, and a
   thread is between two calls of its innermost one only with interrupts on. *)
Sound(s, d) == \A n \in DOMAIN s : ~s[n].masked /\ (s[n].body \/ (n = Len(s) /\ d = 0))

LEMMA SoundOutside ==
    ASSUME NEW s \in Seq(CallType), s # <<>>, NEW d, Sound(s, d)
    PROVE  /\ Front(s) \in Seq(CallType)
           /\ \A n \in 1..Len(Front(s)) : ~Front(s)[n].masked /\ Front(s)[n].body
           /\ ~Last(s).masked /\ (Last(s).body \/ d = 0)
<1>1. /\ Len(s) \in Nat \ {0} /\ DOMAIN s = 1..Len(s) /\ Last(s) = s[Len(s)]
      /\ Front(s) \in Seq(CallType) /\ Len(Front(s)) = Len(s) - 1
      /\ \A i \in 1..Len(s) - 1 : Front(s)[i] = s[i]
  BY Innermost
<1>2. Len(s) \in DOMAIN s
  BY <1>1
<1>3. \A n \in 1..Len(s) - 1 : n \in DOMAIN s /\ n # Len(s)
  <2>1. Len(s) \in Nat
    OBVIOUS
  <2>2. \A n \in 1..Len(s) - 1 : n \in 1..Len(s) /\ n # Len(s)
    BY <2>1
  <2> QED
    BY <1>1, <2>2
<1> QED
  BY <1>1, <1>2, <1>3 DEF Sound

LEMMA SoundPushed ==
    ASSUME NEW s \in Seq(CallType), NEW c \in CallType, NEW d,
           \A n \in 1..Len(s) : ~s[n].masked /\ s[n].body,
           ~c.masked, c.body \/ d = 0
    PROVE  Sound(Append(s, c), d)
<1>1. SUFFICES ASSUME NEW n \in 1..Len(s) + 1
               PROVE  ~Append(s, c)[n].masked /\ (Append(s, c)[n].body \/ (n = Len(s) + 1 /\ d = 0))
  BY Pushed DEF Sound
<1>2. CASE n = Len(s) + 1
  BY <1>2, Pushed
<1>3. CASE n \in 1..Len(s)
  BY <1>3, Pushed
<1> QED
  BY <1>2, <1>3

LEMMA SoundInGuest ==
    ASSUME Typed, NEW t \in Thread, InGuest(t), Sound(calls[t], depth[t])
    PROVE  \A n \in 1..Len(calls[t]) : ~calls[t][n].masked /\ calls[t][n].body
<1>1. calls[t] \in Seq(CallType)
  BY DEF Typed
<1>2. CASE calls[t] = <<>>
  BY <1>2
<1>3. CASE calls[t] # <<>>
  <2>1. calls[t][Len(calls[t])].body
    BY <1>1, <1>3, Innermost DEF InGuest, Top
  <2>2. DOMAIN calls[t] = 1..Len(calls[t])
    BY <1>1
  <2> QED
    BY <2>1, <2>2 DEF Sound
<1> QED
  BY <1>2, <1>3

LEMMA SoundKept ==
    ASSUME Typed, "leaveMasked" \notin Liberties, NEW t \in Thread, Shape(t),
           \A u \in Thread : Sound(calls[u], depth[u])
    PROVE  \A u \in Thread : Sound(calls'[u], depth'[u])
<1>1. calls[t] \in Seq(CallType) /\ calls \in [Thread -> Seq(CallType)]
      /\ depth \in [Thread -> Nat]
  BY DEF Typed
<1>2. \A u \in Thread \ {t} : calls'[u] = calls[u] /\ depth'[u] = depth[u]
  BY ShapeTyped
<1>3. SUFFICES Sound(calls'[t], depth'[t])
  BY <1>2
<1>4. CASE Quiet(t)
  <2>1. CASE UNCHANGED depth
    BY <1>4, <2>1 DEF Quiet
  <2>2. CASE InGuest(t)
    <3>1. calls'[t] = calls[t] /\ DOMAIN calls[t] = 1..Len(calls[t])
      BY <1>1, <1>4 DEF Quiet
    <3> QED
      BY <2>2, <3>1, SoundInGuest DEF Sound
  <2> QED
    BY <1>4, <2>1, <2>2 DEF Quiet
<1>5. CASE \E k \in {"intr", "cb"} : Begins(t, k)
  <2>1. PICK k \in {"intr", "cb"} : Begins(t, k)
    BY <1>5
  <2>2. NewCall(k) \in CallType /\ ~NewCall(k).masked /\ depth'[t] = 0
    BY <2>1, NewCallTyped DEF NewCall, Begins
  <2>3. CASE InGuest(t) /\ calls' = [calls EXCEPT ![t] = Append(@, NewCall(k))]
    <3>1. calls'[t] = Append(calls[t], NewCall(k))
      BY <1>1, <2>3
    <3> QED
      BY <1>1, <2>2, <2>3, <3>1, SoundInGuest, SoundPushed
  <2>4. CASE InLoop(t, "intr") /\ calls' = [calls EXCEPT ![t] = Append(Front(@), NewCall(k))]
    <3>1. calls'[t] = Append(Front(calls[t]), NewCall(k)) /\ calls[t] # <<>>
      BY <1>1, <2>4 DEF InLoop
    <3> QED
      BY <1>1, <2>2, <3>1, SoundOutside, SoundPushed
  <2> QED
    BY <2>1, <2>3, <2>4 DEF Begins
<1>6. CASE \E k \in {"intr", "cb"}, c \in CallType : Enters(t, k, c)
  <2>1. PICK k \in {"intr", "cb"}, c \in CallType : Enters(t, k, c)
    BY <1>6
  <2>2. calls'[t] = Append(Front(calls[t]), c) /\ calls[t] # <<>> /\ ~Last(calls[t]).body
    BY <1>1, <2>1 DEF Enters, InLoop, SetTop, Top
  <2>3. depth[t] = 0
    BY <1>1, <2>2, SoundOutside
  <2>4. ~c.masked /\ c.body
    <3>1. ~(depth[t] > 0)
      BY <2>3
    <3>2. c.masked = (depth[t] > 0) /\ c.body
      BY <2>1 DEF Enters
    <3> QED
      BY <3>1, <3>2, Zenon
  <2> QED
    BY <1>1, <2>2, <2>4, SoundOutside, SoundPushed
<1>7. CASE \E c \in CallType : Returns(t, c)
  <2>1. PICK c \in CallType : Returns(t, c)
    BY <1>7
  <2>2. calls'[t] = Append(Front(calls[t]), c) /\ calls[t] # <<>>
    BY <1>1, <2>1 DEF Returns, SetTop
  <2>3. c.masked = Last(calls[t]).masked /\ depth'[t] = 0
    BY <2>1 DEF Returns, Top
  <2> QED
    BY <1>1, <2>2, <2>3, SoundOutside, SoundPushed
<1>8. CASE \E k \in {"intr", "cb"} : Ends(t, k)
  <2>1. PICK k \in {"intr", "cb"} : Ends(t, k)
    BY <1>8
  <2>2. calls'[t] = Front(calls[t]) /\ calls[t] # <<>>
    BY <1>1, <2>1 DEF Ends, InLoop
  <2>3. DOMAIN Front(calls[t]) = 1..Len(Front(calls[t]))
    BY <1>1, <2>2, Innermost
  <2> QED
    BY <1>1, <2>2, <2>3, SoundOutside DEF Sound
<1>9. CASE Unwinds(t)
  <2>1. calls'[t] = <<>>
    BY <1>1, <1>9 DEF Unwinds
  <2> QED
    BY <2>1 DEF Sound
<1> QED
  BY <1>4, <1>5, <1>6, <1>7, <1>8, <1>9 DEF Shape

(* As long as what is called restores the interrupt mask before it returns, no handler
   or callback is entered inside a critical section of its thread, although
   psp_intr_tick and deliver_callbacks look at the depth once, before their loops, and
   the guest code between two calls may raise and lower it. *)
THEOREM CriticalSectionsStayUndisturbed ==
    ASSUME "leaveMasked" \notin Liberties
    PROVE  Spec => []CriticalSectionUndisturbed
<1> DEFINE Inv == Typed /\ \A u \in Thread : Sound(calls[u], depth[u])
<1>1. Init => Inv
  <2>1. Init => \A u \in Thread : Sound(calls[u], depth[u])
    BY DEF Init, Sound
  <2> QED
    BY <2>1, InitTyped
<1>2. Inv /\ [Next]_vars => Inv'
  <2> SUFFICES ASSUME Inv, [Next]_vars PROVE Inv'
    OBVIOUS
  <2>1. Typed'
    BY NextTyped
  <2>2. CASE Next
    <3>1. PICK t \in Thread : Shape(t)
      BY <2>2, EveryShape
    <3>2. \A u \in Thread : Sound(calls'[u], depth'[u])
      BY <3>1, SoundKept
    <3> QED
      BY <2>1, <3>2 DEF Sound
  <2>3. CASE UNCHANGED vars
    BY <2>1, <2>3 DEF vars, Sound
  <2> QED
    BY <2>2, <2>3
<1>3. Inv => CriticalSectionUndisturbed
  BY DEF Sound, CriticalSectionUndisturbed
<1> QED
  BY <1>1, <1>2, <1>3, PTL DEF Spec

-----------------------------------------------------------------------------
(* The consumers of a notification, besides the run itself: none touches the count of
   a callback in use whose function is known. *)
RunOnce(i) ==
    cb[i].used /\ cb[i].known /\ cb'[i].uid = cb[i].uid /\ cb'[i].count < cb[i].count =>
        LET t == cb[i].owner
        IN /\ cb'[i].count = cb[i].count - 1
           /\ cpu = t /\ InLoop(t, "cb")
           /\ Last(calls'[t]).body /\ Last(calls'[t]).entry = cb[i].uid

LEMMA NotLower ==
    ASSUME Typed, NEW i \in CbSlot, cb'[i].count \in Nat, cb'[i].count >= cb[i].count
    PROVE  RunOnce(i)
<1>1. cb[i].count \in Nat
  BY Constants DEF Typed, CbType
<1>2. ~(cb'[i].count < cb[i].count)
  BY <1>1
<1> QED
  BY <1>2 DEF RunOnce

LEMMA Untouched == ASSUME Typed, NEW i \in CbSlot, cb'[i] = cb[i] PROVE RunOnce(i)
<1>1. cb[i].count \in Nat
  BY Constants DEF Typed, CbType
<1> QED
  BY <1>1, NotLower

LEMMA RunsOnce ==
    ASSUME Typed, Next, NEW i \in CbSlot
    PROVE  RunOnce(i)
<1>0. /\ cb \in [CbSlot -> CbType] /\ cb' \in [CbSlot -> CbType]
      /\ cb[i].count \in Nat /\ cb'[i].count \in Nat /\ i \in Nat /\ NotifyMax \in Nat
  <2>1. cb \in [CbSlot -> CbType] /\ cb' \in [CbSlot -> CbType] /\ NotifyMax \in Nat
    BY CbTyped, Constants DEF Typed
  <2>2. cb[i] \in CbType /\ cb'[i] \in CbType
    BY <2>1
  <2> QED
    BY <2>1, <2>2, Constants DEF CbType, CbSlot
<1>1. CASE cb' = cb
  BY <1>1, Untouched
<1>2. ASSUME NEW t \in Thread, NEW known \in BOOLEAN, CreateCallback(t, known)
      PROVE  RunOnce(i)
  <2> DEFINE free == {j \in CbSlot : ~cb[j].used}
  <2>1. free \in SUBSET Nat
    BY Constants DEF CbSlot
  <2>2. free # {}
    BY <1>2 DEF CreateCallback
  <2>3. Min(free) \in free
    BY <2>1, <2>2, MinIsLeast
  <2>4. i # Min(free) => cb'[i] = cb[i]
    BY <1>0, <1>2 DEF CreateCallback
  <2>5. CASE i = Min(free)
    BY <2>3, <2>5 DEF RunOnce
  <2>6. CASE i # Min(free)
    BY <2>4, <2>6, Untouched
  <2> QED
    BY <2>5, <2>6
<1>3. ASSUME NEW t \in Thread, NEW j \in CbSlot, DeleteCallback(t, j)
      PROVE  RunOnce(i)
  <2>1. cb'[i].count = cb[i].count
    <3>1. CASE i = j
      <4>1. cb[i] \in CbType /\ cb'[i] = [cb[i] EXCEPT !.used = FALSE]
        BY <1>0, <1>3, <3>1 DEF DeleteCallback
      <4> QED
        BY <4>1 DEF CbType
    <3>2. CASE i # j
      BY <1>0, <1>3, <3>2 DEF DeleteCallback
    <3> QED
      BY <3>1, <3>2
  <2> QED
    BY <1>0, <2>1, NotLower
<1>4. ASSUME NEW t \in Thread, NEW j \in CbSlot, NotifyCallback(t, j)
      PROVE  RunOnce(i)
  <2> DEFINE n == Min({cb[j].count + 1, NotifyMax})
  <2>1. cb' = [cb EXCEPT ![j] = [cb[j] EXCEPT !.count = n]]
    BY <1>4 DEF NotifyCallback
  <2>2. CASE i = j
    <3>1. cb[i].count \in 0..NotifyMax
      BY <1>0 DEF CbType
    <3>2. {cb[j].count + 1, NotifyMax} \in SUBSET Nat
      BY <1>0, <2>2
    <3>3. n \in {cb[j].count + 1, NotifyMax}
      BY <3>2, MinIsLeast
    <3>4. n >= cb[i].count
      BY <1>0, <2>2, <3>1, <3>3
    <3> HIDE DEF n
    <3>5. cb'[i].count = n
      <4>1. cb[i] \in CbType /\ cb'[i] = [cb[i] EXCEPT !.count = n]
        BY <1>0, <2>1, <2>2
      <4> QED
        BY <4>1 DEF CbType
    <3> QED
      BY <1>0, <3>4, <3>5, NotLower
  <2> HIDE DEF n
  <2>3. CASE i # j
    <3>1. cb'[i] = cb[i]
      BY <1>0, <2>1, <2>3
    <3> QED
      BY <3>1, Untouched
  <2> QED
    BY <2>2, <2>3
<1>5. ASSUME NEW D \in SUBSET CbSlot, i \in D => ~cb[i].known, cb' = Dropped(D)
      PROVE  RunOnce(i)
  <2>1. CASE i \in D
    BY <1>5, <2>1 DEF RunOnce
  <2>2. CASE i \notin D
    <3>1. cb'[i] = cb[i]
      BY <1>5, <2>2 DEF Dropped
    <3> QED
      BY <3>1, Untouched
  <2> QED
    BY <2>1, <2>2
<1>6. ASSUME NEW t \in Thread, EndCallbacks(t)
      PROVE  RunOnce(i)
  <2>1. CASE cb' = cb
    BY <1>1, <2>1
  <2>2. CASE /\ \A j \in Notified(t) : ~cb[j].known
             /\ cb' = Dropped(Notified(t))
    <3>1. Notified(t) \in SUBSET CbSlot
      BY DEF Notified
    <3> QED
      BY <1>5, <2>2, <3>1
  <2> QED
    BY <1>6, <2>1, <2>2 DEF EndCallbacks
<1>7. ASSUME NEW t \in Thread, EnterCallback(t)
      PROVE  RunOnce(i)
  <2>1. PICK r \in CbSlot :
           /\ cb[r].owner = t /\ r \in Notified(t) /\ cb[r].known
           /\ \A j \in Notified(t) : cb[j].known => r <= j
           /\ cb' = [Dropped({j \in Notified(t) : j < r}) EXCEPT ![r].count = @ - 1]
           /\ Last(calls'[t]).body /\ Last(calls'[t]).entry = cb[r].uid
    BY <1>7, EnterCallbackShape
  <2> DEFINE P == {j \in Notified(t) : j < r}
             D == Dropped(P)
  <2>2. D \in [CbSlot -> CbType] /\ cb' = [D EXCEPT ![r].count = @ - 1]
    BY <2>1, DroppedTyped
  <2>3. InLoop(t, "cb") /\ cpu = t
    BY <1>7 DEF EnterCallback, InLoop
  <2>4. CASE i = r
    <3>1. D[i] = cb[i]
      BY <1>0, <2>4 DEF Dropped
    <3> HIDE DEF D
    <3>2. cb[i] \in CbType /\ cb'[i] = [cb[i] EXCEPT !.count = @ - 1]
      BY <1>0, <2>2, <2>4, <3>1
    <3>3. cb'[i].count = cb[i].count - 1
      BY <3>2 DEF CbType
    <3> QED
      BY <2>1, <2>3, <2>4, <3>3 DEF RunOnce
  <2>5. CASE i # r
    <3>1. cb'[i] = D[i]
      <4> HIDE DEF D
      <4> QED
        BY <2>2, <2>5
    <3>2. CASE i \in P
      <4>1. r \in Nat
        BY Constants DEF CbSlot
      <4>2. ~cb[i].known
        BY <1>0, <2>1, <3>2, <4>1
      <4> QED
        BY <4>2 DEF RunOnce
    <3>3. CASE i \notin P
      <4>1. cb'[i] = cb[i]
        BY <3>1, <3>3 DEF Dropped
      <4> QED
        BY <4>1, Untouched
    <3> QED
      BY <3>2, <3>3
  <2> QED
    BY <2>4, <2>5
<1>8. PICK t \in Thread : \/ CallbackCalls(t) \/ InterruptCalls(t) \/ Delivery(t)
                          \/ Park(t) \/ Unpark(t) \/ Leave(t)
  BY DEF Next
<1>9. CASE CallbackCalls(t)
  BY <1>1, <1>2, <1>3, <1>4, <1>9 DEF CallbackCalls, CheckCallback
<1>10. CASE InterruptCalls(t)
  BY <1>1, <1>10 DEF InterruptCalls, SuspendIntr, ResumeIntr, RegisterSubIntrHandler,
                     EnableSubIntr, ReleaseSubIntrHandler, cbVars
<1>11. CASE Delivery(t)
  BY <1>1, <1>6, <1>7, <1>11 DEF Delivery, DeliverTick, EnterHandler, EndHandlers, Return, cbVars
<1>12. CASE Park(t) \/ Unpark(t) \/ Leave(t)
  BY <1>1, <1>12 DEF Park, Unpark, Leave, cbVars
<1> QED
  BY <1>8, <1>9, <1>10, <1>11, <1>12

(* A notification of a callback that can run is consumed by one run of it on the thread
   that created it and by nothing else, whatever the handlers and callbacks do, even if
   they end their thread or leave interrupts suspended: not by a full pass of
   deliver_callbacks, a pass of another thread, a deletion, or the saturation of the
   count in hle_NotifyCallback. *)
THEOREM NotificationsRunOnce == Spec => NotificationRunsOnce
<1>1. Init => Typed
  BY InitTyped
<1>2. Typed /\ [Next]_vars => Typed'
  BY NextTyped
<1>3. Typed /\ [Next]_vars => [\A i \in CbSlot : RunOnce(i)]_vars
  BY RunsOnce
<1> QED
  BY <1>1, <1>2, <1>3, PTL DEF Spec, NotificationRunsOnce, RunOnce
=============================================================================
