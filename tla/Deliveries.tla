----------------------------- MODULE Deliveries -----------------------------
(***************************************************************************)
(* Deferred guest code: the callbacks of src/hle/threadman.c, the          *)
(* sub-interrupt handlers of src/hle/intrman.c, and deliver_tick, which    *)
(* runs both at every wait of the guest.                                   *)
(*                                                                         *)
(* A delivery is a loop over a table that calls into the guest.  What it   *)
(* calls may do everything guest code does - park, notify, create, delete, *)
(* register, mask interrupts, wait (and so come back to deliver_tick) - so *)
(* each thread has a stack of the deliveries it is inside of, and between  *)
(* two calls of one loop the tables may change and other threads may run.  *)
(* The guards against re-entrance, g_cb_delivering and g_delivering, are   *)
(* shared by all threads.                                                  *)
(***************************************************************************)
EXTENDS Integers, Sequences, FiniteSets, FiniteSetsExt, SequencesExt

CONSTANTS Thread,      \* the threads that run guest code
          Boot,        \* the one that runs the module entry
          NoThread,    \* nobody on the CPU
          NCbs,        \* MAX_CBS
          NSubs,       \* MAX_SUBINTR
          Key,         \* the (intr, subintr) pairs
          NotifyMax,   \* where notify_count saturates, 0x7FFFFFFF
          DeliverMax,  \* CB_DELIVER_MAX
          MaxUid,      \* bound: callbacks created
          MaxMask,     \* bound: nested critical sections
          Liberties    \* what handlers and callbacks are careless about, see below

(* exitInHandler: they end their thread, or it is terminated inside them;
   leaveMasked: they return with interrupts suspended. *)
ASSUME DeliveriesAssumption ==
    /\ Boot \in Thread /\ NoThread \notin Thread
    /\ {NCbs, NSubs, NotifyMax, DeliverMax, MaxUid, MaxMask} \subseteq Nat
    /\ Liberties \subseteq {"exitInHandler", "leaveMasked"}

VARIABLES cpu,       \* who holds the CPU, or NoThread
          place,     \* where each thread is
          calls,     \* the deliveries each thread is inside of, innermost last
          depth,     \* g_tls_intr_depth: the critical sections each one has open
          cb,        \* g_cb
          nextUid,   \* g_next_uid
          cbBusy,    \* g_cb_delivering
          sub,       \* g_sub
          intrBusy   \* g_delivering

vars == <<cpu, place, calls, depth, cb, nextUid, cbBusy, sub, intrBusy>>
threadVars == <<cpu, place, calls, depth>>
cbVars     == <<cb, nextUid, cbBusy>>
intrVars   == <<sub, intrBusy>>

CbSlot  == 1..NCbs
SubSlot == 1..NSubs
Slots   == 1..Max({NCbs, NSubs, 1}) + 1

NoCb  == [used |-> FALSE, uid |-> 0, owner |-> Boot, known |-> FALSE, count |-> 0]
NoSub == [used |-> FALSE, key |-> CHOOSE k \in Key : TRUE, known |-> FALSE, enabled |-> FALSE]

(* at: the slot the loop comes to next; body: the guest's code is running;
   ran: how many it has run.  History: the entry of the table that is running, and
   whether it was entered with interrupts suspended. *)
Call == [kind : {"intr", "cb"}, at : Slots, body : BOOLEAN, ran : 0..Max({NCbs, NSubs}),
         entry : 0..MaxUid, masked : BOOLEAN]

NewCall(kind) == [kind |-> kind, at |-> 1, body |-> FALSE, ran |-> 0, entry |-> 0,
                  masked |-> FALSE]

(* used, owner and so on are the fields of the code; known: psp_lookup finds the
   function. *)
TypeOK ==
    /\ cpu \in Thread \cup {NoThread}
    /\ place \in [Thread -> {"cpu", "parked", "dead"}]
    /\ calls \in [Thread -> Seq(Call)]
    /\ depth \in [Thread -> 0..MaxMask]
    /\ cb \in [CbSlot -> [used : BOOLEAN, uid : 0..MaxUid, owner : Thread, known : BOOLEAN,
                          count : 0..NotifyMax]]
    /\ nextUid \in 1..MaxUid + 1
    /\ sub \in [SubSlot -> [used : BOOLEAN, key : Key, known : BOOLEAN, enabled : BOOLEAN]]
    /\ cbBusy \in BOOLEAN /\ intrBusy \in BOOLEAN

Init == /\ cpu = Boot
        /\ place = [t \in Thread |-> IF t = Boot THEN "cpu" ELSE "parked"]
        /\ calls = [t \in Thread |-> <<>>]
        /\ depth = [t \in Thread |-> 0]
        /\ cb = [i \in CbSlot |-> NoCb]
        /\ nextUid = 1
        /\ cbBusy = FALSE
        /\ sub = [i \in SubSlot |-> NoSub]
        /\ intrBusy = FALSE

-----------------------------------------------------------------------------
Top(t) == Last(calls[t])

(* Guest code is running: the thread's own, or what a delivery called. *)
InGuest(t)      == cpu = t /\ (calls[t] # <<>> => Top(t).body)
InLoop(t, kind) == cpu = t /\ calls[t] # <<>> /\ ~Top(t).body /\ Top(t).kind = kind

SetTop(t, c) == [calls EXCEPT ![t] = Append(Front(@), c)]

(* psp_threadman_intr_suspend, psp_threadman_intr_resume *)
SuspendIntr(t) == /\ InGuest(t)
                  /\ depth[t] < MaxMask
                  /\ depth' = [depth EXCEPT ![t] = @ + 1]
                  /\ UNCHANGED <<cpu, place, calls, cbVars, intrVars>>

ResumeIntr(t, cookie) == /\ InGuest(t)
                         /\ depth' = [depth EXCEPT ![t] = IF cookie \/ @ = 0 THEN 0 ELSE @ - 1]
                         /\ UNCHANGED <<cpu, place, calls, cbVars, intrVars>>

(* hle_CreateCallback: the first free slot, or NO_MEMORY and no change. *)
CreateCallback(t, known) ==
    LET free == {i \in CbSlot : ~cb[i].used}
    IN /\ InGuest(t)
       /\ free # {}
       /\ nextUid <= MaxUid
       /\ cb' = [cb EXCEPT ![Min(free)] = [NoCb EXCEPT !.used = TRUE, !.uid = nextUid,
                                                       !.owner = t, !.known = known]]
       /\ nextUid' = nextUid + 1
       /\ UNCHANGED <<threadVars, cbBusy, intrVars>>

DeleteCallback(t, i) == /\ InGuest(t)
                        /\ cb[i].used
                        /\ cb' = [cb EXCEPT ![i].used = FALSE]
                        /\ UNCHANGED <<threadVars, nextUid, cbBusy, intrVars>>

(* hle_NotifyCallback, by any thread. *)
NotifyCallback(t, i) == /\ InGuest(t)
                        /\ cb[i].used
                        /\ cb' = [cb EXCEPT ![i].count = Min({@ + 1, NotifyMax})]
                        /\ UNCHANGED <<threadVars, nextUid, cbBusy, intrVars>>

(* hle_RegisterSubIntrHandler: the slot of the pair, else the first free one, else
   NO_MEMORY and no change. *)
RegisterSubIntrHandler(t, k, known) ==
    LET same == {i \in SubSlot : sub[i].used /\ sub[i].key = k}
        free == {i \in SubSlot : ~sub[i].used}
        i    == Min(IF same # {} THEN same ELSE free)
    IN /\ InGuest(t)
       /\ same \cup free # {}
       /\ sub' = [sub EXCEPT ![i].used = TRUE, ![i].key = k, ![i].known = known,
                             ![i].enabled = FALSE]
       /\ UNCHANGED <<threadVars, cbVars, intrBusy>>

EnableSubIntr(t, i) == /\ InGuest(t)
                       /\ sub[i].used
                       /\ sub' = [sub EXCEPT ![i].enabled = TRUE]
                       /\ UNCHANGED <<threadVars, cbVars, intrBusy>>

ReleaseSubIntrHandler(t, i) == /\ InGuest(t)
                               /\ sub[i].used
                               /\ sub' = [sub EXCEPT ![i].used = FALSE]
                               /\ UNCHANGED <<threadVars, cbVars, intrBusy>>

-----------------------------------------------------------------------------
(* Mutant: delivery inside a critical section. *)
MayDeliverMasked(t, busy) == ~busy

(* The early returns of psp_intr_tick and of deliver_callbacks. *)
MayDeliver(t, busy) == ~busy /\ depth[t] = 0

(* deliver_callbacks up to its loop; `outer' are the deliveries around it. *)
BeginCallbacks(t, outer) ==
    IF MayDeliver(t, cbBusy)
    THEN /\ calls' = [calls EXCEPT ![t] = Append(outer, NewCall("cb"))]
         /\ cbBusy' = TRUE
    ELSE /\ calls' = [calls EXCEPT ![t] = outer]
         /\ UNCHANGED cbBusy

(* hle_CheckCallback *)
CheckCallback(t) == /\ InGuest(t)
                    /\ BeginCallbacks(t, calls[t])
                    /\ UNCHANGED <<cpu, place, depth, cb, nextUid, intrVars>>

(* deliver_tick: the interrupt first, then the callbacks. *)
DeliverTick(t) == /\ InGuest(t)
                  /\ \/ /\ MayDeliver(t, intrBusy)
                        /\ calls' = [calls EXCEPT ![t] = Append(@, NewCall("intr"))]
                        /\ intrBusy' = TRUE
                        /\ UNCHANGED cbBusy
                     \/ /\ ~MayDeliver(t, intrBusy)
                        /\ BeginCallbacks(t, calls[t])
                        /\ UNCHANGED intrBusy
                  /\ UNCHANGED <<cpu, place, depth, cb, nextUid, sub>>

(* The slots at which the loops of psp_intr_tick and deliver_callbacks still have
   to stop; a function that is not recompiled is passed over. *)
Armed(t)    == {i \in SubSlot : i >= Top(t).at /\ sub[i].used /\ sub[i].enabled}
Notified(t) == {i \in CbSlot : i >= Top(t).at /\ cb[i].used /\ cb[i].count > 0 /\ cb[i].owner = t}

(* psp_intr_tick calls the next handler ... *)
EnterHandler(t) ==
    LET due == {i \in Armed(t) : sub[i].known}
        i   == Min(due)
    IN /\ InLoop(t, "intr")
       /\ due # {}
       /\ calls' = SetTop(t, [Top(t) EXCEPT !.at = i + 1, !.body = TRUE, !.masked = depth[t] > 0])
       /\ UNCHANGED <<cpu, place, depth, cbVars, intrVars>>

(* ... or is done, and deliver_tick goes on. *)
EndHandlers(t) == /\ InLoop(t, "intr")
                  /\ \A i \in Armed(t) : ~sub[i].known
                  /\ intrBusy' = FALSE
                  /\ BeginCallbacks(t, Front(calls[t]))
                  /\ UNCHANGED <<cpu, place, depth, cb, nextUid, sub>>

(* The notifications of unknown functions in D are dropped. *)
Dropped(D) == [i \in CbSlot |-> IF i \in D THEN [cb[i] EXCEPT !.count = 0] ELSE cb[i]]

(* Mutant: the pass takes every notification of a callback for one. *)
EnterCallbackAll(t) ==
    LET due == {i \in Notified(t) : cb[i].known}
        i   == Min(due)
    IN /\ InLoop(t, "cb")
       /\ Top(t).ran < DeliverMax
       /\ due # {}
       /\ cb' = [Dropped({j \in Notified(t) : j < i}) EXCEPT ![i].count = 0]
       /\ calls' = SetTop(t, [Top(t) EXCEPT !.at = i + 1, !.body = TRUE, !.entry = cb[i].uid,
                                            !.masked = depth[t] > 0])
       /\ UNCHANGED <<cpu, place, depth, nextUid, cbBusy, intrVars>>

(* deliver_callbacks calls the next one ... *)
EnterCallback(t) ==
    LET due == {i \in Notified(t) : cb[i].known}
        i   == Min(due)
    IN /\ InLoop(t, "cb")
       /\ Top(t).ran < DeliverMax
       /\ due # {}
       /\ cb' = [Dropped({j \in Notified(t) : j < i}) EXCEPT ![i].count = @ - 1]
       /\ calls' = SetTop(t, [Top(t) EXCEPT !.at = i + 1, !.body = TRUE, !.entry = cb[i].uid,
                                            !.masked = depth[t] > 0])
       /\ UNCHANGED <<cpu, place, depth, nextUid, cbBusy, intrVars>>

(* Mutant: a pass that reaches its limit returns with the guard set. *)
EndCallbacksFull(t) == /\ InLoop(t, "cb")
                       /\ \/ /\ Top(t).ran = DeliverMax
                             /\ UNCHANGED <<cb, cbBusy>>
                          \/ /\ Top(t).ran < DeliverMax
                             /\ \A i \in Notified(t) : ~cb[i].known
                             /\ cb' = Dropped(Notified(t))
                             /\ cbBusy' = FALSE
                       /\ calls' = [calls EXCEPT ![t] = Front(@)]
                       /\ UNCHANGED <<cpu, place, depth, nextUid, intrVars>>

(* ... or is done. *)
EndCallbacks(t) == /\ InLoop(t, "cb")
                   /\ \/ /\ Top(t).ran = DeliverMax
                         /\ UNCHANGED cb
                      \/ /\ Top(t).ran < DeliverMax
                         /\ \A i \in Notified(t) : ~cb[i].known
                         /\ cb' = Dropped(Notified(t))
                   /\ calls' = [calls EXCEPT ![t] = Front(@)]
                   /\ cbBusy' = FALSE
                   /\ UNCHANGED <<cpu, place, depth, nextUid, intrVars>>

(* What was called returns into the loop. *)
Return(t) == /\ InGuest(t) /\ calls[t] # <<>>
             /\ depth[t] = 0 \/ "leaveMasked" \in Liberties
             /\ calls' = SetTop(t, [Top(t) EXCEPT !.body = FALSE,
                                                  !.ran = IF Top(t).kind = "cb" THEN @ + 1 ELSE 0])
             /\ UNCHANGED <<cpu, place, depth, cbVars, intrVars>>

(* A park, in a callback as anywhere else, and the return from it. *)
Park(t) == /\ InGuest(t)
           /\ cpu' = NoThread
           /\ place' = [place EXCEPT ![t] = "parked"]
           /\ UNCHANGED <<calls, depth, cbVars, intrVars>>

Unpark(t) == /\ place[t] = "parked"
             /\ cpu = NoThread
             /\ cpu' = t
             /\ place' = [place EXCEPT ![t] = "cpu"]
             /\ UNCHANGED <<calls, depth, cbVars, intrVars>>

(* thread_unwind: the longjmp of ExitThread, or of check_terminated after a park,
   leaves every delivery the thread is inside of; the guards stay as they are. *)
Leave(t) == /\ InGuest(t) /\ t # Boot
            /\ calls[t] = <<>> \/ "exitInHandler" \in Liberties
            /\ cpu' = NoThread
            /\ place' = [place EXCEPT ![t] = "dead"]
            /\ calls' = [calls EXCEPT ![t] = <<>>]
            /\ depth' = [depth EXCEPT ![t] = 0]
            /\ UNCHANGED <<cbVars, intrVars>>

CallbackCalls(t) == \/ \E known \in BOOLEAN : CreateCallback(t, known)
                    \/ \E i \in CbSlot : DeleteCallback(t, i)
                    \/ \E i \in CbSlot : NotifyCallback(t, i)
                    \/ CheckCallback(t)

InterruptCalls(t) == \/ SuspendIntr(t)
                     \/ \E cookie \in BOOLEAN : ResumeIntr(t, cookie)
                     \/ \E k \in Key, known \in BOOLEAN : RegisterSubIntrHandler(t, k, known)
                     \/ \E i \in SubSlot : EnableSubIntr(t, i)
                     \/ \E i \in SubSlot : ReleaseSubIntrHandler(t, i)

Delivery(t) == \/ DeliverTick(t)
               \/ EnterHandler(t)
               \/ EndHandlers(t)
               \/ EnterCallback(t)
               \/ EndCallbacks(t)
               \/ Return(t)

Next == \E t \in Thread : \/ CallbackCalls(t)
                          \/ InterruptCalls(t)
                          \/ Delivery(t)
                          \/ Park(t)
                          \/ Unpark(t)
                          \/ Leave(t)

Spec == Init /\ [][Next]_vars

-----------------------------------------------------------------------------
Inside(t, kind) == \E n \in DOMAIN calls[t] : calls[t][n].kind = kind

(* "An interrupt arriving while one is being serviced is simply serviced later"
   (psp_intr_tick): the guards are set only while some thread is inside the delivery
   that will clear them - were one left set, nothing would be delivered again. *)
ServicedLater ==
    /\ intrBusy => \E t \in Thread : Inside(t, "intr")
    /\ cbBusy => \E t \in Thread : Inside(t, "cb")

(* "Not delivered inside a critical section either" (deliver_callbacks, and the same
   rule in psp_intr_tick): no handler or callback is entered by a thread with
   interrupts suspended - though the loops look at the mask only once. *)
CriticalSectionUndisturbed ==
    \A t \in Thread : \A n \in DOMAIN calls[t] : ~calls[t][n].masked

(* A notification of a callback that can run is consumed by one run of it on the
   thread that created it, and by nothing else: not by a pass of another thread, a
   full pass or a delivery that found the guard set. *)
NotificationRunsOnce ==
    [][\A i \in CbSlot :
          cb[i].used /\ cb[i].known /\ cb'[i].uid = cb[i].uid /\ cb'[i].count < cb[i].count =>
              LET t == cb[i].owner
              IN /\ cb'[i].count = cb[i].count - 1
                 /\ cpu = t /\ InLoop(t, "cb")
                 /\ Last(calls'[t]).body /\ Last(calls'[t]).entry = cb[i].uid]_vars
=============================================================================
