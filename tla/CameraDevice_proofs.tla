------------------------- MODULE CameraDevice_proofs -------------------------
(***************************************************************************)
(* Proofs about CameraDevice, for any finite set of objects and as many    *)
(* memory slots.                                                           *)
(***************************************************************************)
EXTENDS CameraDevice, FiniteSetTheorems, SequenceTheorems, WellFoundedInduction, TLAPS

\* what the place of a call says of the vendor's device
PlaceInv ==
  \A d \in Devices :
    /\ pc[d] \in {"opened", "registered", "closing", "vendor", "wait", "frame", "window"} => mDevice[d]
    /\ pc[d] \in {"decided", "closed", "unregistered"} => ~mDevice[d]

\* an object that is being opened has no slot yet
UnslottedInv == \A d \in Devices : pc[d] = "opened" => mMemorySlot[d] = NoSlot

\* The inductive invariant.
IInv == SessionsAgree /\ PlaceInv /\ UnslottedInv

Heaps ==
  [state : {"none", "live", "forgotten"},
   device : Devices \cup {NoDevice}, asked : Devices \cup {NoDevice}]

Previews ==
  [window : Windows \cup {NoWindow}, vendor : {"none", "given", "configured"},
   running : BOOLEAN, circulating : [Buffers -> Windows \cup {NoWindow}],
   held : SUBSET Buffers, pending : BOOLEAN, frames : 0..1]

\* the types of all but the previews
TypesInv ==
  /\ pc \in [Devices -> {"idle", "decided", "opened", "registered", "closing", "closed",
                         "unregistered", "vendor", "wait", "frame", "window"}]
  /\ dying \in [Devices -> BOOLEAN] /\ mDevice \in [Devices -> BOOLEAN]
  /\ mExtension \in [Devices -> BOOLEAN]
  /\ mMemorySlot \in [Devices -> Slots \cup {NoSlot}]
  /\ mMemoryMap \in [Devices -> SUBSET Memories]
  /\ mForeignMemory \in [Devices -> SUBSET Memories]
  /\ client \in [Devices -> SUBSET Memories] /\ frame \in [Devices -> SUBSET Memories]
  /\ sPrimarySessions \in Devices \cup {NoDevice}
  /\ sExtensionSessions \subseteq Devices /\ sSonyClientSessions \subseteq Devices
  /\ sMemorySlots \in [Slots -> Devices \cup {NoDevice}]
  /\ hal \in [Devices -> [on : BOOLEAN, slot : Slots \cup {NoSlot}]]
  /\ memory \in [Memories -> Heaps]

-----------------------------------------------------------------------------
(***************************************************************************)
(* A set of numbers has a least one.                                       *)
(***************************************************************************)
LEMMA MinIsMember ==
  ASSUME NEW S \in SUBSET Nat, S # {}
  PROVE  Min(S) \in S
<1>1. PICK x \in S : \A y \in S : ~(<<y, x>> \in OpToRel(<, Nat))
  BY NatLessThanWellFounded, WFMin
<1>2. \A y \in S : x =< y
  <2> TAKE y \in S
  <2>1. x \in Nat /\ y \in Nat
    OBVIOUS
  <2>2. <<y, x>> \notin OpToRel(<, Nat)
    BY <1>1
  <2>3. ~(y < x)
    BY <2>1, <2>2 DEF OpToRel
  <2>4. QED
    BY <2>1, <2>3
<1>3. QED
  BY <1>2, Zenon DEF Min

(***************************************************************************)
(* An object without a slot finds one: there are as many as objects, and   *)
(* no object has two.                                                      *)
(***************************************************************************)
LEMMA SlotFound ==
  ASSUME IInv, NEW d \in Devices, pc[d] = "opened"
  PROVE  claimMemorySlot \in Slots /\ sMemorySlots[claimMemorySlot] = NoDevice
<1> DEFINE free == {s \in Slots : sMemorySlots[s] = NoDevice}
<1>1. free # {}
  <2> SUFFICES ASSUME free = {} PROVE FALSE
    OBVIOUS
  <2>1. sMemorySlots \in [Slots -> Devices \ {d}]
    <3>1. \A s \in Slots : sMemorySlots[s] # d
      BY DEF IInv, SessionsAgree, UnslottedInv, NoSlot, Slots
    <3>2. sMemorySlots \in [Slots -> Devices \cup {NoDevice}]
      BY DEF IInv, SessionsAgree, TypeOK
    <3>3. QED
      BY <3>1, <3>2
  <2>2. IsFiniteSet(Slots) /\ Cardinality(Slots) = kMaxMemorySlots
    BY SlotsEnough, FS_Interval DEF Slots
  <2>3. IsFiniteSet(Devices \ {d}) /\ Cardinality(Devices \ {d}) < Cardinality(Slots)
    <3>1. Cardinality(Devices) \in Nat
      BY SlotsEnough, FS_CardinalityType
    <3>2. /\ IsFiniteSet(Devices \ {d})
          /\ Cardinality(Devices \ {d}) = Cardinality(Devices) - 1
      BY SlotsEnough, FS_RemoveElement
    <3>3. QED
      BY <2>2, <3>1, <3>2, SlotsEnough
  <2>4. PICK s, r \in Slots : s # r /\ sMemorySlots[s] = sMemorySlots[r]
    BY <2>1, <2>2, <2>3, FS_PigeonHole
  <2>5. mMemorySlot[sMemorySlots[s]] = s /\ mMemorySlot[sMemorySlots[s]] = r
    BY <2>1, <2>4 DEF IInv, SessionsAgree
  <2>6. QED
    BY <2>4, <2>5
<1>2. Min(free) \in free
  <2>1. free \subseteq Nat
    BY DEF Slots
  <2>2. QED
    BY <1>1, <2>1, MinIsMember
<1>3. QED
  BY <1>1, <1>2 DEF claimMemorySlot
-----------------------------------------------------------------------------
(***************************************************************************)
(* Every step of the model keeps the types.                                *)
(***************************************************************************)
LEMMA PreviewStep ==
  ASSUME preview \in [Devices -> Previews], [Next]_vars
  PROVE  preview' \in [Devices -> Previews]
<1> DEFINE Goal == preview' \in [Devices -> Previews]
<1> USE DEF calls, sessions, maps
<1>0. ASSUME NEW d \in Devices, NEW p \in Previews, preview' = [preview EXCEPT ![d] = p]
      PROVE  Goal
  BY <1>0
<1>1. ASSUME NEW d \in Devices, SetCallbacks(d) PROVE Goal
  <2>1. [preview[d] EXCEPT !.pending = FALSE] \in Previews
    BY DEF Previews
  <2>2. \/ preview' = [preview EXCEPT ![d] = [preview[d] EXCEPT !.pending = FALSE]]
        \/ preview' = preview
    BY <1>1 DEF SetCallbacks
  <2>3. QED
    BY <1>0, <2>1, <2>2
<1>2. ASSUME NEW d \in Devices, CloseDevice(d) PROVE Goal
  <2>1. [preview[d] EXCEPT !.vendor = "none", !.running = FALSE] \in Previews
    BY DEF Previews
  <2>2. \/ preview' = [preview EXCEPT ![d] = [preview[d] EXCEPT !.vendor = "none", !.running = FALSE]]
        \/ preview' = preview
    BY <1>2 DEF CloseDevice
  <2>3. QED
    BY <1>0, <2>1, <2>2
<1>3. ASSUME NEW d \in Devices, ClearMaps(d) PROVE Goal
  <2>1. [cleanUpCirculatingBuffers(preview[d]) EXCEPT !.window = NoWindow, !.pending = FALSE, !.frames = 0] \in Previews
    <3> DEFINE empty == cleanUpCirculatingBuffers(preview[d])
    <3>1. empty \in Previews
      BY DEF Previews, cleanUpCirculatingBuffers
    <3> HIDE DEF empty
    <3>2. [empty EXCEPT !.frames = 0] \in Previews
      BY <3>1 DEF Previews
    <3>3. [[empty EXCEPT !.frames = 0] EXCEPT !.window = NoWindow] \in Previews
      BY <3>2 DEF Previews
    <3>4. [[[empty EXCEPT !.frames = 0] EXCEPT !.window = NoWindow] EXCEPT !.pending = FALSE] \in Previews
      BY <3>3 DEF Previews
    <3>5. [empty EXCEPT !.window = NoWindow, !.pending = FALSE, !.frames = 0]
            = [[[empty EXCEPT !.frames = 0] EXCEPT !.window = NoWindow] EXCEPT !.pending = FALSE]
      BY <3>1 DEF Previews
    <3>6. QED
      BY <3>4, <3>5 DEF empty
  <2>2. \/ preview' = [preview EXCEPT ![d] = [cleanUpCirculatingBuffers(preview[d]) EXCEPT !.window = NoWindow, !.pending = FALSE, !.frames = 0]]
        \/ preview' = preview
    BY <1>3 DEF ClearMaps
  <2>3. QED
    BY <1>0, <2>1, <2>2
<1>4. ASSUME NEW d \in Devices, startPreview(d) PROVE Goal
  <2>1. [preview[d] EXCEPT !.running = TRUE] \in Previews
    BY DEF Previews
  <2>2. \/ preview' = [preview EXCEPT ![d] = [preview[d] EXCEPT !.running = TRUE]]
        \/ preview' = preview
    BY <1>4 DEF startPreview
  <2>3. QED
    BY <1>0, <2>1, <2>2
<1>5. ASSUME NEW d \in Devices, stopPreview(d) PROVE Goal
  <2>1. [preview[d] EXCEPT !.running = FALSE] \in Previews
    BY DEF Previews
  <2>2. \/ preview' = [preview EXCEPT ![d] = [preview[d] EXCEPT !.running = FALSE]]
        \/ preview' = preview
    BY <1>5 DEF stopPreview
  <2>3. QED
    BY <1>0, <2>1, <2>2
<1>6. ASSUME NEW d \in Devices, setParameters(d) PROVE Goal
  <2>1. [preview[d] EXCEPT !.frames = 0, !.pending = TRUE] \in Previews
    <3>1. [preview[d] EXCEPT !.frames = 0] \in Previews
      BY DEF Previews
    <3>2. [[preview[d] EXCEPT !.frames = 0] EXCEPT !.pending = TRUE] \in Previews
      BY <3>1 DEF Previews
    <3>3. [preview[d] EXCEPT !.frames = 0, !.pending = TRUE]
            = [[preview[d] EXCEPT !.frames = 0] EXCEPT !.pending = TRUE]
      BY DEF Previews
    <3>4. QED
      BY <3>2, <3>3
  <2>2. \/ preview' = [preview EXCEPT ![d] = [preview[d] EXCEPT !.frames = 0, !.pending = TRUE]]
        \/ preview' = preview
    BY <1>6 DEF setParameters
  <2>3. QED
    BY <1>0, <2>1, <2>2
<1>7. ASSUME NEW d \in Devices, startRecording(d) PROVE Goal
  <2>1. [preview[d] EXCEPT !.pending = FALSE] \in Previews
    BY DEF Previews
  <2>2. \/ preview' = [preview EXCEPT ![d] = [preview[d] EXCEPT !.pending = FALSE]]
        \/ preview' = preview
    BY <1>7, Zenon DEF startRecording
  <2>3. QED
    BY <1>0, <2>1, <2>2
<1>8. ASSUME NEW d \in Devices, WaitEnds(d) PROVE Goal
  <2>1. [preview[d] EXCEPT !.pending = FALSE] \in Previews
    BY DEF Previews
  <2>2. \/ preview' = [preview EXCEPT ![d] = [preview[d] EXCEPT !.pending = FALSE]]
        \/ preview' = preview
    BY <1>8 DEF WaitEnds
  <2>3. QED
    BY <1>0, <2>1, <2>2
<1>9. ASSUME NEW d \in Devices, WindowSet(d) PROVE Goal
  <2>1. [preview[d] EXCEPT !.vendor = "given"] \in Previews
    BY DEF Previews
  <2>2. \/ preview' = [preview EXCEPT ![d] = [preview[d] EXCEPT !.vendor = "given"]]
        \/ preview' = preview
    BY <1>9 DEF WindowSet
  <2>3. QED
    BY <1>0, <2>1, <2>2
<1>10. ASSUME NEW d \in Devices, sSetBufferCount(d) PROVE Goal
  <2>1. [cleanUpCirculatingBuffers(preview[d]) EXCEPT !.vendor = "configured"] \in Previews
    BY DEF Previews, cleanUpCirculatingBuffers
  <2>2. \/ preview' = [preview EXCEPT ![d] = [cleanUpCirculatingBuffers(preview[d]) EXCEPT !.vendor = "configured"]]
        \/ preview' = preview
    BY <1>10 DEF sSetBufferCount, Preview
  <2>3. QED
    BY <1>0, <2>1, <2>2
<1>11. ASSUME NEW d \in Devices, NEW w \in Windows \cup {NoWindow}, setPreviewWindow(d, w) PROVE Goal
  <2>1. [preview[d] EXCEPT !.window = w] \in Previews
    BY DEF Previews
  <2>2. \/ preview' = [preview EXCEPT ![d] = [preview[d] EXCEPT !.window = w]]
        \/ preview' = preview
    BY <1>11 DEF setPreviewWindow
  <2>3. QED
    BY <1>0, <2>1, <2>2
<1>12. ASSUME NEW d \in Devices, NEW b \in Buffers, sDequeueBuffer(d, b) PROVE Goal
  <2>1. PICK w \in Windows \cup {NoWindow} :
          preview' = [preview EXCEPT ![d] = [preview[d] EXCEPT !.circulating[b] = w, !.held = @ \cup {b}]]
    BY <1>12 DEF sDequeueBuffer, Preview, Previews
  <2>2. [preview[d] EXCEPT !.circulating[b] = w] \in Previews
    BY DEF Previews
  <2>3. [preview[d] EXCEPT !.circulating[b] = w, !.held = @ \cup {b}] \in Previews
    <3>1. [[preview[d] EXCEPT !.circulating[b] = w] EXCEPT !.held = @ \cup {b}] \in Previews
      BY <2>2 DEF Previews
    <3>2. [preview[d] EXCEPT !.circulating[b] = w, !.held = @ \cup {b}]
            = [[preview[d] EXCEPT !.circulating[b] = w] EXCEPT !.held = @ \cup {b}]
      BY DEF Previews
    <3>3. QED
      BY <3>1, <3>2
  <2>4. QED
    BY <1>0, <2>1, <2>3
<1>13. ASSUME NEW d \in Devices, NEW b \in Buffers, sEnqueueBuffer(d, b) PROVE Goal
  <2>1. PICK f \in 0..1 :
          preview' = [preview EXCEPT ![d] = [preview[d] EXCEPT !.held = @ \ {b}, !.frames = f]]
    <3>1. preview[d].frames \in 0..1 /\ 1 \in 0..1
      BY DEF Previews
    <3>2. preview' = [preview EXCEPT ![d] = [preview[d] EXCEPT !.held = @ \ {b},
                        !.frames = IF preview[d].window = NoWindow THEN preview[d].frames ELSE 1]]
      BY <1>13 DEF sEnqueueBuffer, Preview
    <3>3. QED
      BY <3>1, <3>2
  <2>2. [preview[d] EXCEPT !.held = @ \ {b}, !.frames = f] \in Previews
    BY DEF Previews
  <2>3. QED
    BY <1>0, <2>1, <2>2
<1>14. ASSUME NEW d \in Devices, NEW b \in Buffers, sCancelBuffer(d, b) PROVE Goal
  <2>1. [preview[d] EXCEPT !.held = @ \ {b}] \in Previews
    BY DEF Previews
  <2>2. \/ preview' = [preview EXCEPT ![d] = [preview[d] EXCEPT !.held = @ \ {b}]]
        \/ preview' = preview
    BY <1>14 DEF sCancelBuffer, Preview
  <2>3. QED
    BY <1>0, <2>1, <2>2
<1>15. ASSUME NEW d \in Devices, OpenDecide(d) PROVE Goal
  BY <1>15 DEF OpenDecide
<1>16. ASSUME NEW d \in Devices, OpenDevice(d) PROVE Goal
  BY <1>16 DEF OpenDevice
<1>17. ASSUME NEW d \in Devices, RegisterExtension(d) PROVE Goal
  BY <1>17 DEF RegisterExtension
<1>18. ASSUME NEW d \in Devices, RegisterPrimary(d) PROVE Goal
  BY <1>18 DEF RegisterPrimary
<1>19. ASSUME NEW d \in Devices, close(d) PROVE Goal
  BY <1>19 DEF close
<1>20. ASSUME NEW d \in Devices, Unregister(d) PROVE Goal
  BY <1>20 DEF Unregister
<1>21. ASSUME NEW d \in Devices, destroy(d) PROVE Goal
  BY <1>21 DEF destroy
<1>22. ASSUME NEW d \in Devices, enableMsgType(d) PROVE Goal
  BY <1>22 DEF enableMsgType, Forward
<1>23. ASSUME NEW d \in Devices, previewEnabled(d) PROVE Goal
  BY <1>23 DEF previewEnabled, Forward
<1>24. ASSUME NEW d \in Devices, storeMetaDataInBuffers(d) PROVE Goal
  BY <1>24 DEF storeMetaDataInBuffers, Forward
<1>25. ASSUME NEW d \in Devices, stopRecording(d) PROVE Goal
  BY <1>25 DEF stopRecording, Forward
<1>26. ASSUME NEW d \in Devices, autoFocus(d) PROVE Goal
  BY <1>26 DEF autoFocus, Forward
<1>27. ASSUME NEW d \in Devices, getParameters(d) PROVE Goal
  BY <1>27 DEF getParameters, Forward
<1>28. ASSUME NEW d \in Devices, sendCommand(d) PROVE Goal
  BY <1>28 DEF sendCommand, Forward
<1>29. ASSUME NEW d \in Devices, dumpState(d) PROVE Goal
  BY <1>29 DEF dumpState, Forward
<1>30. ASSUME NEW d \in Devices, VendorReturns(d) PROVE Goal
  BY <1>30 DEF VendorReturns
<1>31. ASSUME NEW d \in Devices, FrameReleased(d) PROVE Goal
  BY <1>31 DEF FrameReleased
<1>32. ASSUME NEW d \in Devices, NEW m \in Memories, releaseRecordingFrame(d, m) PROVE Goal
  BY <1>32 DEF releaseRecordingFrame
<1>33. ASSUME NEW d \in Devices, NEW m \in Memories, releaseNextFrame(d, m) PROVE Goal
  BY <1>33 DEF releaseNextFrame
<1>34. ASSUME NEW d \in Devices, NEW m \in Memories, sExtDataCb(d, m) PROVE Goal
  BY <1>34 DEF sExtDataCb
<1>35. ASSUME NEW d \in Devices, NEW user \in Devices, NEW m \in Memories, sGetMemory(d, user, m) PROVE Goal
  BY <1>35 DEF sGetMemory
<1>36. ASSUME NEW m \in Memories, sForgetForeignMemory(m) PROVE Goal
  BY <1>36 DEF sForgetForeignMemory
<1>37. ASSUME NEW m \in Memories, sPutMemory(m) PROVE Goal
  BY <1>37 DEF sPutMemory
<1>38. CASE UNCHANGED vars
  BY <1>38 DEF vars
<1>39. QED
  BY <1>1, <1>2, <1>3, <1>4, <1>5, <1>6, <1>7, <1>8, <1>9, <1>10, <1>11, <1>12, <1>13, <1>14, <1>15, <1>16, <1>17, <1>18, <1>19, <1>20, <1>21, <1>22, <1>23, <1>24, <1>25, <1>26, <1>27, <1>28, <1>29, <1>30, <1>31, <1>32, <1>33, <1>34, <1>35, <1>36, <1>37, <1>38, Zenon DEF Next

LEMMA TypesStep == ASSUME IInv, TypesInv, [Next]_vars PROVE TypesInv'
<1> USE DEF TypesInv, Goto, calls, sessions, maps
<1>1. ASSUME NEW d \in Devices, OpenDecide(d) PROVE TypesInv'
  BY <1>1 DEF OpenDecide
<1>2. ASSUME NEW d \in Devices, OpenDevice(d) PROVE TypesInv'
  BY <1>2 DEF OpenDevice
<1>3. ASSUME NEW d \in Devices, RegisterExtension(d) PROVE TypesInv'
  BY <1>3 DEF RegisterExtension
<1>4. ASSUME NEW d \in Devices, RegisterPrimary(d) PROVE TypesInv'
  <2>1. claimMemorySlot \in Slots
    BY <1>4, SlotFound DEF RegisterPrimary
  <2>2. mMemorySlot' \in [Devices -> Slots \cup {NoSlot}]
    BY <1>4, <2>1 DEF RegisterPrimary
  <2>3. sMemorySlots' \in [Slots -> Devices \cup {NoDevice}]
    BY <1>4 DEF RegisterPrimary
  <2>4. sPrimarySessions' \in Devices \cup {NoDevice}
    BY <1>4 DEF RegisterPrimary
  <2>5. pc' \in [Devices -> {"idle", "decided", "opened", "registered", "closing", "closed",
                            "unregistered", "vendor", "wait", "frame", "window"}]
    BY <1>4 DEF RegisterPrimary
  <2>6. UNCHANGED <<dying, mDevice, mExtension, frame, sExtensionSessions, sSonyClientSessions,
                    mMemoryMap, mForeignMemory, client, hal, memory>>
    BY <1>4 DEF RegisterPrimary
  <2>7. QED
    BY <2>2, <2>3, <2>4, <2>5, <2>6
<1>5. ASSUME NEW d \in Devices, SetCallbacks(d) PROVE TypesInv'
  <2>1. PICK slot \in Slots \cup {NoSlot} : hal' = [hal EXCEPT ![d] = [on |-> TRUE, slot |-> slot]]
    BY <1>5 DEF SetCallbacks, memoryCallback
  <2>2. hal' \in [Devices -> [on : BOOLEAN, slot : Slots \cup {NoSlot}]]
    BY <2>1
  <2>3. pc' \in [Devices -> {"idle", "decided", "opened", "registered", "closing", "closed",
                            "unregistered", "vendor", "wait", "frame", "window"}]
    BY <1>5 DEF SetCallbacks
  <2>4. UNCHANGED <<dying, mDevice, mExtension, frame, sPrimarySessions, sExtensionSessions,
                    sSonyClientSessions, sMemorySlots, mMemorySlot, mMemoryMap, mForeignMemory,
                    client, memory>>
    BY <1>5 DEF SetCallbacks
  <2>5. QED
    BY <2>2, <2>3, <2>4
<1>6. ASSUME NEW d \in Devices, close(d) PROVE TypesInv'
  BY <1>6 DEF close
<1>7. ASSUME NEW d \in Devices, CloseDevice(d) PROVE TypesInv'
  BY <1>7 DEF CloseDevice, NoHal
<1>8. ASSUME NEW d \in Devices, Unregister(d) PROVE TypesInv'
  BY <1>8 DEF Unregister
<1>9. ASSUME NEW d \in Devices, ClearMaps(d) PROVE TypesInv'
  BY <1>9 DEF ClearMaps
<1>10. ASSUME NEW d \in Devices, destroy(d) PROVE TypesInv'
  BY <1>10 DEF destroy
<1>11. ASSUME NEW d \in Devices, enableMsgType(d) PROVE TypesInv'
  BY <1>11 DEF enableMsgType, Forward
<1>12. ASSUME NEW d \in Devices, previewEnabled(d) PROVE TypesInv'
  BY <1>12 DEF previewEnabled, Forward
<1>13. ASSUME NEW d \in Devices, storeMetaDataInBuffers(d) PROVE TypesInv'
  BY <1>13 DEF storeMetaDataInBuffers, Forward
<1>14. ASSUME NEW d \in Devices, stopRecording(d) PROVE TypesInv'
  BY <1>14 DEF stopRecording, Forward
<1>15. ASSUME NEW d \in Devices, autoFocus(d) PROVE TypesInv'
  BY <1>15 DEF autoFocus, Forward
<1>16. ASSUME NEW d \in Devices, getParameters(d) PROVE TypesInv'
  BY <1>16 DEF getParameters, Forward
<1>17. ASSUME NEW d \in Devices, sendCommand(d) PROVE TypesInv'
  BY <1>17 DEF sendCommand, Forward
<1>18. ASSUME NEW d \in Devices, dumpState(d) PROVE TypesInv'
  BY <1>18 DEF dumpState, Forward
<1>19. ASSUME NEW d \in Devices, VendorReturns(d) PROVE TypesInv'
  BY <1>19 DEF VendorReturns
<1>20. ASSUME NEW d \in Devices, startPreview(d) PROVE TypesInv'
  BY <1>20 DEF startPreview
<1>21. ASSUME NEW d \in Devices, stopPreview(d) PROVE TypesInv'
  BY <1>21 DEF stopPreview
<1>22. ASSUME NEW d \in Devices, setParameters(d) PROVE TypesInv'
  BY <1>22 DEF setParameters
<1>23. ASSUME NEW d \in Devices, startRecording(d) PROVE TypesInv'
  BY <1>23 DEF startRecording
<1>24. ASSUME NEW d \in Devices, WaitEnds(d) PROVE TypesInv'
  BY <1>24 DEF WaitEnds
<1>25. ASSUME NEW d \in Devices, FrameReleased(d) PROVE TypesInv'
  BY <1>25 DEF FrameReleased
<1>26. ASSUME NEW d \in Devices, WindowSet(d) PROVE TypesInv'
  BY <1>26 DEF WindowSet
<1>27. ASSUME NEW d \in Devices, sSetBufferCount(d) PROVE TypesInv'
  BY <1>27 DEF sSetBufferCount, Preview
<1>28. ASSUME NEW d \in Devices, NEW m \in Memories, releaseRecordingFrame(d, m) PROVE TypesInv'
  BY <1>28 DEF releaseRecordingFrame
<1>29. ASSUME NEW d \in Devices, NEW m \in Memories, releaseNextFrame(d, m) PROVE TypesInv'
  BY <1>29 DEF releaseNextFrame
<1>30. ASSUME NEW d \in Devices, NEW m \in Memories, sExtDataCb(d, m) PROVE TypesInv'
  BY <1>30 DEF sExtDataCb, foreignMemoryId, registerMemory
<1>31. ASSUME NEW d \in Devices, NEW user \in Devices, NEW m \in Memories, sGetMemory(d, user, m) PROVE TypesInv'
  <2> DEFINE object == SessionOf(hal[d].slot, user)
  <2>1. object \in Devices
    BY <1>31 DEF sGetMemory, SessionOf
  <2>2. CameraHeapMemory(object, d) \in Heaps
    BY <2>1 DEF CameraHeapMemory, Heaps
  <2>3. /\ memory' = [memory EXCEPT ![m] = CameraHeapMemory(object, d)]
        /\ client' = [client EXCEPT ![object] = @ \cup {m}]
        /\ mMemoryMap' = [mMemoryMap EXCEPT ![object] = @ \cup {m}]
        /\ UNCHANGED <<pc, dying, mDevice, mExtension, frame, sPrimarySessions, sExtensionSessions,
                       sSonyClientSessions, sMemorySlots, mMemorySlot, mForeignMemory, hal>>
    BY <1>31 DEF sGetMemory, registerMemory
  <2> HIDE DEF object
  <2>4. QED
    BY <2>1, <2>2, <2>3
<1>32. ASSUME NEW d \in Devices, NEW w \in Windows \cup {NoWindow}, setPreviewWindow(d, w) PROVE TypesInv'
  BY <1>32 DEF setPreviewWindow
<1>33. ASSUME NEW d \in Devices, NEW b \in Buffers, sDequeueBuffer(d, b) PROVE TypesInv'
  BY <1>33 DEF sDequeueBuffer, Preview
<1>34. ASSUME NEW d \in Devices, NEW b \in Buffers, sEnqueueBuffer(d, b) PROVE TypesInv'
  BY <1>34 DEF sEnqueueBuffer, Preview
<1>35. ASSUME NEW d \in Devices, NEW b \in Buffers, sCancelBuffer(d, b) PROVE TypesInv'
  BY <1>35 DEF sCancelBuffer, Preview
<1>36. ASSUME NEW m \in Memories, sForgetForeignMemory(m) PROVE TypesInv'
  <2>1. memory' = [memory EXCEPT ![m] = [memory[m] EXCEPT !.state = "forgotten"]]
    BY <1>36 DEF sForgetForeignMemory
  <2>2. [memory[m] EXCEPT !.state = "forgotten"] \in Heaps
    BY DEF Heaps
  <2>3. memory' \in [Memories -> Heaps]
    BY <2>1, <2>2
  <2>4. /\ mForeignMemory' \in [Devices -> SUBSET Memories]
        /\ mMemoryMap' \in [Devices -> SUBSET Memories]
        /\ client' \in [Devices -> SUBSET Memories]
    BY <1>36 DEF sForgetForeignMemory, Forget
  <2>5. UNCHANGED <<pc, dying, mDevice, mExtension, frame, sPrimarySessions, sExtensionSessions,
                    sSonyClientSessions, sMemorySlots, mMemorySlot, hal>>
    BY <1>36 DEF sForgetForeignMemory
  <2>6. QED
    BY <2>3, <2>4, <2>5
<1>37. ASSUME NEW m \in Memories, sPutMemory(m) PROVE TypesInv'
  <2>1. NoMemory \in Heaps
    BY DEF NoMemory, Heaps
  <2>2. QED
    BY <1>37, <2>1 DEF sPutMemory, unregisterMemory
<1>38. CASE UNCHANGED vars
  BY <1>38 DEF vars
<1>39. QED
  BY <1>1, <1>2, <1>3, <1>4, <1>5, <1>6, <1>7, <1>8, <1>9, <1>10, <1>11, <1>12, <1>13, <1>14, <1>15, <1>16, <1>17, <1>18, <1>19, <1>20, <1>21, <1>22, <1>23, <1>24, <1>25, <1>26, <1>27, <1>28, <1>29, <1>30, <1>31, <1>32, <1>33, <1>34, <1>35, <1>36, <1>37, <1>38, Zenon DEF Next

-----------------------------------------------------------------------------
(***************************************************************************)
(* The tables of sessions.  Most steps move a call, or nothing at all.     *)
(***************************************************************************)
TablesInv ==
  /\ sPrimarySessions # NoDevice => InUse(sPrimarySessions) /\ ~mExtension[sPrimarySessions]
  /\ \A d \in sExtensionSessions : InUse(d) /\ mExtension[d]
  /\ \A d \in sSonyClientSessions : InUse(d) /\ ~mExtension[d]
  /\ \A d \in Devices, s \in Slots : sMemorySlots[s] = d <=> mMemorySlot[d] = s
  /\ \A d \in Devices : mMemorySlot[d] # NoSlot => InUse(d) /\ ~mExtension[d]
  /\ \A d \in Devices : IsRegistered(d) =>
       IF mExtension[d] THEN d \in sExtensionSessions ELSE mMemorySlot[d] # NoSlot

CallInv == TablesInv /\ PlaceInv /\ UnslottedInv

NeedsDevice == {"opened", "registered", "closing", "vendor", "wait", "frame", "window"}
NeedsNone == {"decided", "closed", "unregistered"}

LEMMA CallMoves ==
  ASSUME IInv, NEW d \in Devices, NEW l, Goto(d, l),
         UNCHANGED <<sessions, mDevice, mExtension>>,
         pc[d] \notin {"opened", "closed"}, l # "opened",
         l \in NeedsDevice => mDevice[d], l \in NeedsNone => ~mDevice[d]
  PROVE  CallInv'
<1>1. TypeOK /\ TablesInv
  BY DEF IInv, SessionsAgree, TablesInv
<1>2. pc' = [pc EXCEPT ![d] = l]
  BY DEF Goto
<1>3. \A c \in Devices : (InUse(c) => InUse(c)') /\ (IsRegistered(c)' => IsRegistered(c))
  BY <1>1, <1>2 DEF TypeOK, InUse, IsRegistered
<1>4. UNCHANGED <<sPrimarySessions, sExtensionSessions, sSonyClientSessions, sMemorySlots,
                  mMemorySlot, mDevice, mExtension>>
  BY DEF sessions
<1>5. TablesInv'
  BY <1>1, <1>3, <1>4 DEF TypeOK, TablesInv
<1>6. PlaceInv' /\ UnslottedInv'
  BY <1>1, <1>2, <1>4 DEF IInv, PlaceInv, UnslottedInv, NeedsDevice, NeedsNone, TypeOK
<1>7. QED
  BY <1>5, <1>6 DEF CallInv

LEMMA CallsRest ==
  ASSUME IInv, UNCHANGED <<pc, sessions, mDevice, mExtension>>
  PROVE  CallInv'
BY DEF IInv, SessionsAgree, CallInv, TablesInv, PlaceInv, UnslottedInv, InUse, IsRegistered, sessions

LEMMA CallStep == ASSUME IInv, TypeOK', [Next]_vars PROVE CallInv'
<1> USE DEF calls, sessions
<1>0. TypeOK /\ CallInv
  BY DEF IInv, SessionsAgree, CallInv, TablesInv
<1>1. ASSUME NEW d \in Devices, OpenDecide(d) PROVE CallInv'
  <2>1. pc[d] = "idle" /\ ~mDevice[d] /\ pc' = [pc EXCEPT ![d] = "decided"]
    BY <1>1 DEF OpenDecide, Goto
  <2>2. UNCHANGED <<sPrimarySessions, sExtensionSessions, sSonyClientSessions, sMemorySlots,
                    mMemorySlot, mDevice>>
    BY <1>1 DEF OpenDecide
  <2>3. \A c \in Devices : c # d => mExtension'[c] = mExtension[c]
    BY <1>0, <1>1 DEF OpenDecide, TypeOK
  <2>4. ~InUse(d)
    BY <2>1 DEF InUse
  <2>5. \A c \in Devices : (InUse(c)' <=> InUse(c)) /\ (IsRegistered(c)' <=> IsRegistered(c))
    BY <1>0, <2>1, <2>2 DEF InUse, IsRegistered, TypeOK
  <2>6. TablesInv'
    BY <1>0, <2>2, <2>3, <2>4, <2>5 DEF CallInv, TablesInv, TypeOK, InUse, IsRegistered
  <2>7. PlaceInv' /\ UnslottedInv'
    BY <1>0, <2>1, <2>2 DEF CallInv, PlaceInv, UnslottedInv, TypeOK
  <2>8. QED
    BY <2>6, <2>7 DEF CallInv
<1>2. ASSUME NEW d \in Devices, OpenDevice(d) PROVE CallInv'
  <2>1. CASE Goto(d, "idle") /\ UNCHANGED mDevice
    <3>1. UNCHANGED <<sessions, mExtension>> /\ pc[d] = "decided"
      BY <1>2 DEF OpenDevice
    <3>2. QED
      BY <2>1, <3>1, CallMoves DEF NeedsDevice, NeedsNone
  <2>2. CASE mDevice' = [mDevice EXCEPT ![d] = TRUE] /\ Goto(d, "opened")
    <3>1. pc[d] = "decided" /\ ~mDevice[d] /\ pc' = [pc EXCEPT ![d] = "opened"]
      BY <1>0, <2>2, <1>2 DEF OpenDevice, Goto, CallInv, PlaceInv
    <3>2. UNCHANGED <<sPrimarySessions, sExtensionSessions, sSonyClientSessions, sMemorySlots,
                      mMemorySlot, mExtension>>
      BY <1>2 DEF OpenDevice
    <3>3. \A c \in Devices : (InUse(c) => InUse(c)') /\ (IsRegistered(c)' => IsRegistered(c))
      BY <1>0, <2>2, <3>1 DEF InUse, IsRegistered, TypeOK
    <3>4. mMemorySlot[d] = NoSlot
      BY <1>0, <3>1 DEF CallInv, TablesInv, InUse
    <3>5. TablesInv'
      BY <1>0, <3>2, <3>3 DEF CallInv, TablesInv, TypeOK
    <3>6. PlaceInv' /\ UnslottedInv'
      BY <1>0, <2>2, <3>1, <3>2, <3>4 DEF CallInv, PlaceInv, UnslottedInv, TypeOK
    <3>7. QED
      BY <3>5, <3>6 DEF CallInv
  <2>3. QED
    BY <2>1, <2>2, <1>2, Zenon DEF OpenDevice
<1>3. ASSUME NEW d \in Devices, RegisterExtension(d) PROVE CallInv'
  <2>1. pc[d] = "opened" /\ mDevice[d] /\ mExtension[d] /\ pc' = [pc EXCEPT ![d] = "registered"]
    BY <1>0, <1>3 DEF RegisterExtension, Goto, CallInv, PlaceInv
  <2>2. UNCHANGED <<sPrimarySessions, sMemorySlots, mMemorySlot, mDevice, mExtension>>
    BY <1>3 DEF RegisterExtension
  <2>3. /\ sExtensionSessions' = sExtensionSessions \cup {d}
        /\ sSonyClientSessions' = sSonyClientSessions \cup ({sPrimarySessions} \ {NoDevice})
    BY <1>3 DEF RegisterExtension
  <2>4. \A c \in Devices : (InUse(c)' <=> InUse(c)) /\ (c # d => (IsRegistered(c)' <=> IsRegistered(c)))
    BY <1>0, <2>1, <2>2 DEF InUse, IsRegistered, TypeOK
  <2>5. InUse(d)
    BY <2>1 DEF InUse
  <2>6. TablesInv'
    BY <1>0, <2>1, <2>2, <2>3, <2>4, <2>5 DEF CallInv, TablesInv, TypeOK
  <2>7. PlaceInv' /\ UnslottedInv'
    BY <1>0, <2>1, <2>2 DEF CallInv, PlaceInv, UnslottedInv, TypeOK
  <2>8. QED
    BY <2>6, <2>7 DEF CallInv
<1>4. ASSUME NEW d \in Devices, RegisterPrimary(d) PROVE CallInv'
  <2> DEFINE slot == claimMemorySlot
  <2>1. /\ pc[d] = "opened" /\ mDevice[d] /\ ~mExtension[d] /\ mMemorySlot[d] = NoSlot
        /\ pc' = [pc EXCEPT ![d] = "registered"]
    BY <1>0, <1>4 DEF RegisterPrimary, Goto, CallInv, PlaceInv, UnslottedInv
  <2>2. UNCHANGED <<sExtensionSessions, sSonyClientSessions, mDevice, mExtension>>
    BY <1>4 DEF RegisterPrimary
  <2>3. slot \in Slots /\ sMemorySlots[slot] = NoDevice
    BY <2>1, SlotFound
  <2>4. /\ sPrimarySessions' = d
        /\ mMemorySlot' = [mMemorySlot EXCEPT ![d] = slot]
        /\ sMemorySlots' = [s \in Slots |-> IF s = slot THEN d ELSE sMemorySlots[s]]
    BY <1>4 DEF RegisterPrimary
  <2> HIDE DEF slot
  <2>5. \A c \in Devices : (InUse(c)' <=> InUse(c)) /\ (c # d => (IsRegistered(c)' <=> IsRegistered(c)))
    BY <1>0, <2>1, <2>2 DEF InUse, IsRegistered, TypeOK
  <2>6. InUse(d)
    BY <2>1 DEF InUse
  <2>7. \A s \in Slots : s # NoSlot
    BY SlotsEnough DEF Slots, NoSlot
  <2>8. \A c \in Devices, s \in Slots : sMemorySlots'[s] = c <=> mMemorySlot'[c] = s
    <3> TAKE c \in Devices, s \in Slots
    <3>1. CASE c = d
      BY <1>0, <2>1, <2>3, <2>4, <2>7, <3>1 DEF CallInv, TablesInv, TypeOK
    <3>2. CASE c # d
      BY <1>0, <2>3, <2>4, <3>2, NotAmong DEF CallInv, TablesInv, TypeOK
    <3>3. QED
      BY <3>1, <3>2
  <2>9. \A c \in Devices : mMemorySlot'[c] # NoSlot => InUse(c)' /\ ~mExtension'[c]
    BY <1>0, <2>1, <2>2, <2>4, <2>5, <2>6 DEF CallInv, TablesInv, TypeOK
  <2>10. \A c \in Devices : IsRegistered(c)' =>
           IF mExtension'[c] THEN c \in sExtensionSessions' ELSE mMemorySlot'[c] # NoSlot
    BY <1>0, <2>1, <2>2, <2>3, <2>4, <2>5, <2>7 DEF CallInv, TablesInv, TypeOK
  <2>11. /\ InUse(d)' /\ ~mExtension'[d]
         /\ \A c \in sExtensionSessions' : InUse(c)' /\ mExtension'[c]
         /\ \A c \in sSonyClientSessions' : InUse(c)' /\ ~mExtension'[c]
    BY <1>0, <2>1, <2>2, <2>5, <2>6 DEF CallInv, TablesInv, TypeOK
  <2>12. TablesInv'
    BY <2>4, <2>8, <2>9, <2>10, <2>11 DEF TablesInv
  <2>13. PlaceInv' /\ UnslottedInv'
    BY <1>0, <2>1, <2>2, <2>4 DEF CallInv, PlaceInv, UnslottedInv, TypeOK
  <2>14. QED
    BY <2>12, <2>13 DEF CallInv
<1>5. ASSUME NEW d \in Devices, SetCallbacks(d) PROVE CallInv'
  <2>1. Goto(d, "idle") /\ UNCHANGED <<sessions, mDevice, mExtension>>
    BY <1>5 DEF SetCallbacks
  <2>2. pc[d] \notin {"opened", "closed"} /\ mDevice[d]
    BY <1>0, <1>5 DEF SetCallbacks, CallInv, PlaceInv, IsOpen
  <2>3. QED
    BY <2>1, <2>2, CallMoves DEF NeedsDevice, NeedsNone
<1>6. ASSUME NEW d \in Devices, close(d) PROVE CallInv'
  <2>1. PICK l \in {"closing", "closed"} :
          Goto(d, l) /\ (l = "closing" => mDevice[d]) /\ (l = "closed" => ~mDevice[d])
    BY <1>6 DEF close
  <2>2. UNCHANGED <<sessions, mDevice, mExtension>> /\ pc[d] = "idle"
    BY <1>6 DEF close
  <2>3. QED
    BY <2>1, <2>2, CallMoves DEF NeedsDevice, NeedsNone
<1>7. ASSUME NEW d \in Devices, CloseDevice(d) PROVE CallInv'
  <2>1. pc' = [pc EXCEPT ![d] = "closed"] /\ mDevice' = [mDevice EXCEPT ![d] = FALSE]
    BY <1>7 DEF CloseDevice, Goto
  <2>2. UNCHANGED <<sPrimarySessions, sExtensionSessions, sSonyClientSessions, sMemorySlots,
                    mMemorySlot, mExtension>>
    BY <1>7 DEF CloseDevice
  <2>3. \A c \in Devices : (InUse(c) => InUse(c)') /\ (IsRegistered(c)' => IsRegistered(c))
    BY <1>0, <2>1 DEF InUse, IsRegistered, TypeOK
  <2>4. TablesInv'
    BY <1>0, <2>2, <2>3 DEF CallInv, TablesInv, TypeOK
  <2>5. PlaceInv' /\ UnslottedInv'
    BY <1>0, <2>1, <2>2 DEF CallInv, PlaceInv, UnslottedInv, TypeOK
  <2>6. QED
    BY <2>4, <2>5 DEF CallInv
<1>8. ASSUME NEW d \in Devices, Unregister(d) PROVE CallInv'
  <2>1. pc[d] = "closed" /\ ~mDevice[d] /\ pc' = [pc EXCEPT ![d] = "unregistered"]
    BY <1>0, <1>8 DEF Unregister, Goto, CallInv, PlaceInv
  <2>2. UNCHANGED <<mDevice, mExtension>>
    BY <1>8 DEF Unregister
  <2>3. /\ sPrimarySessions' = IF sPrimarySessions = d THEN NoDevice ELSE sPrimarySessions
        /\ sExtensionSessions' = sExtensionSessions \ {d}
        /\ sSonyClientSessions' = sSonyClientSessions \ {d}
        /\ mMemorySlot' = [mMemorySlot EXCEPT ![d] = NoSlot]
    BY <1>8 DEF Unregister
  <2>4. sMemorySlots' = [s \in Slots |-> IF s = mMemorySlot[d] THEN NoDevice ELSE sMemorySlots[s]]
    BY <1>8 DEF Unregister
  <2>5. /\ \A c \in Devices : c # d => (InUse(c)' <=> InUse(c)) /\ (IsRegistered(c)' <=> IsRegistered(c))
        /\ ~IsRegistered(d)'
    BY <1>0, <2>1, <2>2 DEF InUse, IsRegistered, TypeOK
  <2>6. \A s \in Slots : s # NoSlot
    BY SlotsEnough DEF Slots, NoSlot
  <2>7. \A c \in Devices, s \in Slots : sMemorySlots'[s] = c <=> mMemorySlot'[c] = s
    BY <1>0, <2>3, <2>4, <2>6, NotAmong DEF CallInv, TablesInv, TypeOK
  <2>8. TablesInv'
    BY <1>0, <2>2, <2>3, <2>5, <2>7 DEF CallInv, TablesInv, TypeOK
  <2>9. PlaceInv' /\ UnslottedInv'
    BY <1>0, <2>1, <2>2, <2>3 DEF CallInv, PlaceInv, UnslottedInv, TypeOK
  <2>10. QED
    BY <2>8, <2>9 DEF CallInv
<1>9. ASSUME NEW d \in Devices, ClearMaps(d) PROVE CallInv'
  <2>1. pc[d] = "unregistered" /\ ~mDevice[d] /\ pc' = [pc EXCEPT ![d] = "idle"]
    BY <1>0, <1>9 DEF ClearMaps, Goto, CallInv, PlaceInv
  <2>2. UNCHANGED <<sPrimarySessions, sExtensionSessions, sSonyClientSessions, sMemorySlots,
                    mMemorySlot, mDevice>>
    BY <1>9 DEF ClearMaps
  <2>3. \A c \in Devices : c # d => mExtension'[c] = mExtension[c]
    BY <1>0, <1>9 DEF ClearMaps, TypeOK
  <2>4. ~InUse(d)
    BY <2>1 DEF InUse
  <2>5. \A c \in Devices : (InUse(c)' <=> InUse(c)) /\ (IsRegistered(c)' <=> IsRegistered(c))
    BY <1>0, <2>1, <2>2 DEF InUse, IsRegistered, TypeOK
  <2>6. TablesInv'
    BY <1>0, <2>2, <2>3, <2>4, <2>5 DEF CallInv, TablesInv, TypeOK, InUse, IsRegistered
  <2>7. PlaceInv' /\ UnslottedInv'
    BY <1>0, <2>1, <2>2 DEF CallInv, PlaceInv, UnslottedInv, TypeOK
  <2>8. QED
    BY <2>6, <2>7 DEF CallInv
<1>10. ASSUME NEW d \in Devices, destroy(d) PROVE CallInv'
  <2>1. PICK l \in {"closing", "unregistered"} :
          Goto(d, l) /\ (l = "closing" => mDevice[d]) /\ (l = "unregistered" => ~mDevice[d])
    BY <1>10 DEF destroy
  <2>2. UNCHANGED <<sessions, mDevice, mExtension>> /\ pc[d] = "idle"
    BY <1>10 DEF destroy
  <2>3. QED
    BY <2>1, <2>2, CallMoves DEF NeedsDevice, NeedsNone
<1>11. ASSUME NEW d \in Devices, enableMsgType(d) PROVE CallInv'
  <2>1. Goto(d, "vendor") /\ UNCHANGED <<sessions, mDevice, mExtension>>
    BY <1>11 DEF enableMsgType, Forward
  <2>2. pc[d] \notin {"opened", "closed"} /\ mDevice[d]
    BY <1>0, <1>11 DEF enableMsgType, Forward, CallInv, PlaceInv, IsOpen
  <2>3. QED
    BY <2>1, <2>2, CallMoves DEF NeedsDevice, NeedsNone
<1>12. ASSUME NEW d \in Devices, previewEnabled(d) PROVE CallInv'
  <2>1. Goto(d, "vendor") /\ UNCHANGED <<sessions, mDevice, mExtension>>
    BY <1>12 DEF previewEnabled, Forward
  <2>2. pc[d] \notin {"opened", "closed"} /\ mDevice[d]
    BY <1>0, <1>12 DEF previewEnabled, Forward, CallInv, PlaceInv, IsOpen
  <2>3. QED
    BY <2>1, <2>2, CallMoves DEF NeedsDevice, NeedsNone
<1>13. ASSUME NEW d \in Devices, storeMetaDataInBuffers(d) PROVE CallInv'
  <2>1. Goto(d, "vendor") /\ UNCHANGED <<sessions, mDevice, mExtension>>
    BY <1>13 DEF storeMetaDataInBuffers, Forward
  <2>2. pc[d] \notin {"opened", "closed"} /\ mDevice[d]
    BY <1>0, <1>13 DEF storeMetaDataInBuffers, Forward, CallInv, PlaceInv, IsOpen
  <2>3. QED
    BY <2>1, <2>2, CallMoves DEF NeedsDevice, NeedsNone
<1>14. ASSUME NEW d \in Devices, stopRecording(d) PROVE CallInv'
  <2>1. Goto(d, "vendor") /\ UNCHANGED <<sessions, mDevice, mExtension>>
    BY <1>14 DEF stopRecording, Forward
  <2>2. pc[d] \notin {"opened", "closed"} /\ mDevice[d]
    BY <1>0, <1>14 DEF stopRecording, Forward, CallInv, PlaceInv, IsOpen
  <2>3. QED
    BY <2>1, <2>2, CallMoves DEF NeedsDevice, NeedsNone
<1>15. ASSUME NEW d \in Devices, autoFocus(d) PROVE CallInv'
  <2>1. Goto(d, "vendor") /\ UNCHANGED <<sessions, mDevice, mExtension>>
    BY <1>15 DEF autoFocus, Forward
  <2>2. pc[d] \notin {"opened", "closed"} /\ mDevice[d]
    BY <1>0, <1>15 DEF autoFocus, Forward, CallInv, PlaceInv, IsOpen
  <2>3. QED
    BY <2>1, <2>2, CallMoves DEF NeedsDevice, NeedsNone
<1>16. ASSUME NEW d \in Devices, getParameters(d) PROVE CallInv'
  <2>1. Goto(d, "vendor") /\ UNCHANGED <<sessions, mDevice, mExtension>>
    BY <1>16 DEF getParameters, Forward
  <2>2. pc[d] \notin {"opened", "closed"} /\ mDevice[d]
    BY <1>0, <1>16 DEF getParameters, Forward, CallInv, PlaceInv, IsOpen
  <2>3. QED
    BY <2>1, <2>2, CallMoves DEF NeedsDevice, NeedsNone
<1>17. ASSUME NEW d \in Devices, sendCommand(d) PROVE CallInv'
  <2>1. Goto(d, "vendor") /\ UNCHANGED <<sessions, mDevice, mExtension>>
    BY <1>17 DEF sendCommand, Forward
  <2>2. pc[d] \notin {"opened", "closed"} /\ mDevice[d]
    BY <1>0, <1>17 DEF sendCommand, Forward, CallInv, PlaceInv, IsOpen
  <2>3. QED
    BY <2>1, <2>2, CallMoves DEF NeedsDevice, NeedsNone
<1>18. ASSUME NEW d \in Devices, dumpState(d) PROVE CallInv'
  <2>1. Goto(d, "vendor") /\ UNCHANGED <<sessions, mDevice, mExtension>>
    BY <1>18 DEF dumpState, Forward
  <2>2. pc[d] \notin {"opened", "closed"} /\ mDevice[d]
    BY <1>0, <1>18 DEF dumpState, Forward, CallInv, PlaceInv, IsOpen
  <2>3. QED
    BY <2>1, <2>2, CallMoves DEF NeedsDevice, NeedsNone
<1>19. ASSUME NEW d \in Devices, VendorReturns(d) PROVE CallInv'
  <2>1. Goto(d, "idle") /\ UNCHANGED <<sessions, mDevice, mExtension>>
    BY <1>19 DEF VendorReturns
  <2>2. pc[d] \notin {"opened", "closed"} /\ mDevice[d]
    BY <1>0, <1>19 DEF VendorReturns, CallInv, PlaceInv, IsOpen
  <2>3. QED
    BY <2>1, <2>2, CallMoves DEF NeedsDevice, NeedsNone
<1>20. ASSUME NEW d \in Devices, startPreview(d) PROVE CallInv'
  BY <1>20, CallsRest DEF startPreview
<1>21. ASSUME NEW d \in Devices, stopPreview(d) PROVE CallInv'
  <2>1. Goto(d, "vendor") /\ UNCHANGED <<sessions, mDevice, mExtension>>
    BY <1>21 DEF stopPreview
  <2>2. pc[d] \notin {"opened", "closed"} /\ mDevice[d]
    BY <1>0, <1>21 DEF stopPreview, CallInv, PlaceInv, IsOpen
  <2>3. QED
    BY <2>1, <2>2, CallMoves DEF NeedsDevice, NeedsNone
<1>22. ASSUME NEW d \in Devices, setParameters(d) PROVE CallInv'
  BY <1>22, CallsRest DEF setParameters
<1>23. ASSUME NEW d \in Devices, startRecording(d) PROVE CallInv'
  <2>1. PICK l \in {"wait", "vendor"} : Goto(d, l)
    BY <1>23 DEF startRecording
  <2>2. UNCHANGED <<sessions, mDevice, mExtension>> /\ pc[d] = "idle" /\ mDevice[d]
    BY <1>23 DEF startRecording, IsOpen
  <2>3. QED
    BY <2>1, <2>2, CallMoves DEF NeedsDevice, NeedsNone
<1>24. ASSUME NEW d \in Devices, WaitEnds(d) PROVE CallInv'
  <2>1. Goto(d, "vendor") /\ UNCHANGED <<sessions, mDevice, mExtension>>
    BY <1>24 DEF WaitEnds
  <2>2. pc[d] \notin {"opened", "closed"} /\ mDevice[d]
    BY <1>0, <1>24 DEF WaitEnds, CallInv, PlaceInv, IsOpen
  <2>3. QED
    BY <2>1, <2>2, CallMoves DEF NeedsDevice, NeedsNone
<1>25. ASSUME NEW d \in Devices, FrameReleased(d) PROVE CallInv'
  <2>1. Goto(d, "idle") /\ UNCHANGED <<sessions, mDevice, mExtension>>
    BY <1>25 DEF FrameReleased
  <2>2. pc[d] \notin {"opened", "closed"} /\ mDevice[d]
    BY <1>0, <1>25 DEF FrameReleased, CallInv, PlaceInv, IsOpen
  <2>3. QED
    BY <2>1, <2>2, CallMoves DEF NeedsDevice, NeedsNone
<1>26. ASSUME NEW d \in Devices, WindowSet(d) PROVE CallInv'
  <2>1. Goto(d, "idle") /\ UNCHANGED <<sessions, mDevice, mExtension>>
    BY <1>26 DEF WindowSet
  <2>2. pc[d] \notin {"opened", "closed"} /\ mDevice[d]
    BY <1>0, <1>26 DEF WindowSet, CallInv, PlaceInv, IsOpen
  <2>3. QED
    BY <2>1, <2>2, CallMoves DEF NeedsDevice, NeedsNone
<1>27. ASSUME NEW d \in Devices, sSetBufferCount(d) PROVE CallInv'
  BY <1>27, CallsRest DEF sSetBufferCount, Preview
<1>28. ASSUME NEW d \in Devices, NEW m \in Memories, releaseRecordingFrame(d, m) PROVE CallInv'
  <2>1. Goto(d, "frame") /\ UNCHANGED <<sessions, mDevice, mExtension>>
    BY <1>28 DEF releaseRecordingFrame
  <2>2. pc[d] \notin {"opened", "closed"} /\ mDevice[d]
    BY <1>0, <1>28 DEF releaseRecordingFrame, CallInv, PlaceInv, IsOpen
  <2>3. QED
    BY <2>1, <2>2, CallMoves DEF NeedsDevice, NeedsNone
<1>29. ASSUME NEW d \in Devices, NEW m \in Memories, releaseNextFrame(d, m) PROVE CallInv'
  BY <1>29, CallsRest DEF releaseNextFrame
<1>30. ASSUME NEW d \in Devices, NEW m \in Memories, sExtDataCb(d, m) PROVE CallInv'
  BY <1>30, CallsRest DEF sExtDataCb
<1>31. ASSUME NEW d \in Devices, NEW user \in Devices, NEW m \in Memories, sGetMemory(d, user, m) PROVE CallInv'
  BY <1>31, CallsRest DEF sGetMemory
<1>32. ASSUME NEW d \in Devices, NEW w \in Windows \cup {NoWindow}, setPreviewWindow(d, w) PROVE CallInv'
  <2>1. Goto(d, "window") /\ UNCHANGED <<sessions, mDevice, mExtension>>
    BY <1>32 DEF setPreviewWindow
  <2>2. pc[d] \notin {"opened", "closed"} /\ mDevice[d]
    BY <1>0, <1>32 DEF setPreviewWindow, CallInv, PlaceInv, IsOpen
  <2>3. QED
    BY <2>1, <2>2, CallMoves DEF NeedsDevice, NeedsNone
<1>33. ASSUME NEW d \in Devices, NEW b \in Buffers, sDequeueBuffer(d, b) PROVE CallInv'
  BY <1>33, CallsRest DEF sDequeueBuffer, Preview
<1>34. ASSUME NEW d \in Devices, NEW b \in Buffers, sEnqueueBuffer(d, b) PROVE CallInv'
  BY <1>34, CallsRest DEF sEnqueueBuffer, Preview
<1>35. ASSUME NEW d \in Devices, NEW b \in Buffers, sCancelBuffer(d, b) PROVE CallInv'
  BY <1>35, CallsRest DEF sCancelBuffer, Preview
<1>36. ASSUME NEW m \in Memories, sForgetForeignMemory(m) PROVE CallInv'
  BY <1>36, CallsRest DEF sForgetForeignMemory
<1>37. ASSUME NEW m \in Memories, sPutMemory(m) PROVE CallInv'
  BY <1>37, CallsRest DEF sPutMemory
<1>38. CASE UNCHANGED vars
  BY <1>38, CallsRest DEF vars
<1>39. QED
  BY <1>1, <1>2, <1>3, <1>4, <1>5, <1>6, <1>7, <1>8, <1>9, <1>10, <1>11, <1>12, <1>13, <1>14, <1>15, <1>16, <1>17, <1>18, <1>19, <1>20, <1>21, <1>22, <1>23, <1>24, <1>25, <1>26, <1>27, <1>28, <1>29, <1>30, <1>31, <1>32, <1>33, <1>34, <1>35, <1>36, <1>37, <1>38, Zenon DEF Next

-----------------------------------------------------------------------------
LEMMA TypesOf == IInv => TypesInv /\ preview \in [Devices -> Previews]
BY DEF IInv, SessionsAgree, TypeOK, TypesInv, Heaps, Previews

LEMMA InvariantHolds == Spec => []IInv
<1>1. Init => IInv
  <2> SUFFICES ASSUME Init PROVE IInv
    OBVIOUS
  <2>1. TypesInv
    <3>1. NoMemory \in Heaps
      BY DEF NoMemory, Heaps
    <3>2. QED
      BY <3>1 DEF Init, TypesInv, NoHal, NoSlot
  <2>2. preview \in [Devices -> Previews]
    <3>1. NoPreview \in Previews
      BY DEF NoPreview, Previews
    <3>2. QED
      BY <3>1 DEF Init
  <2>3. TypeOK
    BY <2>1, <2>2 DEF TypeOK, TypesInv, Heaps, Previews
  <2>4. \A s \in Slots : s # NoSlot
    BY SlotsEnough DEF Slots, NoSlot
  <2>5. TablesInv /\ PlaceInv /\ UnslottedInv
    BY <2>4, NotAmong DEF Init, TablesInv, PlaceInv, UnslottedInv, InUse, IsRegistered
  <2>6. QED
    BY <2>3, <2>5 DEF IInv, SessionsAgree, TablesInv
<1>2. IInv /\ [Next]_vars => IInv'
  <2> SUFFICES ASSUME IInv, [Next]_vars PROVE IInv'
    OBVIOUS
  <2>1. TypesInv /\ preview \in [Devices -> Previews]
    BY TypesOf
  <2>2. TypesInv' /\ preview' \in [Devices -> Previews]
    BY <2>1, TypesStep, PreviewStep
  <2>3. TypeOK'
    BY <2>2 DEF TypeOK, TypesInv, Heaps, Previews
  <2>4. CallInv'
    BY <2>3, CallStep
  <2>5. QED
    BY <2>3, <2>4 DEF IInv, SessionsAgree, CallInv, TablesInv
<1>3. QED
  BY <1>1, <1>2, PTL DEF Spec

(***************************************************************************)
(* The tables of sessions agree with the objects, however many there are   *)
(* and however their opens and closes interleave (open, closeLocked,       *)
(* claimMemorySlot, releaseMemorySlot).                                    *)
(***************************************************************************)
THEOREM SessionsAlwaysAgree == Spec => []SessionsAgree
<1>1. IInv => SessionsAgree
  BY DEF IInv
<1>2. QED
  BY <1>1, InvariantHolds, PTL

-----------------------------------------------------------------------------
(***************************************************************************)
(* Memory and previews.  Two further invariants stand on the first: what   *)
(* an object and a heap know of one another, and what a window and the     *)
(* vendor's buffers do.                                                    *)
(***************************************************************************)
\* an object that knows no heap yet, nor has any left
Empty(d) == pc[d] \in {"opened", "registered"} \/ (pc[d] \in {"idle", "decided"} /\ ~mDevice[d])

\* What an object's callbacks, maps and frames are.  The vendor keeps a primary
\* session's callbacks from the end of its open to the end of its close, and
\* with them the slot that names the session.
ObjectInv(d) ==
  /\ hal[d].on => mDevice[d] /\ pc[d] \notin {"opened", "registered"}
  /\ hal[d].on /\ ~mExtension[d] => hal[d].slot = mMemorySlot[d]
  /\ Empty(d) => mMemoryMap[d] = {} /\ mForeignMemory[d] = {}
  /\ pc[d] = "opened" => client[d] = {}
  /\ mDevice[d] /\ pc[d] # "opened" => client[d] = mMemoryMap[d]
  /\ ~mExtension[d] => mForeignMemory[d] = {} /\ mMemoryMap[d] = {m \in Memories : memory[m].device = d}
  /\ d \in sExtensionSessions => \A m \in mForeignMemory[d] : memory[m].state = "live"
  /\ frame[d] # {} => pc[d] = "frame"
  /\ ~mExtension[d] => frame[d] \subseteq mMemoryMap[d]

\* A heap is its primary session's until it is given back, from within a call.
HeapInv(m) ==
  LET h == memory[m]
  IN /\ h.device = h.asked
     /\ h # NoMemory => h.asked \in Devices /\ mDevice[h.asked] /\ hal[h.asked].on /\ ~mExtension[h.asked]
     /\ h.state = "forgotten" => pc[h.asked] \in {"vendor", "closing"}

MemoryInv == (\A d \in Devices : ObjectInv(d)) /\ (\A m \in Memories : HeapInv(m))

\* What a preview's window and its vendor's buffers are.
PreviewInv(d) ==
  LET p == preview[d]
  IN /\ p.held # {} => p.vendor = "configured"
     /\ p.vendor # "none" => mDevice[d]
     /\ p.vendor = "configured" /\ pc[d] # "window" =>
          p.window # NoWindow /\ \A b \in Buffers : p.circulating[b] \in {NoWindow, p.window}
     /\ \A b \in p.held : p.circulating[b] # NoWindow

PreviewsInv == \A d \in Devices : PreviewInv(d)

\* an object that a step leaves alone
LEMMA SameObject ==
  ASSUME NEW c \in Devices, ObjectInv(c), UNCHANGED memory,
         UNCHANGED <<pc[c], mDevice[c], mExtension[c], mMemorySlot[c], mMemoryMap[c],
                     mForeignMemory[c], client[c], frame[c], hal[c]>>,
         c \in sExtensionSessions' => c \in sExtensionSessions
  PROVE  ObjectInv(c)'
BY DEF ObjectInv, Empty

\* a heap that a step leaves alone, and its session in the call it is in
LEMMA SameHeap ==
  ASSUME NEW m \in Memories, HeapInv(m), UNCHANGED memory[m],
         memory[m].asked \in Devices =>
           /\ UNCHANGED <<mDevice[memory[m].asked], mExtension[memory[m].asked]>>
           /\ hal[memory[m].asked].on => hal'[memory[m].asked].on
           /\ memory[m].state = "forgotten" /\ pc[memory[m].asked] \in {"vendor", "closing"} =>
                pc'[memory[m].asked] \in {"vendor", "closing"}
  PROVE  HeapInv(m)'
<1> DEFINE h == memory[m]
<1>1. CASE h = NoMemory
  BY <1>1 DEF HeapInv, NoMemory
<1>2. CASE h # NoMemory
  <2>1. h.asked \in Devices /\ mDevice[h.asked] /\ hal[h.asked].on /\ ~mExtension[h.asked]
    BY <1>2 DEF HeapInv
  <2>2. QED
    BY <1>2, <2>1 DEF HeapInv
<1>3. QED
  BY <1>1, <1>2

LEMMA CallMovesOn ==
  ASSUME TypesInv, MemoryInv, NEW d \in Devices, NEW l, Goto(d, l),
         UNCHANGED <<mDevice, mExtension, frame, sessions, maps, hal, memory>>,
         pc[d] \notin {"opened", "registered", "frame"}, l \notin {"opened", "registered"},
         l \in {"idle", "decided"} /\ ~mDevice[d] => pc[d] \in {"idle", "decided"},
         \A m \in Memories : memory[m].asked = d /\ memory[m].state = "forgotten" => l \in {"vendor", "closing"}
  PROVE  MemoryInv'
<1>1. pc'[d] = l /\ \A c \in Devices \ {d} : pc'[c] = pc[c]
  BY DEF TypesInv, Goto
<1>2. UNCHANGED <<mDevice, mExtension, frame, sExtensionSessions, mMemorySlot, mMemoryMap,
                  mForeignMemory, client, hal, memory>>
  BY DEF sessions, maps
<1>3. ASSUME NEW c \in Devices PROVE ObjectInv(c)'
  <2>0. ObjectInv(c)
    BY DEF MemoryInv
  <2>1. CASE c # d
    <3>1. pc'[c] = pc[c]
      BY <1>1, <2>1
    <3>2. QED
      BY <1>2, <2>0, <3>1, SameObject
  <2>2. CASE c = d
    BY <1>1, <1>2, <2>0, <2>2 DEF ObjectInv, Empty
  <2>3. QED
    BY <2>1, <2>2
<1>4. ASSUME NEW m \in Memories PROVE HeapInv(m)'
  <2>1. HeapInv(m)
    BY DEF MemoryInv
  <2>2. memory[m].asked \in Devices /\ memory[m].state = "forgotten" /\ pc[memory[m].asked] \in {"vendor", "closing"} =>
          pc'[memory[m].asked] \in {"vendor", "closing"}
    BY <1>1
  <2>3. QED
    BY <1>2, <2>1, <2>2, SameHeap
<1>5. QED
  BY <1>3, <1>4 DEF MemoryInv

LEMMA NothingMoves ==
  ASSUME MemoryInv,
         UNCHANGED <<pc, mDevice, mExtension, frame, sessions, maps, hal, memory>>
  PROVE  MemoryInv'
<1>1. UNCHANGED <<pc, mDevice, mExtension, frame, sExtensionSessions, mMemorySlot, mMemoryMap,
                  mForeignMemory, client, hal, memory>>
  BY DEF sessions, maps
<1>2. ASSUME NEW c \in Devices PROVE ObjectInv(c)'
  BY <1>1, SameObject DEF MemoryInv
<1>3. ASSUME NEW m \in Memories PROVE HeapInv(m)'
  BY <1>1, SameHeap DEF MemoryInv
<1>4. QED
  BY <1>2, <1>3 DEF MemoryInv

-----------------------------------------------------------------------------
(***************************************************************************)
(* The steps that change an object's place, maps or heaps.                 *)
(***************************************************************************)
LEMMA OneObject ==
  ASSUME MemoryInv, NEW d \in Devices, UNCHANGED memory,
         \A c \in Devices \ {d} :
           /\ UNCHANGED <<pc[c], mDevice[c], mExtension[c], mMemorySlot[c], mMemoryMap[c],
                          mForeignMemory[c], client[c], frame[c], hal[c]>>
           /\ c \in sExtensionSessions' => c \in sExtensionSessions,
         ObjectInv(d)',
         \A m \in Memories : memory[m].asked = d /\ memory[m] # NoMemory =>
           /\ mDevice'[d] /\ hal'[d].on /\ ~mExtension'[d]
           /\ memory[m].state = "forgotten" => pc'[d] \in {"vendor", "closing"}
  PROVE  MemoryInv'
<1>1. ASSUME NEW c \in Devices, c # d PROVE ObjectInv(c)'
  <2>1. /\ UNCHANGED <<pc[c], mDevice[c], mExtension[c], mMemorySlot[c], mMemoryMap[c],
                       mForeignMemory[c], client[c], frame[c], hal[c]>>
        /\ c \in sExtensionSessions' => c \in sExtensionSessions
    BY <1>1
  <2>2. QED
    BY <2>1, SameObject DEF MemoryInv
<1>2. ASSUME NEW m \in Memories PROVE HeapInv(m)'
  <2> DEFINE h == memory[m]
  <2>1. HeapInv(m)
    BY DEF MemoryInv
  <2>2. CASE h = NoMemory
    BY <2>1, <2>2 DEF HeapInv, NoMemory
  <2>3. CASE h # NoMemory /\ h.asked = d
    BY <2>1, <2>3 DEF HeapInv
  <2>4. CASE h # NoMemory /\ h.asked # d
    <3>1. h.asked \in Devices \ {d}
      BY <2>1, <2>4 DEF HeapInv
    <3>2. UNCHANGED <<pc[h.asked], mDevice[h.asked], mExtension[h.asked], hal[h.asked]>>
      BY <3>1
    <3>3. QED
      BY <2>1, <3>2, SameHeap
  <2>5. QED
    BY <2>2, <2>3, <2>4
<1>3. QED
  BY <1>1, <1>2 DEF MemoryInv

\* the vendor has no heap of a session whose callbacks it does not have
LEMMA NoHeapsOff ==
  ASSUME MemoryInv, NEW d \in Devices, ~hal[d].on \/ ~mDevice[d] \/ mExtension[d]
  PROVE  \A m \in Memories : memory[m].asked = d => memory[m] = NoMemory
BY DEF MemoryInv, HeapInv

LEMMA OpenSteps ==
  ASSUME IInv, TypesInv, MemoryInv, NEW d \in Devices,
         OpenDecide(d) \/ OpenDevice(d) \/ RegisterExtension(d) \/ RegisterPrimary(d) \/ SetCallbacks(d)
  PROVE  MemoryInv'
<1> USE DEF Goto, sessions, maps
<1>0. ObjectInv(d) /\ UNCHANGED memory
  BY DEF MemoryInv, OpenDecide, OpenDevice, RegisterExtension, RegisterPrimary, SetCallbacks
<1>1. CASE OpenDecide(d)
  <2>1. pc[d] = "idle" /\ ~mDevice[d] /\ pc' = [pc EXCEPT ![d] = "decided"]
    BY <1>1 DEF OpenDecide
  <2>2. UNCHANGED <<mDevice, mMemorySlot, mMemoryMap, mForeignMemory, client, frame, hal, sExtensionSessions>>
    BY <1>1 DEF OpenDecide
  <2>3. \A c \in Devices \ {d} : UNCHANGED <<pc[c], mExtension[c]>>
    BY <1>1, <2>1 DEF TypesInv, OpenDecide
  <2>4. \A m \in Memories : memory[m].asked = d => memory[m] = NoMemory
    BY <2>1, NoHeapsOff
  <2>5. \A m \in Memories : memory[m].device # d
    BY <2>4, NotAmong DEF MemoryInv, HeapInv, NoMemory
  <2>6. d \notin sExtensionSessions
    BY <2>1 DEF IInv, SessionsAgree, InUse
  <2>7. ObjectInv(d)'
    BY <1>0, <2>1, <2>2, <2>5, <2>6 DEF TypesInv, ObjectInv, Empty
  <2>8. QED
    BY <1>0, <2>2, <2>3, <2>4, <2>7, OneObject
<1>2. CASE OpenDevice(d)
  <2>1. pc[d] = "decided" /\ ~mDevice[d]
    BY <1>2 DEF OpenDevice, IInv, PlaceInv
  <2>2. UNCHANGED <<mExtension, mMemorySlot, mMemoryMap, mForeignMemory, frame, hal, sExtensionSessions>>
    BY <1>2 DEF OpenDevice
  <2>3. \A m \in Memories : memory[m].asked = d => memory[m] = NoMemory
    BY <2>1, NoHeapsOff
  <2>4. CASE pc' = [pc EXCEPT ![d] = "opened"] /\ mDevice' = [mDevice EXCEPT ![d] = TRUE]
             /\ client' = [client EXCEPT ![d] = {}]
    <3>1. \A c \in Devices \ {d} : UNCHANGED <<pc[c], mDevice[c], client[c]>>
      BY <2>4 DEF TypesInv
    <3>2. ObjectInv(d)'
      BY <1>0, <2>1, <2>2, <2>4 DEF TypesInv, ObjectInv, Empty
    <3>3. QED
      BY <1>0, <2>2, <2>3, <3>1, <3>2, OneObject
  <2>5. CASE pc' = [pc EXCEPT ![d] = "idle"] /\ UNCHANGED <<mDevice, client>>
    <3>1. \A c \in Devices \ {d} : UNCHANGED <<pc[c], mDevice[c], client[c]>>
      BY <2>5 DEF TypesInv
    <3>2. ObjectInv(d)'
      BY <1>0, <2>1, <2>2, <2>5 DEF TypesInv, ObjectInv, Empty
    <3>3. QED
      BY <1>0, <2>2, <2>3, <3>1, <3>2, OneObject
  <2>6. QED
    BY <1>2, <2>4, <2>5, Zenon DEF OpenDevice
<1>3. CASE RegisterExtension(d)
  <2>1. pc[d] = "opened" /\ mDevice[d] /\ mExtension[d] /\ pc' = [pc EXCEPT ![d] = "registered"]
    BY <1>3 DEF RegisterExtension, IInv, PlaceInv
  <2>2. UNCHANGED <<mDevice, mExtension, mMemorySlot, mMemoryMap, mForeignMemory, client, frame, hal>>
    BY <1>3 DEF RegisterExtension
  <2>3. sExtensionSessions' = sExtensionSessions \cup {d}
    BY <1>3 DEF RegisterExtension
  <2>4. \A c \in Devices \ {d} : UNCHANGED pc[c]
    BY <2>1 DEF TypesInv
  <2>5. ObjectInv(d)'
    BY <1>0, <2>1, <2>2 DEF TypesInv, ObjectInv, Empty
  <2>6. \A m \in Memories : memory[m].asked = d => memory[m] = NoMemory
    BY <2>1, NoHeapsOff
  <2>7. QED
    BY <1>0, <2>2, <2>3, <2>4, <2>5, <2>6, OneObject
<1>4. CASE RegisterPrimary(d)
  <2>1. pc[d] = "opened" /\ mDevice[d] /\ ~mExtension[d] /\ pc' = [pc EXCEPT ![d] = "registered"]
    BY <1>4 DEF RegisterPrimary, IInv, PlaceInv
  <2>2. UNCHANGED <<mDevice, mExtension, mMemoryMap, mForeignMemory, client, frame, hal, sExtensionSessions>>
    BY <1>4 DEF RegisterPrimary
  <2>3. \A c \in Devices \ {d} : UNCHANGED <<pc[c], mMemorySlot[c]>>
    BY <1>4, <2>1 DEF RegisterPrimary, TypesInv
  <2>4. ~hal[d].on
    BY <1>0, <2>1 DEF ObjectInv
  <2>5. ObjectInv(d)'
    BY <1>0, <2>1, <2>2, <2>4 DEF TypesInv, ObjectInv, Empty
  <2>6. \A m \in Memories : memory[m].asked = d => memory[m] = NoMemory
    BY <2>4, NoHeapsOff
  <2>7. QED
    BY <1>0, <2>2, <2>3, <2>5, <2>6, OneObject
<1>5. CASE SetCallbacks(d)
  <2>1. pc[d] = "registered" /\ mDevice[d] /\ pc' = [pc EXCEPT ![d] = "idle"]
    BY <1>5 DEF SetCallbacks, IInv, PlaceInv
  <2>2. UNCHANGED <<mDevice, mExtension, mMemorySlot, mMemoryMap, mForeignMemory, client, frame, sExtensionSessions>>
    BY <1>5 DEF SetCallbacks
  <2>3. \A c \in Devices \ {d} : UNCHANGED <<pc[c], hal[c]>>
    BY <1>5, <2>1 DEF SetCallbacks, TypesInv
  <2>4. hal'[d].on /\ (~mExtension[d] => hal'[d].slot = mMemorySlot[d])
    BY <1>5 DEF SetCallbacks, TypesInv, memoryCallback
  <2>5. ObjectInv(d)'
    BY <1>0, <2>1, <2>2, <2>4 DEF TypesInv, ObjectInv, Empty
  <2>6. \A m \in Memories : memory[m].asked = d => memory[m] = NoMemory
    BY <1>0, <2>1, NoHeapsOff DEF ObjectInv
  <2>7. QED
    BY <1>0, <2>2, <2>3, <2>5, <2>6, OneObject
<1>6. QED
  BY <1>1, <1>2, <1>3, <1>4, <1>5

LEMMA CloseSteps ==
  ASSUME IInv, TypesInv, MemoryInv, NEW d \in Devices,
         CloseDevice(d) \/ Unregister(d) \/ ClearMaps(d)
  PROVE  MemoryInv'
<1> USE DEF Goto, sessions, maps
<1>0. ObjectInv(d) /\ UNCHANGED memory
  BY DEF MemoryInv, CloseDevice, Unregister, ClearMaps
<1>1. CASE CloseDevice(d)
  <2>1. pc[d] = "closing" /\ pc' = [pc EXCEPT ![d] = "closed"] /\ mDevice' = [mDevice EXCEPT ![d] = FALSE]
    BY <1>1 DEF CloseDevice
  <2>2. UNCHANGED <<mExtension, mMemorySlot, mMemoryMap, mForeignMemory, client, frame, sExtensionSessions>>
    BY <1>1 DEF CloseDevice
  <2>3. \A c \in Devices \ {d} : UNCHANGED <<pc[c], mDevice[c], hal[c]>>
    BY <1>1, <2>1 DEF CloseDevice, TypesInv
  <2>4. ~hal'[d].on
    BY <1>1 DEF CloseDevice, TypesInv, NoHal
  <2>5. ObjectInv(d)'
    BY <1>0, <2>1, <2>2, <2>4 DEF TypesInv, ObjectInv, Empty
  <2>6. \A m \in Memories : memory[m].asked # d
    BY <1>1 DEF CloseDevice
  <2>7. QED
    BY <1>0, <2>2, <2>3, <2>5, <2>6, OneObject
<1>2. CASE Unregister(d)
  <2>1. pc[d] = "closed" /\ ~mDevice[d] /\ pc' = [pc EXCEPT ![d] = "unregistered"]
    BY <1>2 DEF Unregister, IInv, PlaceInv
  <2>2. UNCHANGED <<mDevice, mExtension, mMemoryMap, mForeignMemory, client, frame, hal>>
    BY <1>2 DEF Unregister
  <2>3. \A c \in Devices \ {d} :
          UNCHANGED <<pc[c], mMemorySlot[c]>> /\ (c \in sExtensionSessions' => c \in sExtensionSessions)
    BY <1>2, <2>1 DEF Unregister, TypesInv
  <2>4. d \notin sExtensionSessions'
    BY <1>2 DEF Unregister
  <2>5. ObjectInv(d)'
    BY <1>0, <2>1, <2>2, <2>4 DEF TypesInv, ObjectInv, Empty
  <2>6. \A m \in Memories : memory[m].asked = d => memory[m] = NoMemory
    BY <2>1, NoHeapsOff
  <2>7. QED
    BY <1>0, <2>2, <2>3, <2>5, <2>6, OneObject
<1>3. CASE ClearMaps(d)
  <2>1. pc[d] = "unregistered" /\ ~mDevice[d] /\ pc' = [pc EXCEPT ![d] = "idle"]
    BY <1>3 DEF ClearMaps, IInv, PlaceInv
  <2>2. UNCHANGED <<mDevice, mMemorySlot, frame, hal, sExtensionSessions>>
    BY <1>3 DEF ClearMaps
  <2>3. \A c \in Devices \ {d} :
          UNCHANGED <<pc[c], mExtension[c], mMemoryMap[c], mForeignMemory[c], client[c]>>
    BY <1>3, <2>1 DEF ClearMaps, TypesInv
  <2>4. \A m \in Memories : memory[m].asked = d => memory[m] = NoMemory
    BY <2>1, NoHeapsOff
  <2>5. {m \in Memories : memory[m].device = d} = {}
    BY <2>4, NotAmong DEF MemoryInv, HeapInv, NoMemory
  <2>6. mMemoryMap'[d] = {} /\ mForeignMemory'[d] = {}
    BY <1>0, <1>3, <2>5 DEF ClearMaps, TypesInv, ObjectInv
  <2>7. frame'[d] = {} /\ ~hal'[d].on
    BY <1>0, <2>1, <2>2 DEF ObjectInv
  <2>8. pc'[d] = "idle" /\ ~mDevice'[d]
    BY <2>1, <2>2 DEF TypesInv
  <2>9. ObjectInv(d)'
    BY <1>0, <2>5, <2>6, <2>7, <2>8 DEF ObjectInv, Empty
  <2>10. QED
    BY <1>0, <2>2, <2>3, <2>4, <2>9, OneObject
<1>4. QED
  BY <1>1, <1>2, <1>3

\* a frame that is given back: its heap is a live one's as long as the call is
LEMMA FrameSteps ==
  ASSUME IInv, TypesInv, MemoryInv, NEW d \in Devices,
         \/ \E m \in Memories : releaseRecordingFrame(d, m) \/ releaseNextFrame(d, m)
         \/ FrameReleased(d)
  PROVE  MemoryInv'
<1> USE DEF Goto, sessions, maps
<1>0. ObjectInv(d)
  BY DEF MemoryInv
<1>1. CASE FrameReleased(d)
  <2>1. pc[d] = "frame" /\ mDevice[d] /\ pc' = [pc EXCEPT ![d] = "idle"] /\ frame' = [frame EXCEPT ![d] = {}]
    BY <1>1 DEF FrameReleased, IInv, PlaceInv
  <2>2. UNCHANGED <<mDevice, mExtension, mMemorySlot, mMemoryMap, mForeignMemory, client, hal,
                    sExtensionSessions, memory>>
    BY <1>1 DEF FrameReleased
  <2>3. \A c \in Devices \ {d} : UNCHANGED <<pc[c], frame[c]>>
    BY <2>1 DEF TypesInv
  <2>4. ObjectInv(d)'
    BY <1>0, <2>1, <2>2 DEF TypesInv, ObjectInv, Empty
  <2>5. \A m \in Memories : memory[m].asked = d /\ memory[m] # NoMemory =>
           /\ mDevice'[d] /\ hal'[d].on /\ ~mExtension'[d]
           /\ memory[m].state = "forgotten" => pc'[d] \in {"vendor", "closing"}
    BY <2>1, <2>2 DEF MemoryInv, HeapInv
  <2>6. QED
    BY <2>2, <2>3, <2>4, <2>5, OneObject
<1>2. ASSUME NEW m \in Memories, releaseRecordingFrame(d, m) \/ releaseNextFrame(d, m)
      PROVE  MemoryInv'
  <2>1. /\ pc[d] \in {"idle", "frame"} /\ mDevice[d] /\ m \in mMemoryMap[d]
        /\ pc' = [pc EXCEPT ![d] = "frame"] /\ frame' = [frame EXCEPT ![d] = {m}]
    BY <1>2 DEF releaseRecordingFrame, releaseNextFrame, IsOpen, IInv, PlaceInv, TypesInv
  <2>2. UNCHANGED <<mDevice, mExtension, mMemorySlot, mMemoryMap, mForeignMemory, client, hal,
                    sExtensionSessions, memory>>
    BY <1>2 DEF releaseRecordingFrame, releaseNextFrame
  <2>3. \A c \in Devices \ {d} : UNCHANGED <<pc[c], frame[c]>>
    BY <2>1 DEF TypesInv
  <2>4. ObjectInv(d)'
    BY <1>0, <2>1, <2>2 DEF TypesInv, ObjectInv, Empty
  <2>5. \A x \in Memories : memory[x].asked = d /\ memory[x] # NoMemory =>
           /\ mDevice'[d] /\ hal'[d].on /\ ~mExtension'[d]
           /\ memory[x].state = "forgotten" => pc'[d] \in {"vendor", "closing"}
    BY <2>1, <2>2 DEF MemoryInv, HeapInv
  <2>6. QED
    BY <2>2, <2>3, <2>4, <2>5, OneObject
<1>3. QED
  BY <1>1, <1>2

\* a heap comes to the session that asked for it
LEMMA GetMemoryStep ==
  ASSUME IInv, TypesInv, MemoryInv, NEW d \in Devices, NEW user \in Devices, NEW m \in Memories,
         sGetMemory(d, user, m)
  PROVE  MemoryInv'
<1> DEFINE object == SessionOf(hal[d].slot, user)
<1>0. ObjectInv(d) /\ hal[d].on /\ ~mExtension[d] /\ pc[d] # "closing" /\ memory[m] = NoMemory
  BY DEF MemoryInv, sGetMemory
<1>1. object = d
  <2>1. hal[d].slot = mMemorySlot[d] /\ mDevice[d] /\ pc[d] # "opened"
    BY <1>0 DEF ObjectInv
  <2>2. mMemorySlot[d] # NoSlot /\ mMemorySlot[d] \in Slots
    BY <1>0, <2>1 DEF IInv, SessionsAgree, IsRegistered, TypesInv
  <2>3. sMemorySlots[mMemorySlot[d]] = d
    BY <2>2 DEF IInv, SessionsAgree
  <2>4. QED
    BY <2>1, <2>2, <2>3 DEF SessionOf
<1>2. /\ memory' = [memory EXCEPT ![m] = CameraHeapMemory(d, d)]
      /\ client' = [client EXCEPT ![d] = @ \cup {m}]
      /\ mMemoryMap' = [mMemoryMap EXCEPT ![d] = @ \cup {m}]
  BY <1>1 DEF sGetMemory, registerMemory
<1>3. UNCHANGED <<pc, mDevice, mExtension, mMemorySlot, mForeignMemory, frame, hal, sExtensionSessions>>
  BY DEF sGetMemory, calls, sessions
<1>4. /\ memory'[m].state = "live" /\ memory'[m].device = d /\ memory'[m].asked = d
      /\ \A x \in Memories \ {m} : memory'[x] = memory[x]
  BY <1>2 DEF CameraHeapMemory, TypesInv
<1>5. /\ client'[d] = client[d] \cup {m} /\ mMemoryMap'[d] = mMemoryMap[d] \cup {m}
      /\ \A c \in Devices \ {d} : UNCHANGED <<client[c], mMemoryMap[c]>>
  BY <1>2 DEF TypesInv
<1>6. mDevice[d] /\ pc[d] \notin {"opened", "registered"}
  BY <1>0 DEF ObjectInv
<1>7. ASSUME NEW c \in Devices PROVE ObjectInv(c)'
  <2>1. ObjectInv(c)
    BY DEF MemoryInv
  <2>2. CASE c = d
    <3>1. {x \in Memories : memory'[x].device = d} = {x \in Memories : memory[x].device = d} \cup {m}
      BY <1>4
    <3>2. mMemoryMap'[d] = {x \in Memories : memory'[x].device = d}
      BY <1>0, <1>5, <3>1 DEF ObjectInv
    <3>3. client'[d] = mMemoryMap'[d]
      BY <1>0, <1>5, <1>6 DEF ObjectInv
    <3>4. mForeignMemory[d] = {}
      BY <1>0 DEF ObjectInv
    <3>5. frame[d] \subseteq mMemoryMap'[d] /\ (frame[d] # {} => pc[d] = "frame") /\ hal[d].slot = mMemorySlot[d]
      BY <1>0, <1>5 DEF ObjectInv
    <3>6. QED
      BY <1>0, <1>3, <1>6, <2>2, <3>2, <3>3, <3>4, <3>5 DEF ObjectInv, Empty
  <2>3. CASE c # d
    <3>1. {x \in Memories : memory'[x].device = c} = {x \in Memories : memory[x].device = c}
      BY <1>0, <1>4, <2>3, NotAmong DEF NoMemory
    <3>2. \A x \in Memories : memory[x].state = "live" => memory'[x].state = "live"
      BY <1>4
    <3>3. UNCHANGED <<client[c], mMemoryMap[c]>> /\ mForeignMemory[c] \subseteq Memories
      BY <1>5, <2>3 DEF TypesInv
    <3>4. QED
      BY <1>3, <2>1, <3>1, <3>2, <3>3 DEF ObjectInv, Empty
  <2>4. QED
    BY <2>2, <2>3
<1>8. ASSUME NEW x \in Memories PROVE HeapInv(x)'
  <2>1. CASE x = m
    BY <1>0, <1>3, <1>4, <1>6, <2>1 DEF HeapInv
  <2>2. CASE x # m
    BY <1>3, <1>4, <2>2, SameHeap DEF MemoryInv
  <2>3. QED
    BY <2>1, <2>2
<1>9. QED
  BY <1>7, <1>8 DEF MemoryInv

\* the maps after every extension has forgotten a heap
LEMMA Forgotten ==
  ASSUME TypesInv, MemoryInv, NEW m \in Memories, sForgetForeignMemory(m), NEW c \in Devices
  PROVE  ObjectInv(c)'
<1> DEFINE knew == m \in mForeignMemory[c] /\ c \in sExtensionSessions
<1>0. ObjectInv(c)
  BY DEF MemoryInv
<1>1. UNCHANGED <<pc, mDevice, mExtension, mMemorySlot, frame, hal, sExtensionSessions>>
  BY DEF sForgetForeignMemory, calls, sessions
<1>2. /\ mMemoryMap'[c] = IF knew THEN mMemoryMap[c] \ {m} ELSE mMemoryMap[c]
      /\ client'[c] = IF knew THEN client[c] \ {m} ELSE client[c]
      /\ mForeignMemory'[c] = IF c \in sExtensionSessions THEN mForeignMemory[c] \ {m} ELSE mForeignMemory[c]
  BY DEF sForgetForeignMemory, Forget
<1>3. memory' = [memory EXCEPT ![m] = [memory[m] EXCEPT !.state = "forgotten"]]
  BY DEF sForgetForeignMemory
<1>4. /\ \A x \in Memories : memory'[x].device = memory[x].device
      /\ \A x \in Memories \ {m} : memory'[x] = memory[x]
  BY <1>3 DEF TypesInv, Heaps
<1>5. {x \in Memories : memory'[x].device = c} = {x \in Memories : memory[x].device = c}
  BY <1>4
<1>6. ~mExtension[c] => ~knew
  BY <1>0 DEF ObjectInv
<1>7. c \in sExtensionSessions => \A x \in mForeignMemory'[c] : memory'[x].state = "live"
  BY <1>0, <1>2, <1>4 DEF ObjectInv, TypesInv
<1>8. ~mExtension[c] => /\ mForeignMemory'[c] = {} /\ mMemoryMap'[c] = {x \in Memories : memory'[x].device = c}
                        /\ frame[c] \subseteq mMemoryMap'[c]
  BY <1>0, <1>2, <1>5, <1>6 DEF ObjectInv
<1>9. /\ mDevice[c] /\ pc[c] # "opened" => client'[c] = mMemoryMap'[c]
      /\ pc[c] = "opened" => client'[c] = {}
      /\ Empty(c) => mMemoryMap'[c] = {} /\ mForeignMemory'[c] = {}
  BY <1>0, <1>2 DEF ObjectInv
<1>10. (Empty(c) <=> Empty(c)')
  BY <1>1 DEF Empty
<1>11. QED
  BY <1>0, <1>1, <1>7, <1>8, <1>9, <1>10 DEF ObjectInv

LEMMA ForgetStep ==
  ASSUME TypesInv, MemoryInv, NEW m \in Memories, sForgetForeignMemory(m)
  PROVE  MemoryInv'
<1>1. UNCHANGED <<pc, mDevice, mExtension, hal>>
  BY DEF sForgetForeignMemory, calls
<1>2. memory[m].state = "live" /\ pc[memory[m].asked] \in {"vendor", "closing"}
  BY DEF sForgetForeignMemory
<1>3. memory' = [memory EXCEPT ![m] = [memory[m] EXCEPT !.state = "forgotten"]]
  BY DEF sForgetForeignMemory
<1>4. /\ memory'[m].device = memory[m].device /\ memory'[m].asked = memory[m].asked
      /\ memory[m] # NoMemory
  BY <1>2, <1>3 DEF TypesInv, Heaps, NoMemory
<1>5. \A x \in Memories \ {m} : memory'[x] = memory[x]
  BY <1>3 DEF TypesInv
<1>6. ASSUME NEW x \in Memories PROVE HeapInv(x)'
  <2>1. HeapInv(x)
    BY DEF MemoryInv
  <2>2. CASE x = m
    BY <1>1, <1>2, <1>4, <2>1, <2>2 DEF HeapInv
  <2>3. CASE x # m
    BY <1>1, <1>5, <2>1, <2>3, SameHeap
  <2>4. QED
    BY <2>2, <2>3
<1>7. QED
  BY <1>6, Forgotten DEF MemoryInv

\* a heap goes: its session is in a call of the vendor, not giving a frame back
LEMMA PutStep ==
  ASSUME TypesInv, MemoryInv, NEW m \in Memories, sPutMemory(m)
  PROVE  MemoryInv'
<1> DEFINE d == memory[m].device
<1>1. UNCHANGED <<pc, mDevice, mExtension, mMemorySlot, mForeignMemory, frame, hal, sExtensionSessions>>
  BY DEF sPutMemory, calls, sessions
<1>2. memory[m].state = "forgotten" /\ memory[m] # NoMemory
  BY DEF sPutMemory, NoMemory
<1>3. d \in Devices /\ mDevice[d] /\ ~mExtension[d] /\ pc[d] \in {"vendor", "closing"}
  BY <1>2 DEF MemoryInv, HeapInv
<1>4. /\ client' = [client EXCEPT ![d] = @ \ {m}]
      /\ mMemoryMap' = [mMemoryMap EXCEPT ![d] = @ \ {m}]
      /\ memory' = [memory EXCEPT ![m] = NoMemory]
  BY DEF sPutMemory, unregisterMemory
<1>5. memory'[m] = NoMemory /\ \A x \in Memories \ {m} : memory'[x] = memory[x]
  BY <1>4 DEF TypesInv
<1>6. \A c \in Devices : {x \in Memories : memory'[x].device = c} = {x \in Memories : memory[x].device = c} \ {m}
  BY <1>5, NotAmong DEF NoMemory
<1>7. ASSUME NEW c \in Devices PROVE ObjectInv(c)'
  <2>1. ObjectInv(c)
    BY DEF MemoryInv
  <2>2. CASE c = d
    <3>1. client'[c] = client[c] \ {m} /\ mMemoryMap'[c] = mMemoryMap[c] \ {m}
      BY <1>4, <2>2 DEF TypesInv
    <3>2. frame[c] = {}
      BY <1>3, <2>1, <2>2 DEF ObjectInv
    <3>3. client'[c] = mMemoryMap'[c] /\ mMemoryMap'[c] = {x \in Memories : memory'[x].device = c}
      BY <1>3, <1>6, <2>1, <2>2, <3>1 DEF ObjectInv
    <3>4. mForeignMemory[c] = {}
      BY <1>3, <2>1, <2>2 DEF ObjectInv
    <3>5. QED
      BY <1>1, <1>3, <2>1, <2>2, <3>2, <3>3, <3>4 DEF ObjectInv, Empty
  <2>3. CASE c # d
    <3>1. client'[c] = client[c] /\ mMemoryMap'[c] = mMemoryMap[c]
      BY <1>4, <2>3 DEF TypesInv
    <3>2. {x \in Memories : memory'[x].device = c} = {x \in Memories : memory[x].device = c}
      BY <1>6, <2>3
    <3>3. c \in sExtensionSessions => \A x \in mForeignMemory[c] : memory'[x].state = "live"
      BY <1>2, <1>5, <2>1 DEF ObjectInv, TypesInv
    <3>4. QED
      BY <1>1, <2>1, <3>1, <3>2, <3>3 DEF ObjectInv, Empty
  <2>4. QED
    BY <2>2, <2>3
<1>8. ASSUME NEW x \in Memories PROVE HeapInv(x)'
  <2>1. CASE x = m
    BY <1>5, <2>1 DEF HeapInv, NoMemory
  <2>2. CASE x # m
    BY <1>1, <1>5, <2>2, SameHeap DEF MemoryInv
  <2>3. QED
    BY <2>1, <2>2
<1>9. QED
  BY <1>7, <1>8 DEF MemoryInv

\* a frame's heap becomes known to an extension
LEMMA ExtDataStep ==
  ASSUME TypesInv, MemoryInv, NEW d \in Devices, NEW m \in Memories, sExtDataCb(d, m)
  PROVE  MemoryInv'
<1>1. UNCHANGED <<pc, mDevice, mExtension, mMemorySlot, frame, hal, memory, sExtensionSessions>>
  BY DEF sExtDataCb, calls, sessions
<1>2. hal[d].on /\ mExtension[d] /\ memory[m].state = "live"
  BY DEF sExtDataCb
<1>3. /\ client' = [client EXCEPT ![d] = @ \cup {m}]
      /\ mForeignMemory' = [mForeignMemory EXCEPT ![d] = @ \cup {m}]
      /\ mMemoryMap' = [mMemoryMap EXCEPT ![d] = @ \cup {m}]
  BY DEF sExtDataCb, foreignMemoryId, registerMemory
<1>4. ObjectInv(d)
  BY DEF MemoryInv
<1>5. mDevice[d] /\ pc[d] \notin {"opened", "registered"}
  BY <1>2, <1>4 DEF ObjectInv
<1>6. /\ client'[d] = client[d] \cup {m} /\ mMemoryMap'[d] = mMemoryMap[d] \cup {m}
      /\ mForeignMemory'[d] = mForeignMemory[d] \cup {m}
  BY <1>3 DEF TypesInv
<1>7. \A c \in Devices \ {d} : UNCHANGED <<client[c], mMemoryMap[c], mForeignMemory[c]>>
  BY <1>3 DEF TypesInv
<1>8. ObjectInv(d)'
  BY <1>1, <1>2, <1>4, <1>5, <1>6 DEF ObjectInv, Empty
<1>9. \A x \in Memories : memory[x].asked = d => memory[x] = NoMemory
  BY <1>2, NoHeapsOff
<1>10. QED
  BY <1>1, <1>7, <1>8, <1>9, OneObject

LEMMA MemoryStep == ASSUME IInv, TypesInv, MemoryInv, [Next]_vars PROVE MemoryInv'
<1> USE DEF calls
<1>0. ASSUME NEW d \in Devices PROVE pc[d] \in NeedsDevice => mDevice[d]
  BY DEF IInv, PlaceInv, NeedsDevice
<1>1. ASSUME NEW d \in Devices,
             OpenDecide(d) \/ OpenDevice(d) \/ RegisterExtension(d) \/ RegisterPrimary(d) \/ SetCallbacks(d)
      PROVE  MemoryInv'
  BY <1>1, OpenSteps
<1>2. ASSUME NEW d \in Devices, close(d) \/ destroy(d) PROVE MemoryInv'
  <2>1. pc[d] = "idle" /\ UNCHANGED <<mDevice, mExtension, frame, sessions, maps, hal, memory>>
    BY <1>2 DEF close, destroy
  <2>2. PICK l \in {"closing", "closed", "unregistered"} : Goto(d, l) /\ (mDevice[d] => l = "closing")
    BY <1>2 DEF close, destroy
  <2>3. \A m \in Memories : memory[m].asked = d /\ memory[m].state = "forgotten" => FALSE
    BY <2>1 DEF MemoryInv, HeapInv
  <2>4. QED
    BY <2>1, <2>2, <2>3, CallMovesOn
<1>3. ASSUME NEW d \in Devices, CloseDevice(d) \/ Unregister(d) \/ ClearMaps(d) PROVE MemoryInv'
  BY <1>3, CloseSteps
<1>4. ASSUME NEW d \in Devices,
             \/ enableMsgType(d) \/ previewEnabled(d) \/ storeMetaDataInBuffers(d) \/ stopRecording(d)
             \/ autoFocus(d) \/ getParameters(d) \/ sendCommand(d) \/ dumpState(d) \/ stopPreview(d)
             \/ startRecording(d)
             \/ \E w \in Windows \cup {NoWindow} : setPreviewWindow(d, w)
      PROVE  MemoryInv'
  <2>1. IsOpen(d) /\ UNCHANGED <<mDevice, mExtension, frame, sessions, maps, hal, memory>>
    BY <1>4 DEF enableMsgType, previewEnabled, storeMetaDataInBuffers, stopRecording, autoFocus,
                getParameters, sendCommand, dumpState, stopPreview, startRecording, setPreviewWindow, Forward
  <2>2. PICK l \in {"vendor", "wait", "window"} : Goto(d, l)
    BY <1>4 DEF enableMsgType, previewEnabled, storeMetaDataInBuffers, stopRecording, autoFocus,
                getParameters, sendCommand, dumpState, stopPreview, startRecording, setPreviewWindow, Forward
  <2>3. \A m \in Memories : memory[m].asked = d /\ memory[m].state = "forgotten" => FALSE
    BY <2>1 DEF MemoryInv, HeapInv, IsOpen
  <2>4. pc[d] = "idle"
    BY <2>1 DEF IsOpen
  <2>5. QED
    BY <2>1, <2>2, <2>3, <2>4, CallMovesOn
<1>5. ASSUME NEW d \in Devices, VendorReturns(d) \/ WaitEnds(d) \/ WindowSet(d) PROVE MemoryInv'
  <2>1. /\ pc[d] \in {"vendor", "wait", "window"}
        /\ UNCHANGED <<mDevice, mExtension, frame, sessions, maps, hal, memory>>
    BY <1>5 DEF VendorReturns, WaitEnds, WindowSet
  <2>2. PICK l \in {"vendor", "idle"} : Goto(d, l)
    BY <1>5 DEF VendorReturns, WaitEnds, WindowSet
  <2>3. mDevice[d]
    BY <1>0, <2>1 DEF NeedsDevice
  <2>4. \A m \in Memories : memory[m].asked = d /\ memory[m].state = "forgotten" => FALSE
    BY <1>5 DEF VendorReturns, WaitEnds, WindowSet, MemoryInv, HeapInv
  <2>5. QED
    BY <2>1, <2>2, <2>3, <2>4, CallMovesOn
<1>6. ASSUME NEW d \in Devices,
             \/ startPreview(d) \/ setParameters(d) \/ sSetBufferCount(d)
             \/ \E b \in Buffers : sDequeueBuffer(d, b) \/ sEnqueueBuffer(d, b) \/ sCancelBuffer(d, b)
      PROVE  MemoryInv'
  <2>1. UNCHANGED <<pc, mDevice, mExtension, frame, sessions, maps, hal, memory>>
    BY <1>6 DEF startPreview, setParameters, sSetBufferCount, sDequeueBuffer, sEnqueueBuffer,
                sCancelBuffer, Preview
  <2>2. QED
    BY <2>1, NothingMoves
<1>7. ASSUME NEW d \in Devices,
             \/ \E m \in Memories : releaseRecordingFrame(d, m) \/ releaseNextFrame(d, m)
             \/ FrameReleased(d)
      PROVE  MemoryInv'
  BY <1>7, FrameSteps
<1>8. ASSUME NEW d \in Devices, NEW m \in Memories, sExtDataCb(d, m) PROVE MemoryInv'
  BY <1>8, ExtDataStep
<1>9. ASSUME NEW d \in Devices, NEW user \in Devices, NEW m \in Memories, sGetMemory(d, user, m)
      PROVE  MemoryInv'
  BY <1>9, GetMemoryStep
<1>10. ASSUME NEW m \in Memories, sForgetForeignMemory(m) \/ sPutMemory(m) PROVE MemoryInv'
  BY <1>10, ForgetStep, PutStep
<1>11. CASE UNCHANGED vars
  BY <1>11, NothingMoves DEF vars
<1>12. QED
  BY <1>1, <1>2, <1>3, <1>4, <1>5, <1>6, <1>7, <1>8, <1>9, <1>10, <1>11, Zenon DEF Next

LEMMA MemoryHolds == Spec => []MemoryInv
<1>1. Init => MemoryInv
  <2> SUFFICES ASSUME Init PROVE MemoryInv
    OBVIOUS
  <2>1. \A m \in Memories : memory[m] = NoMemory /\ memory[m].device = NoDevice /\ memory[m].asked = NoDevice
                            /\ memory[m].state = "none"
    BY DEF Init, NoMemory
  <2>2. \A d \in Devices : {m \in Memories : memory[m].device = d} = {}
    BY <2>1, NotAmong
  <2>3. \A d \in Devices : /\ ~hal[d].on /\ ~mDevice[d] /\ pc[d] = "idle" /\ mMemoryMap[d] = {}
                           /\ mForeignMemory[d] = {} /\ frame[d] = {} /\ d \notin sExtensionSessions
    BY DEF Init, NoHal
  <2>4. QED
    BY <2>1, <2>2, <2>3 DEF MemoryInv, ObjectInv, HeapInv, Empty
<1>2. IInv /\ MemoryInv /\ [Next]_vars => MemoryInv'
  BY MemoryStep, TypesOf
<1>3. QED
  BY <1>1, <1>2, InvariantHolds, PTL DEF Spec

(***************************************************************************)
(* Heaps stay with the session that asked for them, whatever the user      *)
(* pointer, through opens, closes and frames under way (sGetMemorySlot,    *)
(* sPutMemory, sForgetForeignMemory, foreignMemoryId, closeLocked).        *)
(***************************************************************************)
THEOREM MemoryAlwaysOwned == Spec => []MemoryOwned
<1>1. IInv /\ MemoryInv => MemoryOwned
  <2> SUFFICES ASSUME IInv, MemoryInv PROVE MemoryOwned
    OBVIOUS
  <2>1. \A m \in Memories : memory[m].device = memory[m].asked
    BY DEF MemoryInv, HeapInv
  <2>2. \A d \in Devices :
          /\ ~mExtension[d] => mMemoryMap[d] = {m \in Memories : memory[m].device = d}
          /\ d \in sExtensionSessions => \A m \in mForeignMemory[d] : memory[m].state = "live"
          /\ mDevice[d] /\ pc[d] # "opened" => client[d] = mMemoryMap[d]
    BY DEF MemoryInv, ObjectInv
  <2>3. sExtensionSessions \subseteq Devices
    BY DEF IInv, SessionsAgree, TypeOK
  <2>4. ASSUME NEW d \in Devices PROVE sDataCb(d) \subseteq client[d]
    <3> SUFFICES ASSUME NEW m \in sDataCb(d) PROVE m \in client[d]
      OBVIOUS
    <3>1. m \in Memories /\ hal[d].on /\ ~mExtension[d] /\ memory[m].asked = d
      BY DEF sDataCb
    <3>2. mDevice[d] /\ pc[d] # "opened"
      BY <3>1 DEF MemoryInv, ObjectInv
    <3>3. QED
      BY <2>1, <2>2, <3>1, <3>2
  <2>5. ASSUME NEW d \in Devices, ~mExtension[d], NEW m \in frame[d] PROVE memory[m] # NoMemory
    <3>1. m \in Memories /\ memory[m].device = d
      BY <2>2, <2>5 DEF MemoryInv, ObjectInv
    <3>2. QED
      BY <3>1, NotAmong DEF NoMemory
  <2>6. QED
    BY <2>1, <2>2, <2>3, <2>4, <2>5 DEF MemoryOwned
<1>2. QED
  BY <1>1, InvariantHolds, MemoryHolds, PTL

-----------------------------------------------------------------------------
(***************************************************************************)
(* Preview windows.  A step leaves an object's preview as it is, or        *)
(* changes it with its call in its place, or both.                         *)
(***************************************************************************)
LEMMA SamePreview ==
  ASSUME NEW c \in Devices, PreviewInv(c), UNCHANGED preview[c],
         mDevice[c] => mDevice'[c], pc[c] = "window" => pc'[c] = "window"
  PROVE  PreviewInv(c)'
BY DEF PreviewInv

LEMMA OnePreview ==
  ASSUME TypesInv, preview \in [Devices -> Previews], PreviewsInv, NEW d \in Devices,
         NEW p, preview' = [preview EXCEPT ![d] = p],
         \A c \in Devices \ {d} : UNCHANGED <<mDevice[c], pc[c]>>,
         PreviewInv(d)'
  PROVE  PreviewsInv'
<1>1. ASSUME NEW c \in Devices, c # d PROVE PreviewInv(c)'
  BY <1>1, SamePreview DEF PreviewsInv
<1>2. QED
  BY <1>1 DEF PreviewsInv

LEMMA PreviewRests ==
  ASSUME TypesInv, PreviewsInv, UNCHANGED preview,
         \A c \in Devices : (mDevice[c] => mDevice'[c]) /\ (pc[c] = "window" => pc'[c] = "window")
  PROVE  PreviewsInv'
BY SamePreview DEF PreviewsInv

\* the window, the vendor's part in it and the buffers it may hold stay
LEMMA WindowStays ==
  ASSUME TypesInv, preview \in [Devices -> Previews], PreviewsInv, NEW d \in Devices,
         NEW p, preview' = [preview EXCEPT ![d] = p],
         p.window = preview[d].window, p.vendor = preview[d].vendor,
         p.circulating = preview[d].circulating, p.held \subseteq preview[d].held,
         UNCHANGED mDevice, pc' = pc \/ (pc[d] # "window" /\ \E l : Goto(d, l))
  PROVE  PreviewsInv'
<1>1. PreviewInv(d) /\ preview'[d] = p
  BY DEF PreviewsInv
<1>2. /\ \A c \in Devices \ {d} : UNCHANGED <<mDevice[c], pc[c]>>
      /\ pc[d] = "window" => pc'[d] = "window"
  BY DEF Goto, TypesInv
<1>3. PreviewInv(d)'
  BY <1>1, <1>2 DEF PreviewInv
<1>4. QED
  BY <1>2, <1>3, OnePreview

LEMMA WindowSteps ==
  ASSUME IInv, TypesInv, preview \in [Devices -> Previews], PreviewsInv, NEW d \in Devices,
         \/ CloseDevice(d) \/ ClearMaps(d) \/ WindowSet(d) \/ sSetBufferCount(d)
         \/ \E w \in Windows \cup {NoWindow} : setPreviewWindow(d, w)
         \/ \E b \in Buffers : sDequeueBuffer(d, b)
  PROVE  PreviewsInv'
<1> DEFINE p == preview[d]
<1>0. PreviewInv(d) /\ p \in Previews
  BY DEF PreviewsInv
<1>1. CASE CloseDevice(d)
  <2>1. p.held = {} /\ preview' = [preview EXCEPT ![d].vendor = "none", ![d].running = FALSE]
    BY <1>1 DEF CloseDevice
  <2>2. \A c \in Devices \ {d} : UNCHANGED <<mDevice[c], pc[c]>>
    BY <1>1 DEF CloseDevice, Goto, TypesInv
  <2>3. preview' = [preview EXCEPT ![d] = [p EXCEPT !.vendor = "none", !.running = FALSE]]
    BY <2>1
  <2>4. preview'[d].held = {} /\ preview'[d].vendor = "none"
    BY <1>0, <2>1, <2>3 DEF Previews
  <2>5. PreviewInv(d)'
    BY <2>4 DEF PreviewInv
  <2>6. QED
    BY <2>2, <2>3, <2>5, OnePreview
<1>2. CASE ClearMaps(d)
  <2>1. ~mDevice[d] /\ UNCHANGED mDevice
    BY <1>2 DEF ClearMaps, IInv, PlaceInv
  <2>2. \A c \in Devices \ {d} : UNCHANGED <<mDevice[c], pc[c]>>
    BY <1>2, <2>1 DEF ClearMaps, Goto, TypesInv
  <2>3. p.vendor = "none" /\ p.held = {}
    BY <1>0, <2>1 DEF PreviewInv
  <2>4. PICK q : /\ preview' = [preview EXCEPT ![d] = q]
                 /\ q = p \/ q = [cleanUpCirculatingBuffers(p) EXCEPT !.window = NoWindow, !.pending = FALSE, !.frames = 0]
    BY <1>2 DEF ClearMaps
  <2>5. q.vendor = "none" /\ q.held = {}
    BY <1>0, <2>3, <2>4 DEF Previews, cleanUpCirculatingBuffers
  <2>6. preview'[d] = q
    BY <2>4
  <2>7. PreviewInv(d)'
    BY <2>5, <2>6 DEF PreviewInv
  <2>8. QED
    BY <2>2, <2>4, <2>7, OnePreview
<1>3. ASSUME NEW w \in Windows \cup {NoWindow}, setPreviewWindow(d, w) PROVE PreviewsInv'
  <2>1. /\ mDevice[d] /\ UNCHANGED mDevice /\ pc' = [pc EXCEPT ![d] = "window"]
        /\ preview' = [preview EXCEPT ![d] = [p EXCEPT !.window = w]]
    BY <1>3 DEF setPreviewWindow, IsOpen, Goto
  <2>2. \A c \in Devices \ {d} : UNCHANGED <<mDevice[c], pc[c]>>
    BY <2>1 DEF TypesInv
  <2>3. /\ preview'[d].held = p.held /\ preview'[d].vendor = p.vendor /\ preview'[d].circulating = p.circulating
        /\ pc'[d] = "window"
    BY <1>0, <2>1 DEF Previews, TypesInv
  <2>4. PreviewInv(d)'
    BY <1>0, <2>1, <2>3 DEF PreviewInv
  <2>5. QED
    BY <2>1, <2>2, <2>4, OnePreview
<1>4. CASE WindowSet(d)
  <2>1. /\ p.held = {} /\ pc[d] = "window" /\ UNCHANGED mDevice
        /\ preview' = [preview EXCEPT ![d] = [p EXCEPT !.vendor = "given"]]
    BY <1>4 DEF WindowSet
  <2>2. \A c \in Devices \ {d} : UNCHANGED <<mDevice[c], pc[c]>>
    BY <1>4 DEF WindowSet, Goto, TypesInv
  <2>3. preview'[d].held = {} /\ preview'[d].vendor = "given"
    BY <1>0, <2>1 DEF Previews
  <2>4. mDevice[d]
    BY <2>1 DEF IInv, PlaceInv
  <2>5. PreviewInv(d)'
    BY <2>1, <2>3, <2>4 DEF PreviewInv
  <2>6. QED
    BY <2>1, <2>2, <2>5, OnePreview
<1>5. CASE sSetBufferCount(d)
  <2>1. /\ p.vendor = "given" /\ p.window # NoWindow /\ pc[d] # "window" /\ UNCHANGED <<mDevice, pc>>
        /\ preview' = [preview EXCEPT ![d] = [cleanUpCirculatingBuffers(p) EXCEPT !.vendor = "configured"]]
    BY <1>5 DEF sSetBufferCount, Preview, calls
  <2>2. p.held = {} /\ mDevice[d]
    BY <1>0, <2>1 DEF PreviewInv
  <2>3. /\ preview'[d].held = {} /\ preview'[d].window = p.window
        /\ \A b \in Buffers : preview'[d].circulating[b] = NoWindow
    BY <1>0, <2>1, <2>2 DEF Previews, cleanUpCirculatingBuffers
  <2>4. PreviewInv(d)'
    BY <2>1, <2>2, <2>3 DEF PreviewInv
  <2>5. QED
    BY <2>1, <2>4, OnePreview
<1>6. ASSUME NEW b \in Buffers, sDequeueBuffer(d, b) PROVE PreviewsInv'
  <2> DEFINE import == IF p.circulating[b] = NoWindow THEN p.window ELSE p.circulating[b]
  <2>1. /\ p.vendor = "configured" /\ p.window # NoWindow /\ pc[d] # "window" /\ UNCHANGED <<mDevice, pc>>
        /\ preview' = [preview EXCEPT ![d] = [p EXCEPT !.circulating[b] = import, !.held = @ \cup {b}]]
    BY <1>6 DEF sDequeueBuffer, Preview, calls
  <2>2. /\ mDevice[d]
        /\ \A x \in Buffers : p.circulating[x] \in {NoWindow, p.window}
        /\ \A x \in p.held : p.circulating[x] # NoWindow
    BY <1>0, <2>1 DEF PreviewInv
  <2>3. import = p.window
    BY <2>2
  <2> HIDE DEF import
  <2>4. /\ preview'[d].held = p.held \cup {b} /\ preview'[d].window = p.window
        /\ preview'[d].vendor = p.vendor
        /\ preview'[d].circulating = [p.circulating EXCEPT ![b] = import]
    BY <1>0, <2>1 DEF Previews
  <2>5. /\ preview'[d].circulating[b] = p.window
        /\ \A x \in Buffers \ {b} : preview'[d].circulating[x] = p.circulating[x]
    BY <1>0, <2>3, <2>4 DEF Previews
  <2>6. p.held \subseteq Buffers
    BY <1>0 DEF Previews
  <2>7. PreviewInv(d)'
    BY <2>1, <2>2, <2>4, <2>5, <2>6 DEF PreviewInv
  <2>8. QED
    BY <2>1, <2>7, OnePreview
<1>7. QED
  BY <1>1, <1>2, <1>3, <1>4, <1>5, <1>6

LEMMA PreviewsStep == ASSUME IInv, PreviewsInv, [Next]_vars PROVE PreviewsInv'
<1> USE DEF calls
<1>0. TypesInv /\ preview \in [Devices -> Previews]
  BY TypesOf
<1>1. ASSUME NEW d \in Devices,
             \/ CloseDevice(d) \/ ClearMaps(d) \/ WindowSet(d) \/ sSetBufferCount(d)
             \/ \E w \in Windows \cup {NoWindow} : setPreviewWindow(d, w)
             \/ \E b \in Buffers : sDequeueBuffer(d, b)
      PROVE  PreviewsInv'
  BY <1>0, <1>1, WindowSteps
<1>2. ASSUME NEW d \in Devices,
             SetCallbacks(d) \/ startPreview(d) \/ stopPreview(d) \/ setParameters(d) \/ startRecording(d)
             \/ WaitEnds(d) \/ \E b \in Buffers : sEnqueueBuffer(d, b) \/ sCancelBuffer(d, b)
      PROVE  PreviewsInv'
  <2> DEFINE p == preview[d]
  <2>1. UNCHANGED mDevice /\ (pc' = pc \/ (pc[d] # "window" /\ \E l : Goto(d, l)))
    BY <1>2 DEF SetCallbacks, startPreview, stopPreview, setParameters, startRecording, WaitEnds,
                sEnqueueBuffer, sCancelBuffer, Preview, IsOpen
  <2> DEFINE Kept(q) == /\ q.window = p.window /\ q.vendor = p.vendor
                        /\ q.circulating = p.circulating /\ q.held \subseteq p.held
  <2>2. p \in Previews /\ Kept(p) /\ preview = [preview EXCEPT ![d] = p]
    BY <1>0
  <2>3. PICK q : preview' = [preview EXCEPT ![d] = q] /\ Kept(q)
    <3>1. ASSUME NEW b \in Buffers, sEnqueueBuffer(d, b) \/ sCancelBuffer(d, b)
          PROVE  \E q : preview' = [preview EXCEPT ![d] = q] /\ Kept(q)
      <4>1. CASE sEnqueueBuffer(d, b)
        <5>1. PICK n : preview' = [preview EXCEPT ![d] = [p EXCEPT !.held = @ \ {b}, !.frames = n]]
          BY <4>1 DEF sEnqueueBuffer, Preview
        <5>2. Kept([p EXCEPT !.held = @ \ {b}, !.frames = n])
          BY <2>2 DEF Previews
        <5>3. QED
          BY <5>1, <5>2
      <4>2. CASE sCancelBuffer(d, b)
        <5>1. preview' = [preview EXCEPT ![d] = [p EXCEPT !.held = @ \ {b}]]
          BY <4>2 DEF sCancelBuffer, Preview
        <5>2. Kept([p EXCEPT !.held = @ \ {b}])
          BY <2>2 DEF Previews
        <5>3. QED
          BY <5>1, <5>2
      <4>3. QED
        BY <3>1, <4>1, <4>2
    <3>2. CASE startPreview(d) \/ stopPreview(d)
      <4>1. PICK f : preview' = [preview EXCEPT ![d] = [p EXCEPT !.running = f]]
        BY <3>2 DEF startPreview, stopPreview
      <4>2. Kept([p EXCEPT !.running = f])
        BY <2>2 DEF Previews
      <4>3. QED
        BY <4>1, <4>2
    <3>3. CASE setParameters(d)
      <4>1. preview' = [preview EXCEPT ![d] = [p EXCEPT !.frames = 0, !.pending = TRUE]]
        BY <3>3 DEF setParameters
      <4>2. Kept([p EXCEPT !.frames = 0, !.pending = TRUE])
        BY <2>2 DEF Previews
      <4>3. QED
        BY <4>1, <4>2
    <3>4. CASE SetCallbacks(d) \/ startRecording(d) \/ WaitEnds(d)
      <4>1. \/ preview' = preview
            \/ preview' = [preview EXCEPT ![d] = [p EXCEPT !.pending = FALSE]]
        BY <3>4, Zenon DEF SetCallbacks, startRecording, WaitEnds
      <4>2. Kept([p EXCEPT !.pending = FALSE])
        BY <2>2 DEF Previews
      <4>3. QED
        BY <2>2, <4>1, <4>2
    <3>5. QED
      BY <1>2, <3>1, <3>2, <3>3, <3>4
  <2>4. QED
    BY <1>0, <2>1, <2>3, WindowStays
<1>3. ASSUME NEW d \in Devices,
             \/ OpenDecide(d) \/ OpenDevice(d) \/ RegisterExtension(d) \/ RegisterPrimary(d)
             \/ close(d) \/ Unregister(d) \/ destroy(d)
             \/ enableMsgType(d) \/ previewEnabled(d) \/ storeMetaDataInBuffers(d) \/ stopRecording(d)
             \/ autoFocus(d) \/ getParameters(d) \/ sendCommand(d) \/ dumpState(d) \/ VendorReturns(d)
             \/ FrameReleased(d) \/ \E m \in Memories : releaseRecordingFrame(d, m)
      PROVE  PreviewsInv'
  <2>1. UNCHANGED preview /\ pc[d] # "window" /\ \E l : Goto(d, l)
    BY <1>3 DEF OpenDecide, OpenDevice, RegisterExtension, RegisterPrimary, close, Unregister, destroy,
                enableMsgType, previewEnabled, storeMetaDataInBuffers, stopRecording, autoFocus,
                getParameters, sendCommand, dumpState, VendorReturns, FrameReleased,
                releaseRecordingFrame, Forward, IsOpen
  <2>2. mDevice' = mDevice \/ mDevice' = [mDevice EXCEPT ![d] = TRUE]
    BY <1>3 DEF OpenDecide, OpenDevice, RegisterExtension, RegisterPrimary, close, Unregister, destroy,
                enableMsgType, previewEnabled, storeMetaDataInBuffers, stopRecording, autoFocus,
                getParameters, sendCommand, dumpState, VendorReturns, FrameReleased,
                releaseRecordingFrame, Forward
  <2>3. \A c \in Devices : (mDevice[c] => mDevice'[c]) /\ (pc[c] = "window" => pc'[c] = "window")
    BY <1>0, <2>1, <2>2 DEF TypesInv, Goto
  <2>4. QED
    BY <1>0, <2>1, <2>3, PreviewRests
<1>4. ASSUME \/ \E d \in Devices, m \in Memories : releaseNextFrame(d, m) \/ sExtDataCb(d, m)
             \/ \E d \in Devices, user \in Devices, m \in Memories : sGetMemory(d, user, m)
             \/ \E m \in Memories : sForgetForeignMemory(m) \/ sPutMemory(m)
             \/ UNCHANGED vars
      PROVE  PreviewsInv'
  <2>1. UNCHANGED <<pc, mDevice, preview>>
    BY <1>4 DEF releaseNextFrame, sExtDataCb, sGetMemory, sForgetForeignMemory, sPutMemory, vars
  <2>2. QED
    BY <1>0, <2>1, PreviewRests
<1>5. QED
  BY <1>1, <1>2, <1>3, <1>4, Zenon DEF Next

(***************************************************************************)
(* Every buffer that the vendor holds is found, and in a window's use is   *)
(* that window's, whatever windows come and go (sSetPreviewWindow's        *)
(* callbacks, cleanUpCirculatingBuffers, closeLocked).                     *)
(***************************************************************************)
THEOREM BuffersAlwaysKnown == Spec => []BuffersKnown
<1>1. Init => PreviewsInv
  BY DEF Init, PreviewsInv, PreviewInv, NoPreview
<1>2. IInv /\ PreviewsInv /\ [Next]_vars => PreviewsInv'
  BY PreviewsStep
<1>3. IInv /\ PreviewsInv => BuffersKnown
  <2> SUFFICES ASSUME PreviewsInv, preview \in [Devices -> Previews],
                      NEW d \in Devices, NEW b \in preview[d].held
               PROVE  /\ preview[d].circulating[b] # NoWindow
                      /\ preview[d].vendor = "configured" /\ pc[d] # "window" =>
                           preview[d].circulating[b] = preview[d].window
    BY TypesOf DEF BuffersKnown
  <2>1. b \in Buffers
    BY DEF Previews
  <2>2. QED
    BY <2>1 DEF PreviewsInv, PreviewInv
<1>4. QED
  BY <1>1, <1>2, <1>3, InvariantHolds, PTL DEF Spec
-----------------------------------------------------------------------------
(* Parameters.  A stage of a translation changes a few keys; what a client *)
(* may set is read back through the stages that touch it.                  *)

\* p and q differ in keys only
Only(p, q, keys) ==
  \A k : k \notin keys =>
    /\ k \in DOMAIN q <=> k \in DOMAIN p
    /\ k \in DOMAIN p => q[k] = p[k]

LEMMA SetOnly ==
  ASSUME NEW p, NEW key, NEW value
  PROVE  /\ key \in DOMAIN set(p, key, value) /\ set(p, key, value)[key] = value
         /\ Only(p, set(p, key, value), {key})
BY DEF set, Only

LEMMA OnlyItself == ASSUME NEW p, NEW keys PROVE Only(p, p, keys)
BY DEF Only


LEMMA IsoCut ==
  ASSUME NEW S, "ISO" \in S, NEW iso \in Seq(S)
  PROVE  Tail(<<"ISO">> \o iso) = iso /\ <<"ISO">> \o iso # auto
<1> DEFINE one == <<"ISO">>
           t == one \o iso
<1>1. one \in Seq(S) /\ Len(one) = 1 /\ one[1] = "ISO"
  OBVIOUS
<1> HIDE DEF one
<1>2. /\ t \in Seq(S) /\ Len(t) = Len(iso) + 1 /\ Len(iso) \in Nat
      /\ \A i \in 1 .. Len(t) : t[i] = IF i <= 1 THEN one[i] ELSE iso[i - 1]
  <2>1. t \in Seq(S) /\ Len(t) = Len(one) + Len(iso)
        /\ \A i \in 1 .. Len(one) + Len(iso) : t[i] = IF i <= Len(one) THEN one[i] ELSE iso[i - Len(one)]
    BY <1>1, ConcatProperties
  <2>2. Len(iso) \in Nat
    BY LenProperties
  <2>3. QED
    BY <1>1, <2>1, <2>2
<1> HIDE DEF t
<1>3. t[1] = "ISO" /\ t # <<>>
  BY <1>1, <1>2
<1>4. \A i \in 1 .. Len(iso) : t[i + 1] = iso[i]
  BY <1>2
<1>5. /\ Tail(t) \in Seq(S) /\ Len(Tail(t)) = Len(t) - 1
      /\ \A i \in 1 .. Len(Tail(t)) : Tail(t)[i] = t[i + 1]
  BY <1>2, <1>3, HeadTailProperties
<1>6. Tail(t) = iso
  BY <1>2, <1>4, <1>5, SeqEqual
<1>7. auto[1] = "auto"
  BY DEF auto
<1>8. t # auto
  BY <1>3, <1>7
<1>9. QED
  BY <1>6, <1>8 DEF t, one

LEMMA WordsDiffer ==
  /\ auto # <<"iso-prio">> /\ auto # <<"shutter-prio">> /\ auto # <<"manual">>
  /\ <<"iso-prio">> # <<"shutter-prio">> /\ <<"iso-prio">> # <<"manual">>
  /\ <<"shutter-prio">> # <<"manual">>
  /\ hdr # auto /\ still_hdr # on /\ <<"true">> # <<>> /\ <<"true">> # <<"false">>
  /\ \A speed \in Speeds : speed # auto /\ speed # <<>>
BY DEF auto, hdr, still_hdr, on, Speeds

\* the stages of fixupSetParameters and what each may change
LEMMA Takes ==
  ASSUME NEW p
  PROVE  /\ Only(p, TakesShutterSpeed(p), {"sony-shutter-speed", "sony-ae-mode"})
         /\ Only(p, TakesIso(p), {"sony-iso", "sony-ae-mode"})
         /\ Only(p, TakesScene(p), {"sony-is", "scene-mode"})
         /\ Only(p, TakesVideoHdr(p), {"sony-video-hdr"})
         /\ Only(p, TakesRecordingHint(p), {"sony-is", "sony-vs"})
<1>1. \A key, value : Only(p, set(p, key, value), {key})
  BY SetOnly
<1>2. \A k1, v1, k2, v2 : Only(p, set(set(p, k1, v1), k2, v2), {k1, k2})
  BY DEF set, Only
<1>3. Only(p, TakesShutterSpeed(p), {"sony-shutter-speed", "sony-ae-mode"})
  <2>1. \A v : Only(p, set(p, "sony-ae-mode", v), {"sony-shutter-speed", "sony-ae-mode"})
    BY <1>1 DEF Only
  <2>2. Only(p, p, {"sony-shutter-speed", "sony-ae-mode"})
    BY OnlyItself
  <2>3. QED
    BY <1>2, <2>1, <2>2 DEF TakesShutterSpeed
<1>4. Only(p, TakesIso(p), {"sony-iso", "sony-ae-mode"})
  <2>1. \A v : /\ Only(p, set(p, "sony-ae-mode", v), {"sony-iso", "sony-ae-mode"})
               /\ Only(p, set(p, "sony-iso", v), {"sony-iso", "sony-ae-mode"})
    BY <1>1 DEF Only
  <2>2. Only(p, p, {"sony-iso", "sony-ae-mode"})
    BY OnlyItself
  <2>3. QED
    BY <1>2, <2>1, <2>2 DEF TakesIso
<1>5. Only(p, TakesScene(p), {"sony-is", "scene-mode"})
  <2>1. \A v : Only(p, set(p, "sony-is", v), {"sony-is", "scene-mode"})
    BY <1>1 DEF Only
  <2>2. Only(p, p, {"sony-is", "scene-mode"})
    BY OnlyItself
  <2>3. QED
    BY <1>2, <2>1, <2>2 DEF TakesScene
<1>6. Only(p, TakesVideoHdr(p), {"sony-video-hdr"})
  BY <1>1, OnlyItself DEF TakesVideoHdr
<1>7. Only(p, TakesRecordingHint(p), {"sony-is", "sony-vs"})
  BY <1>2, OnlyItself DEF TakesRecordingHint
<1>8. QED
  BY <1>3, <1>4, <1>5, <1>6, <1>7

\* and those of fixupGetParameters
LEMMA Shows ==
  ASSUME NEW p
  PROVE  /\ Only(p, OffersHdr(p), {"scene-mode-values"})
         /\ Only(p, OffersIso(p), {"iso-values"})
         /\ Only(p, ShowsHdr(p), {"scene-mode"})
         /\ Only(p, ShowsVideoHdr(p), {"video-hdr-values", "video-hdr"})
         /\ Only(p, ShowsExposure(p), {"iso", "shutter-speed"})
<1>1. \A key, value : Only(p, set(p, key, value), {key})
  BY SetOnly
<1>2. \A k1, v1, k2, v2 : Only(p, set(set(p, k1, v1), k2, v2), {k1, k2})
  BY DEF set, Only
<1>3. Only(p, OffersHdr(p), {"scene-mode-values"})
  BY <1>1, OnlyItself DEF OffersHdr
<1>4. Only(p, OffersIso(p), {"iso-values"})
  BY <1>1, OnlyItself DEF OffersIso
<1>5. Only(p, ShowsHdr(p), {"scene-mode"})
  BY <1>1, OnlyItself DEF ShowsHdr
<1>6. Only(p, ShowsVideoHdr(p), {"video-hdr-values", "video-hdr"})
  BY <1>2, OnlyItself DEF ShowsVideoHdr
<1>7. Only(p, ShowsExposure(p), {"iso", "shutter-speed"})
  <2>1. \A v : Only(p, set(p, "iso", v), {"iso", "shutter-speed"})
    BY <1>1 DEF Only
  <2>2. Only(p, p, {"iso", "shutter-speed"})
    BY OnlyItself
  <2>3. QED
    BY <1>2, <2>1, <2>2 DEF ShowsExposure
<1>8. QED
  BY <1>3, <1>4, <1>5, <1>6, <1>7

\* what a client of a camera with exposure control may have set
Exposed(p) ==
  /\ {"iso", "shutter-speed", "sony-iso", "sony-ae-mode-values"} \subseteq DOMAIN p
  /\ p["sony-ae-mode-values"] = AeModes
  /\ p["iso"] # auto => p["iso"] = <<"ISO">> \o Tail(p["iso"])
AeMode(p) ==
  IF p["iso"] = auto THEN IF p["shutter-speed"] = auto THEN auto ELSE <<"shutter-prio">>
  ELSE IF p["shutter-speed"] = auto THEN <<"iso-prio">> ELSE <<"manual">>
\* what the library is then told
Told(p, q) ==
  /\ {"sony-iso", "sony-ae-mode-values", "sony-ae-mode"} \subseteq DOMAIN q
  /\ q["sony-ae-mode"] = AeMode(p)
  /\ p["iso"] # auto => q["sony-iso"] = Tail(p["iso"])
  /\ p["shutter-speed"] # auto =>
       "sony-shutter-speed" \in DOMAIN q /\ q["sony-shutter-speed"] = p["shutter-speed"]

LEMMA ShutterTold ==
  ASSUME NEW p, Exposed(p)
  PROVE  LET r == TakesShutterSpeed(p)
         IN /\ {"iso", "shutter-speed", "sony-iso", "sony-ae-mode-values", "sony-ae-mode"} \subseteq DOMAIN r
            /\ r["iso"] = p["iso"] /\ r["shutter-speed"] = p["shutter-speed"]
            /\ r["sony-ae-mode-values"] = AeModes
            /\ IF p["shutter-speed"] = auto THEN r["sony-ae-mode"] = auto
               ELSE /\ r["sony-ae-mode"] = <<"shutter-prio">>
                    /\ "sony-shutter-speed" \in DOMAIN r
                    /\ r["sony-shutter-speed"] = p["shutter-speed"]
<1> DEFINE r == TakesShutterSpeed(p)
<1>1. Only(p, r, {"sony-shutter-speed", "sony-ae-mode"})
  BY Takes
<1>2. CASE p["shutter-speed"] = auto
  <2>1. r = set(p, "sony-ae-mode", auto)
    BY <1>2 DEF Exposed, TakesShutterSpeed, has, contains, AeModes
  <2> HIDE DEF r
  <2>2. "sony-ae-mode" \in DOMAIN r /\ r["sony-ae-mode"] = auto
    BY <2>1 DEF set
  <2>3. QED
    BY <1>1, <1>2, <2>2 DEF Exposed, Only, r
<1>3. CASE p["shutter-speed"] # auto
  <2>1. r = set(set(p, "sony-shutter-speed", p["shutter-speed"]), "sony-ae-mode", <<"shutter-prio">>)
    BY <1>3 DEF Exposed, TakesShutterSpeed, has
  <2> HIDE DEF r
  <2>2. /\ "sony-ae-mode" \in DOMAIN r /\ r["sony-ae-mode"] = <<"shutter-prio">>
        /\ "sony-shutter-speed" \in DOMAIN r /\ r["sony-shutter-speed"] = p["shutter-speed"]
    BY <2>1 DEF set
  <2>3. QED
    BY <1>1, <1>3, <2>2 DEF Exposed, Only, r
<1>4. QED
  BY <1>2, <1>3

LEMMA ExposureTold ==
  ASSUME NEW p, Exposed(p)
  PROVE  Told(p, TakesIso(TakesShutterSpeed(p)))
<1> DEFINE r == TakesShutterSpeed(p)
           q == TakesIso(r)
<1>1. /\ {"iso", "shutter-speed", "sony-iso", "sony-ae-mode-values", "sony-ae-mode"} \subseteq DOMAIN r
      /\ r["iso"] = p["iso"] /\ r["shutter-speed"] = p["shutter-speed"]
      /\ r["sony-ae-mode-values"] = AeModes
      /\ IF p["shutter-speed"] = auto THEN r["sony-ae-mode"] = auto
         ELSE /\ r["sony-ae-mode"] = <<"shutter-prio">>
              /\ "sony-shutter-speed" \in DOMAIN r
              /\ r["sony-shutter-speed"] = p["shutter-speed"]
  BY ShutterTold
<1> HIDE DEF r
<1>2. (get(r, "sony-ae-mode", <<>>) = <<"shutter-prio">>) <=> p["shutter-speed"] # auto
  BY <1>1, WordsDiffer DEF get, has
<1>3. Only(r, q, {"sony-iso", "sony-ae-mode"})
  BY Takes
<1>4. {"sony-iso", "sony-ae-mode-values", "sony-ae-mode"} \subseteq DOMAIN q
  <2>1. \A k, v : DOMAIN r \subseteq DOMAIN set(r, k, v)
    BY DEF set
  <2>2. \A k, v, k2, v2 : DOMAIN r \subseteq DOMAIN set(set(r, k2, v2), k, v)
    BY DEF set
  <2>3. DOMAIN r \subseteq DOMAIN q
    BY <2>1, <2>2 DEF TakesIso
  <2>4. QED
    BY <1>1, <2>3
<1>5. p["shutter-speed"] # auto =>
        "sony-shutter-speed" \in DOMAIN q /\ q["sony-shutter-speed"] = p["shutter-speed"]
  <2> HIDE DEF q
  <2>1. QED
    BY <1>1, <1>3 DEF Only
<1>6. CASE p["iso"] = auto
  <2>1. CASE p["shutter-speed"] = auto
    <3>1. q = set(r, "sony-ae-mode", auto)
      BY <1>1, <1>2, <1>6, <2>1 DEF TakesIso, has, contains, AeModes
    <3>2. q["sony-ae-mode"] = auto
      BY <3>1 DEF set
    <3> HIDE DEF q
    <3>3. QED
      BY <1>4, <1>5, <1>6, <2>1, <3>2 DEF Told, AeMode, q, r
  <2>2. CASE p["shutter-speed"] # auto
    <3>1. q = r
      BY <1>1, <1>2, <1>6, <2>2 DEF TakesIso, has
    <3>2. q["sony-ae-mode"] = <<"shutter-prio">>
      BY <1>1, <2>2, <3>1
    <3> HIDE DEF q
    <3>3. QED
      BY <1>4, <1>5, <1>6, <2>2, <3>2 DEF Told, AeMode, q, r
  <2>3. QED
    BY <2>1, <2>2
<1>7. CASE p["iso"] # auto
  <2> DEFINE cut == set(r, "sony-iso", Tail(r["iso"]))
  <2>1. /\ "sony-ae-mode-values" \in DOMAIN cut /\ cut["sony-ae-mode-values"] = AeModes
        /\ cut["sony-iso"] = Tail(p["iso"]) /\ "sony-iso" \in DOMAIN cut
    BY <1>1 DEF set
  <2>2. contains(cut, "sony-ae-mode-values", <<"iso-prio">>)
    <3> HIDE DEF cut
    <3>1. QED
      BY <2>1 DEF contains, has, AeModes
  <2>3. q = set(cut, "sony-ae-mode",
                IF p["shutter-speed"] # auto THEN <<"manual">> ELSE <<"iso-prio">>)
    BY <1>1, <1>2, <1>7, <2>2 DEF TakesIso, has
  <2> HIDE DEF cut
  <2>4. /\ q["sony-ae-mode"] = IF p["shutter-speed"] # auto THEN <<"manual">> ELSE <<"iso-prio">>
        /\ q["sony-iso"] = Tail(p["iso"])
    BY <2>1, <2>3 DEF set
  <2> HIDE DEF q
  <2>5. QED
    BY <1>4, <1>5, <1>7, <2>4 DEF Told, AeMode, q, r
<1>8. QED
  BY <1>6, <1>7

\* what the client reads when it asks the library
LEMMA ExposureShown ==
  ASSUME NEW p, Exposed(p), NEW q, Told(p, q)
  PROVE  LET read == ShowsExposure(q)
         IN /\ {"iso", "shutter-speed"} \subseteq DOMAIN read
            /\ read["iso"] = p["iso"] /\ read["shutter-speed"] = p["shutter-speed"]
<1> DEFINE iso == IF AeMode(p) \in {<<"iso-prio">>, <<"manual">>} THEN <<"ISO">> \o q["sony-iso"] ELSE auto
           shown == set(q, "iso", iso)
           read == ShowsExposure(q)
<1>1. iso = p["iso"]
  BY WordsDiffer DEF Exposed, Told, AeMode
<1>2. get(q, "sony-ae-mode", <<>>) = AeMode(p) /\ has(q, "sony-iso") /\ has(q, "sony-ae-mode-values")
  BY DEF Told, get, has
<1>3. read = IF AeMode(p) \notin {<<"shutter-prio">>, <<"manual">>}
             THEN set(shown, "shutter-speed", auto)
             ELSE IF has(q, "sony-shutter-speed")
                  THEN set(shown, "shutter-speed", q["sony-shutter-speed"])
                  ELSE shown
  BY <1>2 DEF ShowsExposure
<1> HIDE DEF iso
<1>4. read = set(shown, "shutter-speed", p["shutter-speed"])
  <2> HIDE DEF shown, read
  <2>1. QED
    BY <1>3, WordsDiffer DEF Told, AeMode, has
<1> HIDE DEF read
<1>5. QED
  BY <1>1, <1>4 DEF set, read

\* p and q agree on keys
Keeps(p, q, keys) ==
  \A k \in keys : (k \in DOMAIN q <=> k \in DOMAIN p) /\ (k \in DOMAIN p => q[k] = p[k])

LEMMA Keeping ==
  ASSUME NEW p, NEW q, NEW A, NEW keys, Only(p, q, A), keys \cap A = {}
  PROVE  Keeps(p, q, keys)
BY DEF Only, Keeps

LEMMA KeepsThen ==
  ASSUME NEW p, NEW q, NEW r, NEW keys, Keeps(p, q, keys), Keeps(q, r, keys)
  PROVE  Keeps(p, r, keys)
BY DEF Keeps

ToldKeys == {"sony-iso", "sony-ae-mode-values", "sony-ae-mode", "sony-shutter-speed",
             "iso", "shutter-speed"}

\* what follows the exposure in a translation there and back leaves it alone
LEMMA ExposureKept ==
  ASSUME NEW p
  PROVE  Keeps(p, ShowsVideoHdr(ShowsHdr(OffersIso(OffersHdr(
                    TakesRecordingHint(TakesVideoHdr(TakesScene(p))))))), ToldKeys)
<1> DEFINE p1 == TakesScene(p)
           p2 == TakesVideoHdr(p1)
           p3 == TakesRecordingHint(p2)
           r1 == OffersHdr(p3)
           r2 == OffersIso(r1)
           r3 == ShowsHdr(r2)
           r4 == ShowsVideoHdr(r3)
<1>1. Keeps(p, p1, ToldKeys)
  <2>1. ToldKeys \cap {"sony-is", "scene-mode"} = {}
    BY DEF ToldKeys
  <2> HIDE DEF p1
  <2>2. Only(p, p1, {"sony-is", "scene-mode"})
    BY Takes DEF p1
  <2>3. QED
    BY <2>1, <2>2, Keeping
<1> HIDE DEF p1
<1>2. Keeps(p1, p2, ToldKeys)
  <2>1. ToldKeys \cap {"sony-video-hdr"} = {}
    BY DEF ToldKeys
  <2>2. Only(p1, p2, {"sony-video-hdr"})
    BY Takes
  <2>3. QED
    BY <2>1, <2>2, Keeping
<1> HIDE DEF p2
<1>3. Keeps(p2, p3, ToldKeys)
  <2>1. ToldKeys \cap {"sony-is", "sony-vs"} = {}
    BY DEF ToldKeys
  <2>2. Only(p2, p3, {"sony-is", "sony-vs"})
    BY Takes
  <2>3. QED
    BY <2>1, <2>2, Keeping
<1> HIDE DEF p3
<1>4. Keeps(p3, r1, ToldKeys)
  <2>1. ToldKeys \cap {"scene-mode-values"} = {}
    BY DEF ToldKeys
  <2>2. Only(p3, r1, {"scene-mode-values"})
    BY Shows
  <2>3. QED
    BY <2>1, <2>2, Keeping
<1> HIDE DEF r1
<1>5. Keeps(r1, r2, ToldKeys)
  <2>1. ToldKeys \cap {"iso-values"} = {}
    BY DEF ToldKeys
  <2>2. Only(r1, r2, {"iso-values"})
    BY Shows
  <2>3. QED
    BY <2>1, <2>2, Keeping
<1> HIDE DEF r2
<1>6. Keeps(r2, r3, ToldKeys)
  <2>1. ToldKeys \cap {"scene-mode"} = {}
    BY DEF ToldKeys
  <2>2. Only(r2, r3, {"scene-mode"})
    BY Shows
  <2>3. QED
    BY <2>1, <2>2, Keeping
<1> HIDE DEF r3
<1>7. Keeps(r3, r4, ToldKeys)
  <2>1. ToldKeys \cap {"video-hdr-values", "video-hdr"} = {}
    BY DEF ToldKeys
  <2>2. Only(r3, r4, {"video-hdr-values", "video-hdr"})
    BY Shows
  <2>3. QED
    BY <2>1, <2>2, Keeping
<1> HIDE DEF r4
<1>8. Keeps(p, p3, ToldKeys)
  BY <1>1, <1>2, <1>3, KeepsThen
<1>9. Keeps(p3, r4, ToldKeys)
  BY <1>4, <1>5, <1>6, <1>7, KeepsThen
<1>10. QED
  BY <1>8, <1>9, KeepsThen DEF r4, r3, r2, r1, p3, p2, p1

\* a camera either has exposure control or none of its keys
NoExposure(p) == {"iso", "shutter-speed", "sony-iso"} \cap DOMAIN p = {}

LEMMA ExposureRead ==
  ASSUME NEW p, Exposed(p) \/ NoExposure(p)
  PROVE  Keeps(p, fixupGetParameters(fixupSetParameters(p)), {"iso", "shutter-speed"})
<1> DEFINE p0 == set(p, "preview-fps-range", <<"1000", "60000">>)
           p1 == TakesIso(TakesShutterSpeed(p0))
           r == ShowsVideoHdr(ShowsHdr(OffersIso(OffersHdr(
                  TakesRecordingHint(TakesVideoHdr(TakesScene(p1)))))))
           read == ShowsExposure(r)
<1>1. read = fixupGetParameters(fixupSetParameters(p))
  BY DEF fixupGetParameters, fixupSetParameters
<1>2. Keeps(p, p0, ToldKeys)
  BY DEF Keeps, ToldKeys, set
<1> HIDE DEF p0
<1>3. Keeps(p1, r, ToldKeys)
  BY ExposureKept
<1>4. CASE Exposed(p)
  <2>1. /\ Exposed(p0) /\ p0["iso"] = p["iso"] /\ p0["shutter-speed"] = p["shutter-speed"]
        /\ {"iso", "shutter-speed"} \subseteq DOMAIN p
    BY <1>2, <1>4 DEF Exposed, Keeps, ToldKeys
  <2>2. Told(p0, p1)
    BY <2>1, ExposureTold
  <2> HIDE DEF p1, r
  <2>3. Told(p0, r)
    BY <1>3, <2>2 DEF Told, Keeps, ToldKeys
  <2>4. /\ {"iso", "shutter-speed"} \subseteq DOMAIN read
        /\ read["iso"] = p0["iso"] /\ read["shutter-speed"] = p0["shutter-speed"]
    BY <2>1, <2>3, ExposureShown
  <2> HIDE DEF read
  <2>5. Keeps(p, read, {"iso", "shutter-speed"})
    BY <2>1, <2>4 DEF Keeps
  <2>6. QED
    BY <1>1, <2>5
<1>5. CASE NoExposure(p)
  <2>1. NoExposure(p0)
    BY <1>2, <1>5 DEF NoExposure, Keeps, ToldKeys
  <2>2. TakesShutterSpeed(p0) = p0
    BY <2>1 DEF NoExposure, TakesShutterSpeed, has
  <2>3. TakesIso(p0) = p0
    BY <2>1 DEF NoExposure, TakesIso, has
  <2>4. p1 = p0
    BY <2>2, <2>3
  <2> HIDE DEF p1, r
  <2>5. NoExposure(r)
    BY <1>3, <2>1, <2>4 DEF NoExposure, Keeps, ToldKeys
  <2>6. read = r
    BY <2>5 DEF NoExposure, ShowsExposure, has
  <2>7. Keeps(p, r, {"iso", "shutter-speed"})
    BY <1>5, <2>5 DEF NoExposure, Keeps
  <2>8. QED
    BY <1>1, <2>6, <2>7
<1>6. QED
  BY <1>4, <1>5

\* stages that leave alone what is not theirs, two at a time
LEMMA ExposureStages ==
  ASSUME NEW p, NEW keys,
         keys \cap {"preview-fps-range", "sony-shutter-speed", "sony-ae-mode", "sony-iso"} = {}
  PROVE  Keeps(p, TakesIso(TakesShutterSpeed(
                    set(p, "preview-fps-range", <<"1000", "60000">>))), keys)
<1> DEFINE p0 == set(p, "preview-fps-range", <<"1000", "60000">>)
           p1 == TakesShutterSpeed(p0)
<1>1. Keeps(p, p0, keys)
  <2>1. Only(p, p0, {"preview-fps-range"})
    BY SetOnly
  <2>2. QED
    BY <2>1, Keeping
<1> HIDE DEF p0
<1>2. Keeps(p0, p1, keys)
  <2>1. Only(p0, p1, {"sony-shutter-speed", "sony-ae-mode"})
    BY Takes
  <2>2. QED
    BY <2>1, Keeping
<1> HIDE DEF p1
<1>3. Keeps(p1, TakesIso(p1), keys)
  <2>1. Only(p1, TakesIso(p1), {"sony-iso", "sony-ae-mode"})
    BY Takes
  <2>2. QED
    BY <2>1, Keeping
<1>4. QED
  BY <1>1, <1>2, <1>3, KeepsThen DEF p1, p0

LEMMA OfferStages ==
  ASSUME NEW p, NEW keys, keys \cap {"scene-mode-values", "iso-values"} = {}
  PROVE  Keeps(p, OffersIso(OffersHdr(p)), keys)
<1> DEFINE r == OffersHdr(p)
<1>1. Keeps(p, r, keys)
  <2>1. Only(p, r, {"scene-mode-values"})
    BY Shows
  <2>2. QED
    BY <2>1, Keeping
<1> HIDE DEF r
<1>2. Keeps(r, OffersIso(r), keys)
  <2>1. Only(r, OffersIso(r), {"iso-values"})
    BY Shows
  <2>2. QED
    BY <2>1, Keeping
<1>3. QED
  BY <1>1, <1>2, KeepsThen DEF r

\* a camera either has video HDR or none of its keys
Filming == {"sony-video-hdr", "sony-video-hdr-values", "video-hdr"}
WithVideo(p) == Filming \subseteq DOMAIN p
NoVideo(p) == Filming \cap DOMAIN p = {}

LEMMA VideoRead ==
  ASSUME NEW p, WithVideo(p) \/ NoVideo(p)
  PROVE  Keeps(p, fixupGetParameters(fixupSetParameters(p)), {"video-hdr"})
<1> DEFINE a == TakesIso(TakesShutterSpeed(set(p, "preview-fps-range", <<"1000", "60000">>)))
           b == TakesScene(a)
           c == TakesVideoHdr(b)
           d == TakesRecordingHint(c)
           e == OffersIso(OffersHdr(d))
           f == ShowsHdr(e)
           g == ShowsVideoHdr(f)
           read == ShowsExposure(g)
<1>1. read = fixupGetParameters(fixupSetParameters(p))
  BY DEF fixupGetParameters, fixupSetParameters
<1>2. Keeps(p, a, Filming)
  <2>1. Filming \cap {"preview-fps-range", "sony-shutter-speed", "sony-ae-mode", "sony-iso"} = {}
    BY DEF Filming
  <2>2. QED
    BY <2>1, ExposureStages
<1> HIDE DEF a
<1>3. Keeps(a, b, Filming)
  <2>1. Filming \cap {"sony-is", "scene-mode"} = {}
    BY DEF Filming
  <2>2. Only(a, b, {"sony-is", "scene-mode"})
    BY Takes
  <2>3. QED
    BY <2>1, <2>2, Keeping
<1> HIDE DEF b
<1>4. Keeps(c, d, Filming)
  <2>1. Filming \cap {"sony-is", "sony-vs"} = {}
    BY DEF Filming
  <2> HIDE DEF c
  <2>2. Only(c, d, {"sony-is", "sony-vs"})
    BY Takes
  <2>3. QED
    BY <2>1, <2>2, Keeping
<1>5. Keeps(d, e, Filming)
  <2>1. Filming \cap {"scene-mode-values", "iso-values"} = {}
    BY DEF Filming
  <2> HIDE DEF d
  <2>2. QED
    BY <2>1, OfferStages
<1>6. Keeps(e, f, Filming)
  <2>1. Filming \cap {"scene-mode"} = {}
    BY DEF Filming
  <2> HIDE DEF e
  <2>2. Only(e, f, {"scene-mode"})
    BY Shows
  <2>3. QED
    BY <2>1, <2>2, Keeping
<1>7. Keeps(g, read, {"video-hdr"})
  <2> HIDE DEF g
  <2>1. Only(g, read, {"iso", "shutter-speed"})
    BY Shows
  <2>2. {"video-hdr"} \cap {"iso", "shutter-speed"} = {}
    OBVIOUS
  <2>3. QED
    BY <2>1, <2>2, Keeping
<1>8. Keeps(p, b, Filming)
  BY <1>2, <1>3, KeepsThen
<1>9. Keeps(c, f, Filming)
  <2> HIDE DEF c, d, e, f
  <2>1. QED
    BY <1>4, <1>5, <1>6, KeepsThen
<1>10. Keeps(p, g, {"video-hdr"})
  <2>1. CASE WithVideo(p)
    <3>1. c = set(b, "sony-video-hdr", p["video-hdr"])
      BY <1>8, <2>1 DEF WithVideo, Filming, Keeps, TakesVideoHdr, has
    <3> HIDE DEF c, d, e, f
    <3>2. Filming \subseteq DOMAIN c /\ c["sony-video-hdr"] = p["video-hdr"]
      BY <1>8, <2>1, <3>1 DEF WithVideo, Filming, Keeps, set
    <3>3. /\ "sony-video-hdr" \in DOMAIN f /\ "sony-video-hdr-values" \in DOMAIN f
          /\ f["sony-video-hdr"] = p["video-hdr"]
      BY <1>9, <3>2 DEF Filming, Keeps
    <3>4. g = set(set(f, "video-hdr-values", f["sony-video-hdr-values"]), "video-hdr", p["video-hdr"])
      BY <3>3 DEF ShowsVideoHdr, has
    <3>5. "video-hdr" \in DOMAIN p
      BY <2>1 DEF WithVideo, Filming
    <3> HIDE DEF g
    <3>6. QED
      BY <3>4, <3>5 DEF Keeps, set
  <2>2. CASE NoVideo(p)
    <3>1. c = b
      BY <1>8, <2>2 DEF NoVideo, Filming, Keeps, TakesVideoHdr, has
    <3> HIDE DEF c, d, e, f
    <3>2. NoVideo(f)
      BY <1>8, <1>9, <2>2, <3>1 DEF NoVideo, Filming, Keeps
    <3>3. g = f
      BY <3>2 DEF NoVideo, Filming, ShowsVideoHdr, has
    <3>4. QED
      BY <2>2, <3>2, <3>3 DEF NoVideo, Filming, Keeps
  <2>3. QED
    BY <2>1, <2>2
<1> HIDE DEF g, read
<1>11. QED
  BY <1>1, <1>7, <1>10, KeepsThen

LEMMA SceneRead ==
  ASSUME NEW p, "scene-mode" \in DOMAIN p, get(p, "recording-hint", <<>>) # <<"true">>
  PROVE  Keeps(p, fixupGetParameters(fixupSetParameters(p)), {"scene-mode"})
<1> DEFINE a == TakesIso(TakesShutterSpeed(set(p, "preview-fps-range", <<"1000", "60000">>)))
           b == TakesScene(a)
           c == TakesVideoHdr(b)
           d == TakesRecordingHint(c)
           e == OffersIso(OffersHdr(d))
           f == ShowsHdr(e)
           g == ShowsVideoHdr(f)
           read == ShowsExposure(g)
           K == {"scene-mode", "sony-is"}
           H == {"recording-hint"}
<1>1. read = fixupGetParameters(fixupSetParameters(p))
  BY DEF fixupGetParameters, fixupSetParameters
<1>2. Keeps(p, a, {"scene-mode", "recording-hint"})
  <2>1. {"scene-mode", "recording-hint"}
          \cap {"preview-fps-range", "sony-shutter-speed", "sony-ae-mode", "sony-iso"} = {}
    OBVIOUS
  <2>2. QED
    BY <2>1, ExposureStages
<1> HIDE DEF a
<1>3. Keeps(a, b, H)
  <2>1. H \cap {"sony-is", "scene-mode"} = {}
    OBVIOUS
  <2>2. Only(a, b, {"sony-is", "scene-mode"})
    BY Takes
  <2> HIDE DEF H, b
  <2>3. QED
    BY <2>1, <2>2, Keeping
<1>4. "scene-mode" \in DOMAIN a /\ a["scene-mode"] = p["scene-mode"]
  BY <1>2 DEF Keeps
<1>5. /\ "scene-mode" \in DOMAIN b /\ "sony-is" \in DOMAIN b
      /\ IF p["scene-mode"] = hdr THEN b["sony-is"] = still_hdr
         ELSE b["sony-is"] = on /\ b["scene-mode"] = p["scene-mode"]
  <2>1. CASE p["scene-mode"] = hdr
    BY <1>4, <2>1 DEF TakesScene, has, set
  <2>2. CASE p["scene-mode"] # hdr
    BY <1>4, <2>2 DEF TakesScene, has, set
  <2>3. QED
    BY <2>1, <2>2
<1> HIDE DEF b
<1>6. Keeps(b, c, K) /\ Keeps(b, c, H)
  <2>1. K \cap {"sony-video-hdr"} = {} /\ H \cap {"sony-video-hdr"} = {}
    OBVIOUS
  <2>2. Only(b, c, {"sony-video-hdr"})
    BY Takes
  <2> HIDE DEF H, K, c
  <2>3. QED
    BY <2>1, <2>2, Keeping
<1> HIDE DEF c
<1>7. d = c
  <2>1. get(c, "recording-hint", <<>>) = get(p, "recording-hint", <<>>)
    BY <1>2, <1>3, <1>6 DEF get, has, Keeps
  <2>2. QED
    BY <2>1 DEF TakesRecordingHint
<1> HIDE DEF d
<1>8. Keeps(d, e, K)
  <2>1. K \cap {"scene-mode-values", "iso-values"} = {}
    OBVIOUS
  <2> HIDE DEF K
  <2>2. QED
    BY <2>1, OfferStages
<1> HIDE DEF e
<1>9. /\ "scene-mode" \in DOMAIN e /\ "sony-is" \in DOMAIN e
      /\ IF p["scene-mode"] = hdr THEN e["sony-is"] = still_hdr
         ELSE e["sony-is"] = on /\ e["scene-mode"] = p["scene-mode"]
  BY <1>5, <1>6, <1>7, <1>8 DEF Keeps
<1>10. "scene-mode" \in DOMAIN f /\ f["scene-mode"] = p["scene-mode"]
  <2>1. CASE p["scene-mode"] = hdr
    <3>1. f = set(e, "scene-mode", hdr)
      BY <1>9, <2>1 DEF ShowsHdr, get, has
    <3>2. QED
      BY <2>1, <3>1 DEF set
  <2>2. CASE p["scene-mode"] # hdr
    BY <1>9, <2>2, WordsDiffer DEF ShowsHdr, get, has
  <2>3. QED
    BY <2>1, <2>2
<1> HIDE DEF f
<1>11. Keeps(f, g, {"scene-mode"})
  <2>1. Only(f, g, {"video-hdr-values", "video-hdr"})
    BY Shows
  <2>2. {"scene-mode"} \cap {"video-hdr-values", "video-hdr"} = {}
    OBVIOUS
  <2>3. QED
    BY <2>1, <2>2, Keeping
<1> HIDE DEF g
<1>12. Keeps(g, read, {"scene-mode"})
  <2>1. Only(g, read, {"iso", "shutter-speed"})
    BY Shows
  <2>2. {"scene-mode"} \cap {"iso", "shutter-speed"} = {}
    OBVIOUS
  <2>3. QED
    BY <2>1, <2>2, Keeping
<1> HIDE DEF read
<1>13. Keeps(p, read, {"scene-mode"})
  BY <1>10, <1>11, <1>12 DEF Keeps
<1>14. QED
  BY <1>1, <1>13

Isos == {<<"100">>, <<"400">>}
\* what a library says, as far as the client's parameters follow from it
LEMMA WhatIsSaid ==
  ASSUME NEW s \in Supported, NEW said \in Said(s)
  PROVE  /\ "scene-mode" \in DOMAIN said
         /\ {"recording-hint", "iso", "shutter-speed", "iso-values", "video-hdr"} \cap DOMAIN said = {}
         /\ IF s.exposure
            THEN /\ {"sony-ae-mode", "sony-ae-mode-values", "sony-iso", "sony-iso-values"} \subseteq DOMAIN said
                 /\ said["sony-ae-mode-values"] = AeModes
                 /\ said["sony-iso"] \in Isos /\ said["sony-iso-values"] = Isos
                 /\ said["sony-ae-mode"] \in {<<"shutter-prio">>, <<"manual">>} =>
                      "sony-shutter-speed" \in DOMAIN said
            ELSE {"sony-iso", "sony-iso-values"} \cap DOMAIN said = {}
         /\ IF s.video THEN {"sony-video-hdr", "sony-video-hdr-values"} \subseteq DOMAIN said
            ELSE {"sony-video-hdr", "sony-video-hdr-values"} \cap DOMAIN said = {}
<1>1. PICK is \in s.image, e \in Exposures : said = Saying(s, is, e)
  BY DEF Said
<1>2. DOMAIN said = Keys(s, e)
  BY <1>1 DEF Saying
<1>3. e.speed = <<>> => e.mode \notin {<<"shutter-prio">>, <<"manual">>}
  BY DEF Exposures
<1>4. /\ \A k \in {"sony-ae-mode"} : k \in DOMAIN said => said[k] = e.mode
      /\ "sony-ae-mode-values" \in DOMAIN said => said["sony-ae-mode-values"] = AeModes
      /\ "sony-iso" \in DOMAIN said => said["sony-iso"] = <<"100">>
      /\ "sony-iso-values" \in DOMAIN said => said["sony-iso-values"] = {<<"100">>, <<"400">>}
  BY <1>1 DEF Saying
<1>5. /\ "scene-mode" \in DOMAIN said
      /\ {"recording-hint", "iso", "shutter-speed", "iso-values", "video-hdr"} \cap DOMAIN said = {}
      /\ IF s.video THEN {"sony-video-hdr", "sony-video-hdr-values"} \subseteq DOMAIN said
         ELSE {"sony-video-hdr", "sony-video-hdr-values"} \cap DOMAIN said = {}
      /\ IF s.exposure
         THEN /\ {"sony-ae-mode", "sony-ae-mode-values", "sony-iso", "sony-iso-values"} \subseteq DOMAIN said
              /\ e.speed # <<>> => "sony-shutter-speed" \in DOMAIN said
         ELSE {"sony-iso", "sony-iso-values"} \cap DOMAIN said = {}
  BY <1>2 DEF Keys, ImageKeys, ExposureKeys, VideoKeys
<1>6. QED
  BY <1>3, <1>4, <1>5 DEF Isos

\* and what the client is shown
Shown(s, p) ==
  /\ "scene-mode" \in DOMAIN p /\ "recording-hint" \notin DOMAIN p
  /\ IF s.exposure
     THEN /\ {"iso", "shutter-speed", "iso-values", "sony-iso", "sony-ae-mode-values"} \subseteq DOMAIN p
          /\ p["sony-ae-mode-values"] = AeModes
          /\ p["iso-values"] = {<<"ISO">> \o iso : iso \in Isos} \cup {auto}
          /\ p["iso"] \in {<<"ISO">> \o iso : iso \in Isos} \cup {auto}
     ELSE {"iso", "shutter-speed", "iso-values", "sony-iso"} \cap DOMAIN p = {}
  /\ IF s.video THEN WithVideo(p) ELSE NoVideo(p)

LEMMA WhatIsShown ==
  ASSUME NEW s \in Supported, NEW said \in Said(s)
  PROVE  Shown(s, fixupGetParameters(said))
<1> DEFINE a == OffersHdr(said)
           b == OffersIso(a)
           c == ShowsHdr(b)
           d == ShowsVideoHdr(c)
           p == ShowsExposure(d)
<1>1. p = fixupGetParameters(said)
  BY DEF fixupGetParameters
<1>2. Only(said, a, {"scene-mode-values"})
  BY Shows
<1> HIDE DEF a
<1>3. Only(a, b, {"iso-values"})
  BY Shows
<1>4. IF s.exposure
      THEN "iso-values" \in DOMAIN b /\ b["iso-values"] = {<<"ISO">> \o iso : iso \in Isos} \cup {auto}
      ELSE "iso-values" \notin DOMAIN b
  <2>1. /\ "sony-iso-values" \in DOMAIN a <=> "sony-iso-values" \in DOMAIN said
        /\ "sony-iso-values" \in DOMAIN said => a["sony-iso-values"] = said["sony-iso-values"]
        /\ "iso-values" \in DOMAIN a <=> "iso-values" \in DOMAIN said
    BY <1>2 DEF Only
  <2>2. CASE s.exposure
    <3>1. b = set(a, "iso-values", {<<"ISO">> \o iso : iso \in Isos} \cup {auto})
      BY <2>1, <2>2, WhatIsSaid DEF OffersIso, has
    <3> HIDE DEF b
    <3>2. QED
      BY <2>2, <3>1 DEF set
  <2>3. CASE ~s.exposure
    BY <2>1, <2>3, WhatIsSaid DEF OffersIso, has
  <2>4. QED
    BY <2>2, <2>3
<1> HIDE DEF b
<1>5. Only(b, c, {"scene-mode"}) /\ "scene-mode" \in DOMAIN c
  <2>1. Only(b, c, {"scene-mode"})
    BY Shows
  <2>2. "scene-mode" \in DOMAIN b
    BY <1>2, <1>3, WhatIsSaid DEF Only
  <2>3. QED
    BY <2>1, <2>2 DEF ShowsHdr, set
<1> HIDE DEF c
<1>6. Only(c, d, {"video-hdr-values", "video-hdr"})
  BY Shows
<1>7. IF s.video THEN WithVideo(d) ELSE NoVideo(d)
  <2>1. \A k \in Filming : k \in DOMAIN c <=> k \in DOMAIN said
    BY <1>2, <1>3, <1>5 DEF Only, Filming
  <2>2. CASE s.video
    <3>1. d = set(set(c, "video-hdr-values", c["sony-video-hdr-values"]), "video-hdr", c["sony-video-hdr"])
      BY <2>1, <2>2, WhatIsSaid DEF ShowsVideoHdr, has, Filming
    <3>2. {"sony-video-hdr", "sony-video-hdr-values"} \subseteq DOMAIN c
      BY <2>1, <2>2, WhatIsSaid DEF Filming
    <3> HIDE DEF d
    <3>3. QED
      BY <2>2, <3>1, <3>2 DEF WithVideo, Filming, set
  <2>3. CASE ~s.video
    <3>1. d = c
      BY <2>1, <2>3, WhatIsSaid DEF ShowsVideoHdr, has, Filming
    <3>2. QED
      BY <2>1, <2>3, <3>1, WhatIsSaid DEF NoVideo, Filming
  <2>4. QED
    BY <2>2, <2>3
<1> HIDE DEF d
\* what the first four stages leave of what is said
<1>8. /\ \A k \in {"iso", "shutter-speed", "recording-hint"} : k \notin DOMAIN d
      /\ \A k \in {"sony-iso", "sony-ae-mode-values", "sony-ae-mode", "sony-shutter-speed"} :
           /\ k \in DOMAIN d <=> k \in DOMAIN said
           /\ k \in DOMAIN said => d[k] = said[k]
      /\ "scene-mode" \in DOMAIN d
      /\ "iso-values" \in DOMAIN d <=> "iso-values" \in DOMAIN b
      /\ "iso-values" \in DOMAIN b => d["iso-values"] = b["iso-values"]
  <2>1. \A k \in {"iso", "shutter-speed", "recording-hint"} : k \notin DOMAIN d
    BY <1>2, <1>3, <1>5, <1>6, WhatIsSaid DEF Only
  <2>2. \A k \in {"sony-iso", "sony-ae-mode-values", "sony-ae-mode", "sony-shutter-speed"} :
           /\ k \in DOMAIN b <=> k \in DOMAIN said
           /\ k \in DOMAIN said => b[k] = said[k]
    BY <1>2, <1>3 DEF Only
  <2>3. \A k \in {"sony-iso", "sony-ae-mode-values", "sony-ae-mode", "sony-shutter-speed", "iso-values"} :
           /\ k \in DOMAIN d <=> k \in DOMAIN b
           /\ k \in DOMAIN b => d[k] = b[k]
    BY <1>5, <1>6 DEF Only
  <2>4. "scene-mode" \in DOMAIN d
    BY <1>5, <1>6 DEF Only
  <2>5. QED
    BY <2>1, <2>2, <2>3, <2>4
<1>9. Only(d, p, {"iso", "shutter-speed"})
  BY Shows
<1>10. IF s.exposure
       THEN /\ {"iso", "shutter-speed"} \subseteq DOMAIN p
            /\ p["iso"] \in {<<"ISO">> \o iso : iso \in Isos} \cup {auto}
       ELSE {"iso", "shutter-speed"} \cap DOMAIN p = {}
  <2>1. CASE s.exposure
    <3> DEFINE mode == get(d, "sony-ae-mode", <<>>)
               iso == IF mode \in {<<"iso-prio">>, <<"manual">>} THEN <<"ISO">> \o d["sony-iso"] ELSE auto
               shown == set(d, "iso", iso)
    <3>1. mode = said["sony-ae-mode"] /\ has(d, "sony-iso") /\ has(d, "sony-ae-mode-values")
          /\ d["sony-iso"] \in Isos
      BY <1>8, <2>1, WhatIsSaid DEF get, has
    <3>2. iso \in {<<"ISO">> \o i : i \in Isos} \cup {auto}
      BY <3>1
    <3>3. mode \in {<<"shutter-prio">>, <<"manual">>} => has(d, "sony-shutter-speed")
      BY <1>8, <2>1, <3>1, WhatIsSaid DEF has
    <3>4. \E v : p = set(shown, "shutter-speed", v)
      BY <3>1, <3>3 DEF ShowsExposure
    <3> HIDE DEF mode, iso, p
    <3>5. QED
      BY <2>1, <3>2, <3>4 DEF set
  <2>2. CASE ~s.exposure
    <3>1. "sony-iso" \notin DOMAIN d
      BY <1>8, <2>2, WhatIsSaid
    <3>2. p = d
      BY <3>1 DEF ShowsExposure, has
    <3>3. QED
      BY <1>8, <2>2, <3>2
  <2>3. QED
    BY <2>1, <2>2
<1> HIDE DEF p
<1>11. /\ "scene-mode" \in DOMAIN p /\ "recording-hint" \notin DOMAIN p
       /\ \A k \in {"sony-iso", "sony-ae-mode-values", "iso-values"} :
            /\ k \in DOMAIN p <=> k \in DOMAIN d
            /\ k \in DOMAIN d => p[k] = d[k]
  BY <1>8, <1>9 DEF Only
<1>12. \A k \in Filming : k \in DOMAIN p <=> k \in DOMAIN d
  BY <1>9 DEF Only, Filming
<1>13. IF s.video THEN WithVideo(p) ELSE NoVideo(p)
  BY <1>7, <1>12 DEF WithVideo, NoVideo
<1>14. CASE s.exposure
  <2>1. /\ {"sony-iso", "sony-ae-mode-values"} \subseteq DOMAIN d /\ d["sony-ae-mode-values"] = AeModes
    BY <1>8, <1>14, WhatIsSaid
  <2>2. "iso-values" \in DOMAIN d /\ d["iso-values"] = {<<"ISO">> \o iso : iso \in Isos} \cup {auto}
    BY <1>4, <1>8, <1>14
  <2>3. Shown(s, p)
    BY <1>10, <1>11, <1>13, <1>14, <2>1, <2>2 DEF Shown
  <2>4. QED
    BY <1>1, <2>3
<1>15. CASE ~s.exposure
  <2>1. "sony-iso" \notin DOMAIN d /\ "iso-values" \notin DOMAIN d
    BY <1>4, <1>8, <1>15, WhatIsSaid
  <2>2. Shown(s, p)
    BY <1>10, <1>11, <1>13, <1>15, <2>1 DEF Shown
  <2>3. QED
    BY <1>1, <2>2
<1>16. QED
  BY <1>14, <1>15

LEMMA KeptSeen ==
  ASSUME NEW p, NEW q, NEW keys, Keeps(p, q, keys)
  PROVE  Seen(q, keys) = Seen(p, keys)
<1>1. keys \cap DOMAIN q = keys \cap DOMAIN p
  BY DEF Keeps
<1>2. \A k \in keys \cap DOMAIN p : q[k] = p[k]
  BY DEF Keeps
<1>3. QED
  BY <1>1, <1>2 DEF Seen

LEMMA IsoOffered ==
  ASSUME NEW v \in {<<"ISO">> \o iso : iso \in Isos} \cup {auto}, v # auto
  PROVE  v = <<"ISO">> \o Tail(v)
<1>1. PICK iso \in Isos : v = <<"ISO">> \o iso
  OBVIOUS
<1>2. iso \in Seq({"ISO", "100", "400"})
  BY DEF Isos
<1>3. Tail(<<"ISO">> \o iso) = iso
  BY <1>2, IsoCut
<1>4. QED
  BY <1>1, <1>3

(***************************************************************************)
(* What a client may set is what it reads when the library has taken it:   *)
(* for any parameters p, of which it matters only which kinds of control   *)
(* the camera has (fixupSetParameters, then fixupGetParameters).           *)
(***************************************************************************)
THEOREM RoundTrip ==
  ASSUME NEW p, Exposed(p) \/ NoExposure(p), WithVideo(p) \/ NoVideo(p)
  PROVE  Keeps(p, fixupGetParameters(fixupSetParameters(p)), exposure)
<1> DEFINE read == fixupGetParameters(fixupSetParameters(p))
<1>1. Keeps(p, read, {"iso", "shutter-speed"})
  BY ExposureRead
<1>2. Keeps(p, read, {"video-hdr"})
  BY VideoRead
<1> HIDE DEF read
<1>3. Keeps(p, read, exposure)
  BY <1>1, <1>2 DEF Keeps, exposure
<1>4. QED
  BY <1>3 DEF read

\* The choices of a client, whatever the library supports and says.
LEMMA ChoicesAreKept == ChoiceKept
<1> SUFFICES ASSUME NEW s \in Supported, NEW said \in Said(s),
                    NEW c \in Offered(fixupGetParameters(said))
             PROVE  LET q == Chosen(fixupGetParameters(said), c)
                        read == fixupGetParameters(fixupSetParameters(q))
                    IN /\ Seen(read, exposure) = Seen(q, exposure)
                       /\ c.recording \/ read["scene-mode"] = c.scene
  BY DEF ChoiceKept
<1> DEFINE p == fixupGetParameters(said)
           hint == IF c.recording THEN <<"true">> ELSE <<"false">>
           shot == set(set(p, "scene-mode", c.scene), "recording-hint", hint)
           exposed == IF has(p, "iso-values")
                      THEN set(set(shot, "iso", c.iso), "shutter-speed", c.speed) ELSE shot
           q == IF has(p, "video-hdr") THEN set(exposed, "video-hdr", c.video) ELSE exposed
           read == fixupGetParameters(fixupSetParameters(q))
<1>1. q = Chosen(p, c)
  BY DEF Chosen
<1>2. Shown(s, p)
  BY WhatIsShown
<1>3. /\ c.iso \in get(p, "iso-values", {auto}) /\ c.recording \in BOOLEAN
  BY DEF Offered
<1> HIDE DEF p
<1>4. s.exposure <=> has(p, "iso-values")
  BY <1>2 DEF Shown, has
<1>5. s.video <=> has(p, "video-hdr")
  BY <1>2 DEF Shown, has, WithVideo, NoVideo, Filming
<1>6. /\ Only(p, shot, {"scene-mode", "recording-hint"})
      /\ {"scene-mode", "recording-hint"} \subseteq DOMAIN shot
      /\ shot["scene-mode"] = c.scene /\ shot["recording-hint"] = hint
  <2> HIDE DEF hint
  <2>1. QED
    BY DEF Only, set
<1> HIDE DEF shot, hint
<1>7. /\ Only(shot, exposed, {"iso", "shutter-speed"})
      /\ IF s.exposure THEN /\ {"iso", "shutter-speed"} \subseteq DOMAIN exposed
                            /\ exposed["iso"] = c.iso
         ELSE exposed = shot
  <2>1. CASE s.exposure
    <3>1. exposed = set(set(shot, "iso", c.iso), "shutter-speed", c.speed)
      BY <1>4, <2>1
    <3> HIDE DEF exposed
    <3>2. QED
      BY <2>1, <3>1 DEF Only, set
  <2>2. CASE ~s.exposure
    BY <1>4, <2>2, OnlyItself
  <2>3. QED
    BY <2>1, <2>2
<1> HIDE DEF exposed
<1>8. Only(exposed, q, {"video-hdr"}) /\ (s.video => "video-hdr" \in DOMAIN q) /\ (~s.video => q = exposed)
  BY <1>5, SetOnly, OnlyItself
<1> HIDE DEF q
<1>9. Exposed(q) \/ NoExposure(q)
  <2>1. /\ \A k \in {"sony-iso", "sony-ae-mode-values"} :
             (k \in DOMAIN q <=> k \in DOMAIN p) /\ (k \in DOMAIN p => q[k] = p[k])
        /\ \A k \in {"iso", "shutter-speed"} :
             (k \in DOMAIN q <=> k \in DOMAIN exposed) /\ (k \in DOMAIN exposed => q[k] = exposed[k])
        /\ \A k \in {"iso", "shutter-speed"} : k \in DOMAIN shot <=> k \in DOMAIN p
    BY <1>6, <1>7, <1>8 DEF Only
  <2>2. CASE s.exposure
    <3>1. /\ {"iso", "shutter-speed", "sony-iso", "sony-ae-mode-values"} \subseteq DOMAIN q
          /\ q["sony-ae-mode-values"] = AeModes /\ q["iso"] = c.iso
      BY <1>2, <1>7, <2>1, <2>2 DEF Shown
    <3>2. c.iso \in {<<"ISO">> \o iso : iso \in Isos} \cup {auto}
      BY <1>2, <1>3, <2>2 DEF Shown, get, has
    <3>3. c.iso # auto => c.iso = <<"ISO">> \o Tail(c.iso)
      BY <3>2, IsoOffered
    <3>4. QED
      BY <3>1, <3>3 DEF Exposed
  <2>3. CASE ~s.exposure
    BY <1>2, <1>7, <2>1, <2>3 DEF Shown, NoExposure
  <2>4. QED
    BY <2>2, <2>3
<1>10. WithVideo(q) \/ NoVideo(q)
  <2>1. \A k \in {"sony-video-hdr", "sony-video-hdr-values"} : k \in DOMAIN q <=> k \in DOMAIN p
    BY <1>6, <1>7, <1>8 DEF Only
  <2>2. CASE s.video
    BY <1>2, <1>8, <2>1, <2>2 DEF Shown, WithVideo, Filming
  <2>3. CASE ~s.video
    <3>1. "video-hdr" \in DOMAIN q <=> "video-hdr" \in DOMAIN p
      BY <1>6, <1>7, <1>8, <2>3 DEF Only
    <3>2. QED
      BY <1>2, <2>1, <2>3, <3>1 DEF Shown, NoVideo, Filming
  <2>4. QED
    BY <2>2, <2>3
<1>11. /\ "scene-mode" \in DOMAIN q /\ q["scene-mode"] = c.scene
       /\ "recording-hint" \in DOMAIN q /\ q["recording-hint"] = hint
  BY <1>6, <1>7, <1>8 DEF Only
<1>12. Seen(read, exposure) = Seen(q, exposure)
  <2>1. Keeps(q, read, exposure)
    BY <1>9, <1>10, RoundTrip
  <2> HIDE DEF read
  <2>2. QED
    BY <2>1, KeptSeen
<1>13. ASSUME ~c.recording PROVE read["scene-mode"] = c.scene
  <2>1. get(q, "recording-hint", <<>>) # <<"true">>
    BY <1>11, <1>13, WordsDiffer DEF get, has, hint
  <2>2. Keeps(q, read, {"scene-mode"})
    BY <1>11, <2>1, SceneRead
  <2> HIDE DEF read
  <2>3. QED
    BY <1>11, <2>2 DEF Keeps
<1>14. QED
  BY <1>1, <1>12, <1>13 DEF p

\* Opening reads the parameters and sets them again.
LEMMA OpeningKeeps == OpenKeeps
<1> SUFFICES ASSUME NEW s \in Supported, NEW said \in Said(s)
             PROVE  Seen(fixupGetParameters(Opened(said)), exposure \cup {"scene-mode"})
                      = Seen(fixupGetParameters(said), exposure \cup {"scene-mode"})
  BY DEF OpenKeeps
<1> DEFINE p == fixupGetParameters(said)
           n == setParam(p, "preview-frame-rate", <<"30">>)
           m == setParam(n, "preview-fps-range", <<"1000", "30000">>)
           read == fixupGetParameters(fixupSetParameters(m))
<1>1. fixupSetParameters(m) = Opened(said)
  BY DEF Opened
<1>2. Shown(s, p)
  BY WhatIsShown
<1> HIDE DEF p
<1>3. Only(p, n, {"preview-frame-rate"})
  BY SetOnly, OnlyItself DEF setParam
<1> HIDE DEF n
<1>4. Only(n, m, {"preview-fps-range"})
  BY SetOnly, OnlyItself DEF setParam
<1> HIDE DEF m
<1>5. \A k : k \notin {"preview-frame-rate", "preview-fps-range"} =>
        (k \in DOMAIN m <=> k \in DOMAIN p) /\ (k \in DOMAIN p => m[k] = p[k])
  BY <1>3, <1>4 DEF Only
<1>6. Shown(s, m)
  <2>1. \A k \in {"scene-mode", "recording-hint", "iso", "shutter-speed", "iso-values", "sony-iso",
                  "sony-ae-mode-values"} :
          (k \in DOMAIN m <=> k \in DOMAIN p) /\ (k \in DOMAIN p => m[k] = p[k])
    BY <1>5
  <2>2. \A k \in Filming : k \in DOMAIN m <=> k \in DOMAIN p
    BY <1>5 DEF Filming
  <2>3. IF s.video THEN WithVideo(m) ELSE NoVideo(m)
    BY <1>2, <2>2 DEF Shown, WithVideo, NoVideo
  <2>4. CASE s.exposure
    BY <1>2, <2>1, <2>3, <2>4 DEF Shown
  <2>5. CASE ~s.exposure
    BY <1>2, <2>1, <2>3, <2>5 DEF Shown
  <2>6. QED
    BY <2>4, <2>5
<1>7. Exposed(m) \/ NoExposure(m)
  <2>1. CASE s.exposure
    <3>1. m["iso"] # auto => m["iso"] = <<"ISO">> \o Tail(m["iso"])
      BY <1>6, <2>1, IsoOffered DEF Shown
    <3>2. QED
      BY <1>6, <2>1, <3>1 DEF Shown, Exposed
  <2>2. CASE ~s.exposure
    BY <1>6, <2>2 DEF Shown, NoExposure
  <2>3. QED
    BY <2>1, <2>2
<1>8. Keeps(m, read, exposure)
  BY <1>6, <1>7, RoundTrip DEF Shown
<1>9. Keeps(m, read, {"scene-mode"})
  <2>1. get(m, "recording-hint", <<>>) # <<"true">>
    BY <1>6, WordsDiffer DEF Shown, get, has
  <2>2. QED
    BY <1>6, <2>1, SceneRead DEF Shown
<1> HIDE DEF read
<1>10. Keeps(p, m, exposure \cup {"scene-mode"})
  BY <1>5 DEF Keeps, exposure
<1>11. Keeps(m, read, exposure \cup {"scene-mode"})
  BY <1>8, <1>9 DEF Keeps
<1>12. Seen(read, exposure \cup {"scene-mode"}) = Seen(p, exposure \cup {"scene-mode"})
  BY <1>10, <1>11, KeepsThen, KeptSeen
<1>13. QED
  BY <1>1, <1>12 DEF read, p

(***************************************************************************)
(* A client whose parameters are translated reads what it chose, and what  *)
(* it read before the camera was opened (getParametersLocked,              *)
(* setParametersLocked, open).                                             *)
(***************************************************************************)
THEOREM ParametersAlwaysKept == Spec => []ParametersKept
<1>1. ParametersKept
  BY ChoicesAreKept, OpeningKeeps DEF ParametersKept
<1>2. QED
  BY <1>1, PTL
=============================================================================
