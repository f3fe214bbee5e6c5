------------------------------ MODULE CameraDevice ------------------------------
(***************************************************************************)
(* The HIDL 1.0 device objects of one camera (camera/device).  The         *)
(* framework and Sony's extension service each have an object of their own *)
(* for it, and the provider makes a new one whenever it is asked.  What is *)
(* opened while a primary session is registered becomes an extension       *)
(* session: it shares the vendor's camera and the primary's memory.        *)
(*                                                                         *)
(* An object's mLock serialises its calls (pc says how far one is); the    *)
(* vendor's threads ask for memory, return it, and hand out frames without *)
(* it.  Calls that are only forwarded differ in nothing but what is said   *)
(* of their lines; a closed object refuses them.                           *)
(***************************************************************************)
EXTENDS Integers, FiniteSets, FiniteSetsExt, SonyParameters

CONSTANTS
  Devices,         \* CameraDevice objects of one camera
  NoDevice,
  Memories,        \* heaps (CameraHeapMemory) the vendor may have at once
  kMaxMemorySlots,
  Windows,         \* preview windows of the framework
  NoWindow,
  Buffers,         \* ids a window gives its buffers
  WindowDevices    \* objects whose client shows a preview

ASSUME SlotsEnough ==
  IsFiniteSet(Devices) /\ kMaxMemorySlots \in Nat /\ Cardinality(Devices) =< kMaxMemorySlots
ASSUME NotAmong == NoDevice \notin Devices /\ NoWindow \notin Windows /\ WindowDevices \subseteq Devices

VARIABLES
  pc,                  \* how far the call that holds mLock is
  dying,               \* that call is the destructor
  mDevice,             \* whether the vendor's device is open
  mExtension,
  mMemorySlot,
  mMemoryMap,          \* heaps known by id; an id stands for its heap
  mForeignMemory,      \* heaps of other sessions, registered with this one's client
  client,              \* heaps the session's callback object has mapped
  frame,               \* the heap whose frame is being given back
  sPrimarySessions,    \* the primary session of the camera
  sExtensionSessions,
  sSonyClientSessions, \* sessions whose parameters are not translated
  sMemorySlots,
  hal,                 \* vendor: the callbacks it was given
  memory,              \* vendor: its heaps
  preview              \* mHalPreviewWindow and what the vendor does with it

sessions == <<sPrimarySessions, sExtensionSessions, sSonyClientSessions, sMemorySlots, mMemorySlot>>
maps == <<mMemoryMap, mForeignMemory, client>>
calls == <<pc, dying, mDevice, mExtension, frame>>
vars == <<calls, sessions, maps, hal, memory, preview>>

Slots == 0 .. kMaxMemorySlots - 1
NoSlot == -1
\* a heap has its session (mDevice) and the session whose callback asked for it
NoMemory == [state |-> "none", device |-> NoDevice, asked |-> NoDevice]
NoHal == [on |-> FALSE, slot |-> NoSlot]
NoPreview ==
  [window |-> NoWindow, vendor |-> "none", running |-> FALSE,
   circulating |-> [b \in Buffers |-> NoWindow], held |-> {},
   pending |-> FALSE, frames |-> 0]

Init ==
  /\ pc = [d \in Devices |-> "idle"] /\ dying = [d \in Devices |-> FALSE]
  /\ mDevice = [d \in Devices |-> FALSE] /\ mExtension = [d \in Devices |-> FALSE]
  /\ mMemorySlot = [d \in Devices |-> NoSlot]
  /\ mMemoryMap = [d \in Devices |-> {}] /\ mForeignMemory = [d \in Devices |-> {}]
  /\ client = [d \in Devices |-> {}]
  /\ frame = [d \in Devices |-> {}]
  /\ sPrimarySessions = NoDevice /\ sExtensionSessions = {} /\ sSonyClientSessions = {}
  /\ sMemorySlots = [s \in Slots |-> NoDevice]
  /\ hal = [d \in Devices |-> NoHal]
  /\ memory = [m \in Memories |-> NoMemory]
  /\ preview = [d \in Devices |-> NoPreview]

Goto(d, l) == pc' = [pc EXCEPT ![d] = l]
IsOpen(d) == pc[d] = "idle" /\ mDevice[d]

(***************************************************************************)
(* open: what the session is to be is read under sSessionLock, the vendor's*)
(* device opened without it, and the session registered under it again.    *)
(* A client opens an object only while it has it closed.                   *)
(***************************************************************************)
OpenDecide(d) ==
  /\ pc[d] = "idle" /\ ~mDevice[d]
  /\ mExtension' = [mExtension EXCEPT ![d] = sPrimarySessions # NoDevice]
  /\ Goto(d, "decided")
  /\ UNCHANGED <<dying, mDevice, frame, sessions, maps, hal, memory, preview>>

\* the session's client is a new callback object that has mapped nothing
OpenDevice(d) ==
  /\ pc[d] = "decided"
  /\ \/ mDevice' = [mDevice EXCEPT ![d] = TRUE]
        /\ client' = [client EXCEPT ![d] = {}]
        /\ Goto(d, "opened")
     \/ Goto(d, "idle") /\ UNCHANGED <<mDevice, client>>
  /\ UNCHANGED <<dying, mExtension, frame, sessions, mMemoryMap, mForeignMemory, hal, memory, preview>>

claimMemorySlot ==
  LET free == {s \in Slots : sMemorySlots[s] = NoDevice}
  IN IF free = {} THEN NoSlot ELSE Min(free)

RegisterExtension(d) ==
  /\ pc[d] = "opened" /\ mExtension[d]
  /\ sExtensionSessions' = sExtensionSessions \cup {d}
  /\ sSonyClientSessions' = sSonyClientSessions \cup ({sPrimarySessions} \ {NoDevice})
  /\ Goto(d, "registered")
  /\ UNCHANGED <<dying, mDevice, mExtension, frame, sPrimarySessions, sMemorySlots, mMemorySlot,
                 maps, hal, memory, preview>>

RegisterPrimary(d) ==
  /\ pc[d] = "opened" /\ ~mExtension[d]
  /\ sPrimarySessions' = d
  /\ mMemorySlot' = [mMemorySlot EXCEPT ![d] = claimMemorySlot]
  /\ sMemorySlots' = [s \in Slots |-> IF s = claimMemorySlot THEN d ELSE sMemorySlots[s]]
  /\ Goto(d, "registered")
  /\ UNCHANGED <<dying, mDevice, mExtension, frame, sExtensionSessions, sSonyClientSessions,
                 maps, hal, memory, preview>>

\* always the callback that trusts the user pointer
memoryCallbackByUser(d) == NoSlot

\* the function that finds its session by the slot, or sGetMemory without one
memoryCallback(d) == mMemorySlot[d]

\* set_callbacks, an extension without a way to ask for memory; the open ends
\* with the session's first parameters
SetCallbacks(d) ==
  /\ pc[d] = "registered"
  /\ hal' = [hal EXCEPT ![d] = [on |-> TRUE, slot |-> IF mExtension[d] THEN NoSlot ELSE memoryCallback(d)]]
  /\ preview' = IF mExtension[d] THEN preview ELSE [preview EXCEPT ![d].pending = FALSE]
  /\ Goto(d, "idle")
  /\ UNCHANGED <<dying, mDevice, mExtension, frame, sessions, maps, memory>>

(***************************************************************************)
(* close and the destructor.  The vendor gives the session's heaps and     *)
(* preview buffers back before its release and close return.               *)
(***************************************************************************)
close(d) ==
  /\ pc[d] = "idle"
  /\ Goto(d, IF mDevice[d] THEN "closing" ELSE "closed")
  /\ UNCHANGED <<dying, mDevice, mExtension, frame, sessions, maps, hal, memory, preview>>

CloseDevice(d) ==
  /\ pc[d] = "closing"
  /\ \A m \in Memories : memory[m].asked # d
  /\ preview[d].held = {}
  /\ mDevice' = [mDevice EXCEPT ![d] = FALSE]
  /\ hal' = [hal EXCEPT ![d] = NoHal]
  /\ preview' = [preview EXCEPT ![d].vendor = "none", ![d].running = FALSE]
  /\ Goto(d, "closed")
  /\ UNCHANGED <<dying, mExtension, frame, sessions, maps, memory>>

\* a closed session kept among those whose parameters pass through
UnregisterKeepsSony(d) ==
  /\ pc[d] = "closed"
  /\ sPrimarySessions' = IF sPrimarySessions = d THEN NoDevice ELSE sPrimarySessions
  /\ sExtensionSessions' = sExtensionSessions \ {d}
  /\ sMemorySlots' = [s \in Slots |-> IF s = mMemorySlot[d] THEN NoDevice ELSE sMemorySlots[s]]
  /\ mMemorySlot' = [mMemorySlot EXCEPT ![d] = NoSlot]
  /\ Goto(d, "unregistered")
  /\ UNCHANGED <<dying, mDevice, mExtension, frame, sSonyClientSessions, maps, hal, memory, preview>>

\* the other maps of a closed session are cleared after sSessionLock is let go
Unregister(d) ==
  /\ pc[d] = "closed"
  /\ sPrimarySessions' = IF sPrimarySessions = d THEN NoDevice ELSE sPrimarySessions
  /\ sExtensionSessions' = sExtensionSessions \ {d}
  /\ sSonyClientSessions' = sSonyClientSessions \ {d}
  /\ sMemorySlots' = [s \in Slots |-> IF s = mMemorySlot[d] THEN NoDevice ELSE sMemorySlots[s]]
  /\ mMemorySlot' = [mMemorySlot EXCEPT ![d] = NoSlot]
  /\ Goto(d, "unregistered")
  /\ UNCHANGED <<dying, mDevice, mExtension, frame, maps, hal, memory, preview>>

cleanUpCirculatingBuffers(p) == [p EXCEPT !.circulating = [b \in Buffers |-> NoWindow]]

\* a destroyed object leaves its place to a new one
ClearMaps(d) ==
  /\ pc[d] = "unregistered"
  /\ mMemoryMap' = [mMemoryMap EXCEPT ![d] = IF mExtension[d] THEN {} ELSE @]
  /\ mForeignMemory' = [mForeignMemory EXCEPT ![d] = IF mExtension[d] THEN {} ELSE @]
  /\ client' = [client EXCEPT ![d] = IF dying[d] THEN {} ELSE @]
  /\ preview' = [preview EXCEPT ![d] = IF dying[d] THEN [cleanUpCirculatingBuffers(@) EXCEPT !.window = NoWindow, !.pending = FALSE, !.frames = 0] ELSE @]
  /\ mExtension' = [mExtension EXCEPT ![d] = IF dying[d] THEN FALSE ELSE @]
  /\ dying' = [dying EXCEPT ![d] = FALSE]
  /\ Goto(d, "idle")
  /\ UNCHANGED <<mDevice, frame, sessions, hal, memory>>

\* closeLocked only if the device is still open
destroy(d) ==
  /\ pc[d] = "idle"
  /\ dying' = [dying EXCEPT ![d] = TRUE]
  /\ Goto(d, IF mDevice[d] THEN "closing" ELSE "unregistered")
  /\ UNCHANGED <<mDevice, mExtension, frame, sessions, maps, hal, memory, preview>>

(***************************************************************************)
(* Calls into the vendor, all with mLock held.                             *)
(***************************************************************************)
Forward(d) ==
  /\ IsOpen(d) /\ Goto(d, "vendor")
  /\ UNCHANGED <<dying, mDevice, mExtension, frame, sessions, maps, hal, memory, preview>>

\* and disableMsgType, msgTypeEnabled
enableMsgType(d) == Forward(d)
\* and recordingEnabled
previewEnabled(d) == Forward(d)
\* what the vendor keeps in its video frames is left out
storeMetaDataInBuffers(d) == Forward(d)
stopRecording(d) == Forward(d)
\* and cancelAutoFocus, takePicture, cancelPicture
autoFocus(d) == Forward(d)
\* getParametersLocked, translated or not
getParameters(d) == Forward(d)
sendCommand(d) == Forward(d)
\* a closed object has nothing to say
dumpState(d) == Forward(d)

VendorReturns(d) ==
  /\ pc[d] = "vendor"
  /\ \A m \in Memories : memory[m].asked = d => memory[m].state = "live"
  /\ Goto(d, "idle")
  /\ UNCHANGED <<dying, mDevice, mExtension, frame, sessions, maps, hal, memory, preview>>

startPreview(d) ==
  /\ IsOpen(d) /\ d \in WindowDevices /\ ~mExtension[d]
  /\ preview' = [preview EXCEPT ![d].running = TRUE]
  /\ UNCHANGED <<calls, sessions, maps, hal, memory>>

stopPreview(d) ==
  /\ IsOpen(d)
  /\ preview' = [preview EXCEPT ![d].running = FALSE]
  /\ Goto(d, "vendor")
  /\ UNCHANGED <<dying, mDevice, mExtension, frame, sessions, maps, hal, memory>>

\* parameters with another frame rate, taken while no preview runs
setParameters(d) ==
  /\ IsOpen(d) /\ d \in WindowDevices
  /\ ~mExtension[d] /\ ~preview[d].running
  /\ preview' = [preview EXCEPT ![d].frames = 0, ![d].pending = TRUE]
  /\ UNCHANGED <<calls, sessions, maps, hal, memory>>

\* recording at a new frame rate begins after a frame of the preview
startRecording(d) ==
  /\ IsOpen(d)
  /\ LET waits == preview[d].pending /\ preview[d].running /\ preview[d].frames = 0
     IN /\ Goto(d, IF waits THEN "wait" ELSE "vendor")
        /\ preview' = IF waits THEN preview ELSE [preview EXCEPT ![d].pending = FALSE]
  /\ UNCHANGED <<dying, mDevice, mExtension, frame, sessions, maps, hal, memory>>

\* the frame came, or a second passed
WaitEnds(d) ==
  /\ pc[d] = "wait"
  /\ preview' = [preview EXCEPT ![d].pending = FALSE]
  /\ Goto(d, "vendor")
  /\ UNCHANGED <<dying, mDevice, mExtension, frame, sessions, maps, hal, memory>>

\* the heap is looked up under mMemoryMapLock and used after it
releaseRecordingFrame(d, m) ==
  /\ IsOpen(d) /\ m \in mMemoryMap[d]
  /\ frame' = [frame EXCEPT ![d] = {m}]
  /\ Goto(d, "frame")
  /\ UNCHANGED <<dying, mDevice, mExtension, sessions, maps, hal, memory, preview>>

\* releaseRecordingFrameHandleBatch: the next frame, mLock still held
releaseNextFrame(d, m) ==
  /\ pc[d] = "frame" /\ m \in mMemoryMap[d]
  /\ frame' = [frame EXCEPT ![d] = {m}]
  /\ UNCHANGED <<pc, dying, mDevice, mExtension, sessions, maps, hal, memory, preview>>

FrameReleased(d) ==
  /\ pc[d] = "frame" /\ Goto(d, "idle")
  /\ frame' = [frame EXCEPT ![d] = {}]
  /\ UNCHANGED <<dying, mDevice, mExtension, sessions, maps, hal, memory, preview>>

\* whether a session's parameters pass as they are
sonyParametersLocked(d) == mExtension[d] \/ d \in sSonyClientSessions

(***************************************************************************)
(* The vendor's threads: memory.  The vendor keeps one user pointer for    *)
(* all its sessions, so it may pass any of them; it returns a session's    *)
(* heaps from within calls on that session.                                *)
(***************************************************************************)
registerMemory(d, m) == [client EXCEPT ![d] = @ \cup {m}]
unregisterMemory(d, m) == [client EXCEPT ![d] = @ \ {m}]

\* the heap is there: memory can be allocated and mapped
CameraHeapMemory(object, d) == [state |-> "live", device |-> object, asked |-> d]

SessionOf(slot, user) == IF slot = NoSlot THEN user ELSE sMemorySlots[slot]

sGetMemory(d, user, m) ==
  LET object == SessionOf(hal[d].slot, user)
  IN /\ hal[d].on /\ hal[user].on /\ ~mExtension[d] /\ pc[d] # "closing"
     /\ memory[m] = NoMemory /\ object # NoDevice
     /\ memory' = [memory EXCEPT ![m] = CameraHeapMemory(object, d)]
     /\ client' = registerMemory(object, m)
     /\ mMemoryMap' = [mMemoryMap EXCEPT ![object] = @ \cup {m}]
     /\ UNCHANGED <<calls, sessions, mForeignMemory, hal, preview>>

Forget(heaps, m) == [d \in Devices |-> IF d \in sExtensionSessions THEN heaps[d] \ {m} ELSE heaps[d]]

sForgetForeignMemory(m) ==
  /\ memory[m].state = "live" /\ pc[memory[m].asked] \in {"vendor", "closing"}
  /\ memory' = [memory EXCEPT ![m].state = "forgotten"]
  /\ LET knew == [d \in Devices |-> m \in mForeignMemory[d] /\ d \in sExtensionSessions]
     IN /\ mForeignMemory' = Forget(mForeignMemory, m)
        /\ mMemoryMap' = [d \in Devices |-> IF knew[d] THEN mMemoryMap[d] \ {m} ELSE mMemoryMap[d]]
        /\ client' = [d \in Devices |-> IF knew[d] THEN client[d] \ {m} ELSE client[d]]
  /\ UNCHANGED <<calls, sessions, hal, preview>>

\* unregistered, erased and, with the last reference, freed
sPutMemory(m) ==
  LET d == memory[m].device
  IN /\ memory[m].state = "forgotten"
     /\ client' = unregisterMemory(d, m)
     /\ mMemoryMap' = [mMemoryMap EXCEPT ![d] = @ \ {m}]
     /\ memory' = [memory EXCEPT ![m] = NoMemory]
     /\ UNCHANGED <<calls, sessions, mForeignMemory, hal, preview>>

\* heaps whose frames now reach a primary session's client, which is told of them
\* by the id it gave when it mapped them (sDataCb, sDataCbTimestamp)
sDataCb(d) ==
  {m \in Memories : hal[d].on /\ ~mExtension[d] /\ memory[m].state = "live" /\ memory[m].asked = d}

\* a heap is registered the first time, if the extension's client can map it
foreignMemoryId(d, m) ==
  /\ m \notin mForeignMemory[d]
  /\ client' = registerMemory(d, m)
  /\ mForeignMemory' = [mForeignMemory EXCEPT ![d] = @ \cup {m}]
  /\ mMemoryMap' = [mMemoryMap EXCEPT ![d] = @ \cup {m}]

\* a frame of any session, passed on to the extension
sExtDataCb(d, m) ==
  /\ hal[d].on /\ mExtension[d] /\ memory[m].state = "live"
  /\ foreignMemoryId(d, m)
  /\ UNCHANGED <<calls, sessions, hal, memory, preview>>

(***************************************************************************)
(* The preview window.  Given a new one, the vendor first returns the      *)
(* buffers it holds, already to the new window, and then has the buffers   *)
(* allocated anew before it takes any.                                     *)
(***************************************************************************)
setPreviewWindow(d, w) ==
  /\ IsOpen(d) /\ ~mExtension[d] /\ d \in WindowDevices
  /\ preview' = [preview EXCEPT ![d].window = w]
  /\ Goto(d, "window")
  /\ UNCHANGED <<dying, mDevice, mExtension, frame, sessions, maps, hal, memory>>

WindowSet(d) ==
  /\ pc[d] = "window" /\ preview[d].held = {}
  /\ preview' = [preview EXCEPT ![d].vendor = "given"]
  /\ Goto(d, "idle")
  /\ UNCHANGED <<dying, mDevice, mExtension, frame, sessions, maps, hal, memory>>

Preview(d, p) ==
  /\ preview' = [preview EXCEPT ![d] = p]
  /\ UNCHANGED <<calls, sessions, maps, hal, memory>>

\* the old window's buffers stay in the map
sSetBufferCountKeeps(d) ==
  /\ preview[d].vendor = "given" /\ preview[d].window # NoWindow /\ pc[d] # "window"
  /\ Preview(d, [preview[d] EXCEPT !.vendor = "configured"])

\* also sSetBuffersGeometry and sSetUsage
sSetBufferCount(d) ==
  /\ preview[d].vendor = "given" /\ preview[d].window # NoWindow /\ pc[d] # "window"
  /\ Preview(d, [cleanUpCirculatingBuffers(preview[d]) EXCEPT !.vendor = "configured"])

sDequeueBuffer(d, b) ==
  LET p == preview[d]
      import == IF p.circulating[b] = NoWindow THEN p.window ELSE p.circulating[b]
  IN /\ p.vendor = "configured" /\ p.running /\ p.window # NoWindow /\ b \notin p.held
     /\ pc[d] \notin {"window", "closing"}
     /\ Preview(d, [p EXCEPT !.circulating[b] = import, !.held = @ \cup {b}])

\* without a window the call fails and the buffer is gone all the same
sEnqueueBuffer(d, b) ==
  LET p == preview[d]
  IN /\ b \in p.held /\ p.running
     /\ Preview(d, [p EXCEPT !.held = @ \ {b}, !.frames = IF p.window = NoWindow THEN @ ELSE 1])

sCancelBuffer(d, b) ==
  /\ b \in preview[d].held
  /\ Preview(d, [preview[d] EXCEPT !.held = @ \ {b}])

(***************************************************************************)
Next ==
  \/ \E d \in Devices :
       \/ OpenDecide(d) \/ OpenDevice(d) \/ RegisterExtension(d) \/ RegisterPrimary(d)
       \/ SetCallbacks(d)
       \/ close(d) \/ CloseDevice(d) \/ Unregister(d) \/ ClearMaps(d) \/ destroy(d)
       \/ enableMsgType(d) \/ previewEnabled(d) \/ storeMetaDataInBuffers(d) \/ stopRecording(d)
       \/ autoFocus(d) \/ getParameters(d) \/ sendCommand(d) \/ dumpState(d) \/ VendorReturns(d)
       \/ startPreview(d) \/ stopPreview(d) \/ setParameters(d)
       \/ startRecording(d) \/ WaitEnds(d)
       \/ \E m \in Memories : releaseRecordingFrame(d, m) \/ releaseNextFrame(d, m) \/ sExtDataCb(d, m)
       \/ FrameReleased(d)
       \/ \E user \in Devices, m \in Memories : sGetMemory(d, user, m)
       \/ \E w \in Windows \cup {NoWindow} : setPreviewWindow(d, w)
       \/ WindowSet(d) \/ sSetBufferCount(d)
       \/ \E b \in Buffers : sDequeueBuffer(d, b) \/ sEnqueueBuffer(d, b) \/ sCancelBuffer(d, b)
  \/ \E m \in Memories : sForgetForeignMemory(m) \/ sPutMemory(m)

Spec == Init /\ [][Next]_vars

(***************************************************************************)
(* Properties.                                                             *)
(***************************************************************************)
\* the types of the variables
TypeOK ==
  /\ pc \in [Devices -> {"idle", "decided", "opened", "registered", "closing", "closed",
                         "unregistered", "vendor", "wait", "frame", "window"}]
  /\ dying \in [Devices -> BOOLEAN] /\ mDevice \in [Devices -> BOOLEAN]
  /\ mExtension \in [Devices -> BOOLEAN]
  /\ mMemorySlot \in [Devices -> Slots \cup {NoSlot}]
  /\ mMemoryMap \in [Devices -> SUBSET Memories]
  /\ mForeignMemory \in [Devices -> SUBSET Memories]
  /\ client \in [Devices -> SUBSET Memories] /\ frame \in [Devices -> SUBSET Memories]
  /\ sPrimarySessions \in Devices \cup {NoDevice}
  /\ sExtensionSessions \subseteq Devices /\ sSonyClientSessions \subseteq Devices
  /\ sMemorySlots \in [Slots -> Devices \cup {NoDevice}]
  /\ hal \in [Devices -> [on : BOOLEAN, slot : Slots \cup {NoSlot}]]
  /\ memory \in [Memories -> [state : {"none", "live", "forgotten"},
                              device : Devices \cup {NoDevice}, asked : Devices \cup {NoDevice}]]
  /\ preview \in [Devices -> [window : Windows \cup {NoWindow}, vendor : {"none", "given", "configured"},
                              running : BOOLEAN, circulating : [Buffers -> Windows \cup {NoWindow}],
                              held : SUBSET Buffers, pending : BOOLEAN, frames : 0..1]]

\* an object whose device is open, or whose close has yet to unregister it
InUse(d) == mDevice[d] \/ pc[d] = "closed"
\* an open that has registered its session
IsRegistered(d) == mDevice[d] /\ pc[d] # "opened"

\* The four tables of sessions hold bare pointers.  Each names an object that
\* is open, of its kind, and every open session is where its kind belongs,
\* even after two opens that raced both became primary (open, closeLocked).
SessionsAgree ==
  /\ TypeOK
  /\ sPrimarySessions # NoDevice => InUse(sPrimarySessions) /\ ~mExtension[sPrimarySessions]
  /\ \A d \in sExtensionSessions : InUse(d) /\ mExtension[d]
  /\ \A d \in sSonyClientSessions : InUse(d) /\ ~mExtension[d]
  /\ \A d \in Devices, s \in Slots : sMemorySlots[s] = d <=> mMemorySlot[d] = s
  /\ \A d \in Devices : mMemorySlot[d] # NoSlot => InUse(d) /\ ~mExtension[d]
  /\ \A d \in Devices : IsRegistered(d) =>
       IF mExtension[d] THEN d \in sExtensionSessions ELSE mMemorySlot[d] # NoSlot

\* A heap belongs to the session whose callback asked for it, whatever user
\* pointer the vendor passed; its session and that session's client know
\* exactly its heaps, so that no frame of another comes to it; an extension knows
\* no heap whose release has begun; and a frame that a primary session gives back
\* lies in a heap that is not freed, though mMemoryMapLock is let go before the
\* heap is used, which nothing of the kind promises an extension (sGetMemorySlot,
\* sPutMemory, sDataCb, sForgetForeignMemory, releaseRecordingFrameLocked,
\* closeLocked).
MemoryOwned ==
  /\ \A m \in Memories : memory[m].device = memory[m].asked
  /\ \A d \in Devices : ~mExtension[d] => mMemoryMap[d] = {m \in Memories : memory[m].device = d}
  /\ \A d \in sExtensionSessions : \A m \in mForeignMemory[d] : memory[m].state = "live"
  /\ \A d \in Devices : mDevice[d] /\ pc[d] # "opened" => client[d] = mMemoryMap[d]
  /\ \A d \in Devices : sDataCb(d) \subseteq client[d]
  /\ \A d \in Devices : ~mExtension[d] => \A m \in frame[d] : memory[m] # NoMemory

\* Every buffer the vendor holds is found by sEnqueueBuffer and sCancelBuffer,
\* whose at() would throw, and while the window's buffers are in use it is
\* that window's, across windows that come and go, closes and reopens.
BuffersKnown ==
  \A d \in Devices : \A b \in preview[d].held :
    /\ preview[d].circulating[b] # NoWindow
    /\ preview[d].vendor = "configured" /\ pc[d] # "window" => preview[d].circulating[b] = preview[d].window

\* A client of Android's API, whose session's parameters are translated both
\* ways (getParametersLocked, setParametersLocked), reads what it chose, and sees
\* nothing change because the camera is opened.
ParametersKept ==
  \A d \in Devices : IsRegistered(d) /\ ~sonyParametersLocked(d) => ChoiceKept /\ OpenKeeps
================================================================================
