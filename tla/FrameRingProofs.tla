--------------------------- MODULE FrameRingProofs ---------------------------
(***************************************************************************)
(* For any number of slots, sizes and frames: what the reader of the ring  *)
(* takes is one frame, in what order it takes them, and that it never      *)
(* rests before a newer one.                                               *)
(***************************************************************************)
EXTENDS FrameRing, TLAPS

\* The next slot is a slot.
LEMMA NextSlot ==
    ASSUME NEW s \in Slot
    PROVE  (s + 1) % Slots \in Slot
    BY SlotsAssumption DEF Slot

USE DEF Frames, Copies, Handed, SlotStates, Places, ReaderPlaces

\* The initial state is well typed.
LEMMA TypeInit == Init => TypeOK
<1> SUFFICES ASSUME Init PROVE TypeOK
    OBVIOUS
<1>1. Zero \in Frames /\ Nothing \in Copies
    BY DEF Zero, Nothing
<1>2. 0 \in Slot /\ Resting \in [at : ReaderPlaces, slot : Slot, seq : Nat, tries : 0 .. Tries - 1]
    BY SlotsAssumption DEF Slot, Resting, Tries
<1> QED
    BY <1>1, <1>2 DEF Init, TypeOK, Zero

\* A step of the driver changes one slot, and leaves the reader's variables.
LEMMA TypeDriver ==
    ASSUME TypeOK, Driver
    PROVE  TypeOK'
<1> USE DEF memory, driverVars, readerVars, Moves
<1>1. CASE Begin
    <2> DEFINE s == IF latest = None THEN 0 ELSE (latest + 1) % Slots
    <2>1. s \in Slot
        <3>1. 0 \in Slot
            BY SlotsAssumption DEF Slot
        <3>2. latest # None => latest \in Slot
            BY DEF TypeOK
        <3> QED
            BY <3>1, <3>2, NextSlot
    <2>2. chain \in Sizes /\ chain \in Nat
        BY <1>1, SizesAssumption DEF Begin, TypeOK
    <2>3. ring' = [ring EXCEPT ![s].seq = @ + 1]
        BY <1>1 DEF Begin
    <2>4. ring' \in [Slot -> SlotStates]
        <3> HIDE DEF s
        <3>1. ring[s] \in SlotStates
            BY <2>1 DEF TypeOK
        <3>2. [ring[s] EXCEPT !.seq = @ + 1] \in SlotStates
            BY <3>1
        <3> QED
            BY <2>1, <2>3, <3>2 DEF TypeOK
    <2>5. writer' = [at |-> "top", slot |-> s,
                     frame |-> [id |-> made + 1, width |-> chain, number |-> count + 1]]
        BY <1>1 DEF Begin
    <2>6. writer' \in [at : Places, slot : Slot, frame : Frames]
        <3> HIDE DEF s
        <3> QED
            BY <2>1, <2>2, <2>5 DEF TypeOK
    <2>7. made' \in Nat /\ presented' \in BOOLEAN
        BY <1>1 DEF Begin, TypeOK
    <2> QED
        BY <1>1, <2>4, <2>6, <2>7 DEF Begin, TypeOK
<1>2. CASE WriteTop \/ WriteBottom
    <2>1. ring' \in [Slot -> SlotStates]
        <3>1. ring \in [Slot -> SlotStates] /\ writer.slot \in Slot /\ writer.frame \in Frames
            BY DEF TypeOK
        <3>2. CASE WriteTop
            BY <3>1, <3>2 DEF WriteTop
        <3>3. CASE WriteBottom
            BY <3>1, <3>3 DEF WriteBottom
        <3> QED
            BY <1>2, <3>2, <3>3
    <2>2. writer' \in [at : Places, slot : Slot, frame : Frames]
        BY <1>2 DEF WriteTop, WriteBottom, TypeOK
    <2> QED
        BY <1>2, <2>1, <2>2 DEF WriteTop, WriteBottom, TypeOK
<1>3. CASE WriteWidth
    <2>1. ring' \in [Slot -> SlotStates]
        BY <1>3 DEF WriteWidth, TypeOK
    <2>2. writer' \in [at : Places, slot : Slot, frame : Frames]
        BY <1>3 DEF WriteWidth, TypeOK
    <2> QED
        BY <1>3, <2>1, <2>2 DEF WriteWidth, TypeOK
<1>4. CASE WritePitch
    <2>1. ring' \in [Slot -> SlotStates]
        BY <1>4 DEF WritePitch, TypeOK
    <2>2. /\ writer' \in [at : Places, slot : Slot, frame : Frames]
          /\ count' \in Nat
        BY <1>4 DEF WritePitch, TypeOK
    <2> QED
        BY <1>4, <2>1, <2>2 DEF WritePitch, TypeOK
<1>5. CASE Close
    BY <1>5, SMTT(30) DEF Close, TypeOK
<1>6. CASE Point
    BY <1>6 DEF Point, TypeOK
<1>7. CASE Signal
    BY <1>7 DEF Signal, TypeOK
<1>8. CASE Assign \/ Unassign \/ Restart
    <2>1. /\ chain' \in Sizes \union {None} /\ count' \in Nat
          /\ latest' \in Slot \union {None}
        BY <1>8 DEF Assign, Unassign, Restart, TypeOK
    <2>3. presented' \in BOOLEAN
        BY <1>8 DEF Assign, Unassign, Restart, TypeOK
    <2>2. UNCHANGED <<ring, event, mode, writer, made, readerVars>>
        BY <1>8 DEF Assign, Unassign, Restart
    <2> QED
        BY <2>1, <2>2, <2>3 DEF TypeOK
<1>9. CASE \E size \in Sizes : Commit(size)
    BY <1>9 DEF Commit, TypeOK
<1> QED
    BY <1>1, <1>2, <1>3, <1>4, <1>5, <1>6, <1>7, <1>8, <1>9 DEF Driver, Publish

\* A reader at rest and an empty copy are well typed.
LEMMA RestTypes ==
    /\ 0 \in Slot
    /\ Resting \in [at : ReaderPlaces, slot : Slot, seq : Nat, tries : 0 .. Tries - 1]
    /\ Nothing \in Copies
    BY SlotsAssumption DEF Slot, Resting, Tries, Nothing, Zero

\* The reader's steps keep the types.
LEMMA TypeReader ==
    ASSUME TypeOK, Reader
    PROVE  TypeOK'
<1> USE DEF memory, driverVars, readerVars, Reads, Rests
<1>0. ASSUME Retry
      PROVE  /\ reader' \in [at : ReaderPlaces, slot : Slot, seq : Nat, tries : 0 .. Tries - 1]
             /\ got' \in Copies
    <2>1. CASE reader.tries + 1 < Tries
        <3>1. reader.tries + 1 \in 0 .. Tries - 1
            BY <2>1 DEF TypeOK, Tries
        <3> QED
            BY <1>0, <2>1, <3>1, RestTypes DEF Retry, TypeOK
    <2>2. CASE ~(reader.tries + 1 < Tries)
        BY <1>0, <2>2, RestTypes DEF Retry
    <2> QED
        BY <2>1, <2>2
<1>1. CASE Wake
    <2>1. reader' \in [at : ReaderPlaces, slot : Slot, seq : Nat, tries : 0 .. Tries - 1]
        BY <1>1 DEF Wake, TypeOK
    <2> QED
        BY <1>1, <2>1 DEF Wake, TypeOK
<1>2. CASE ReadLatest
    BY <1>2, RestTypes DEF ReadLatest, TypeOK, Tries
<1>3. CASE ReadSeq
    <2>1. /\ reader' \in [at : ReaderPlaces, slot : Slot, seq : Nat, tries : 0 .. Tries - 1]
          /\ got' \in Copies
        <3>1. ring[reader.slot] \in SlotStates /\ reader.at \in ReaderPlaces
            BY DEF TypeOK
        <3>2. CASE Retry
            BY <1>0, <3>2
        <3>3. CASE ~Retry
            <4>1. /\ reader' = [reader EXCEPT !.at = "width",
                                             !.seq = ring[reader.slot].seq]
                  /\ got' = got
                BY <1>3, <3>3 DEF ReadSeq
            <4>2. /\ reader \in [at : ReaderPlaces, slot : Slot, seq : Nat,
                                 tries : 0 .. Tries - 1]
                  /\ got \in Copies
                BY DEF TypeOK
            <4>3. ring[reader.slot].seq \in Nat
                BY <3>1
            <4> QED
                BY <4>1, <4>2, <4>3
        <3> QED
            BY <3>2, <3>3
    <2> QED
        BY <1>3, <2>1, SMTT(30) DEF ReadSeq, Retry, TypeOK
<1>4. CASE ReadWidth
    BY <1>4 DEF ReadWidth, TypeOK
<1>5. CASE ReadPitch
    <2>1. reader' \in [at : ReaderPlaces, slot : Slot, seq : Nat, tries : 0 .. Tries - 1]
        BY <1>5, RestTypes, SMTT(30) DEF ReadPitch, TypeOK
    <2>2. ring[reader.slot] \in SlotStates
        BY DEF TypeOK
    <2>3. got' \in Copies
        <3>1. got \in Copies
            BY DEF TypeOK
        <3>2. [got EXCEPT !.pitch = ring[reader.slot].pitch,
                          !.number = ring[reader.slot].number] \in Copies
            BY <3>1, <2>2
        <3>3. \/ got' = Nothing
              \/ got' = [got EXCEPT !.pitch = ring[reader.slot].pitch,
                                    !.number = ring[reader.slot].number]
            BY <1>5 DEF ReadPitch
        <3> QED
            BY <3>2, <3>3, RestTypes
    <2> QED
        BY <1>5, <2>1, <2>3 DEF ReadPitch, TypeOK
<1>6. CASE ReadTop \/ ReadBottom
    BY <1>6, SMTT(30) DEF ReadTop, ReadBottom, TypeOK
<1>7. CASE Check
    BY <1>7, <1>0, SMTT(30) DEF Check, TypeOK
<1>8. CASE HandOn
    BY <1>8, RestTypes DEF HandOn, TypeOK
<1>9. CASE Recover
    BY <1>9, RestTypes DEF Recover, TypeOK
<1> QED
    BY <1>1, <1>2, <1>3, <1>4, <1>5, <1>6, <1>7, <1>8, <1>9 DEF Reader

\* Every reachable state of the ring, the driver and the reader is well typed.
THEOREM TypeCorrect == Spec => []TypeOK
<1>1. TypeOK /\ UNCHANGED vars => TypeOK'
    BY DEF TypeOK, vars, memory, driverVars, readerVars
<1>2. TypeOK /\ [Next]_vars => TypeOK'
    BY <1>1, TypeDriver, TypeReader DEF Next
<1> QED
    BY TypeInit, <1>2, PTL DEF Spec

(***************************************************************************)
(* Whole frames.                                                           *)
(***************************************************************************)
Open(s) == ring[s].seq % 2 = 1
Writing == writer.at \in {"top", "bottom", "width", "pitch", "close"}

\* A closed slot holds one frame; the open one is the writer's.
SlotsInv ==
    \A s \in Slot : IF Open(s) THEN Writing /\ s = writer.slot ELSE Whole(ring[s])

\* What the writer has written of its frame.
WriterInv ==
    LET r == ring[writer.slot]
        f == writer.frame
    IN  /\ Writing => Open(writer.slot)
        /\ writer.at \in {"bottom", "width", "pitch", "close"} => r.top = f
        /\ writer.at \in {"width", "pitch", "close"} => r.bottom = f
        /\ writer.at \in {"pitch", "close"} => r.width = f.width
        /\ writer.at = "close" => r.pitch = f.width /\ r.number = f.number

Copying == reader.at \in {"width", "pitch", "top", "bottom", "check"}

\* The slot was closed when the reader began.  While its number is the same the
\* reader has copied what is there.
ReaderInv ==
    LET r == ring[reader.slot]
    IN  Copying =>
        /\ reader.seq % 2 = 0
        /\ r.seq >= reader.seq
        /\ r.seq = reader.seq =>
            /\ reader.at # "width" => got.width = r.width
            /\ reader.at \in {"top", "bottom", "check"} =>
                  got.pitch = r.pitch /\ got.number = r.number
            /\ reader.at \in {"bottom", "check"} => got.top = r.top
            /\ reader.at = "check" => got.bottom = r.bottom

\* A refused geometry was read while the number moved.
ErrorInv == reader.at = "error" => ring[reader.slot].seq > reader.seq

TakenInv == (reader.at = "tag" => Whole(got)) /\ WholeFrames

WholeInv == SlotsInv /\ WriterInv /\ ReaderInv /\ ErrorInv /\ TakenInv

\* A step of the driver that touches a slot: it opens one, writes the one it has
\* open, or closes that.
LEMMA DriverSteps ==
    ASSUME TypeOK, WholeInv, Driver
    PROVE  \/ UNCHANGED <<ring, writer>>
           \/ Begin
           \/ WriteTop \/ WriteBottom \/ WriteWidth \/ WritePitch
           \/ Close
           \/ UNCHANGED ring /\ writer.at \in {"point", "signal"}
              /\ \E at \in {"signal", "idle"} : writer' = [writer EXCEPT !.at = at]
<1> USE DEF memory, driverVars, readerVars, Moves
<1>1. CASE Point \/ Signal
    BY <1>1 DEF Point, Signal
<1>2. CASE Assign \/ Unassign \/ Restart \/ \E size \in Sizes : Commit(size)
    BY <1>2 DEF Assign, Unassign, Restart, Commit
<1> QED
    BY <1>1, <1>2 DEF Driver, Publish

\* A number never falls, and a closed slot changes only with its number.
LEMMA ClosedSlots ==
    ASSUME TypeOK, WholeInv, Driver, NEW s \in Slot
    PROVE  /\ ring'[s].seq \in Nat /\ ring'[s].seq >= ring[s].seq
           /\ ring'[s].seq = ring[s].seq /\ ~Open(s) => ring'[s] = ring[s]
<1>0. ring[s] \in SlotStates /\ ring \in [Slot -> SlotStates] /\ writer.slot \in Slot
    BY DEF TypeOK
<1>1. CASE Begin
    <2> DEFINE t == IF latest = None THEN 0 ELSE (latest + 1) % Slots
    <2>1. ring' = [ring EXCEPT ![t].seq = @ + 1]
        BY <1>1 DEF Begin
    <2> HIDE DEF t
    <2> QED
        BY <1>0, <2>1
<1>2. CASE WriteTop \/ WriteBottom \/ WriteWidth \/ WritePitch
    <2>1. Open(writer.slot)
        BY <1>2 DEF WholeInv, WriterInv, Writing, WriteTop, WriteBottom, WriteWidth, WritePitch
    <2>2. s # writer.slot => ring'[s] = ring[s]
        BY <1>0, <1>2 DEF WriteTop, WriteBottom, WriteWidth, WritePitch
    <2>3. ring'[s].seq = ring[s].seq
        BY <1>0, <1>2 DEF WriteTop, WriteBottom, WriteWidth, WritePitch
    <2> QED
        BY <1>0, <2>1, <2>2, <2>3
<1>3. CASE Close
    BY <1>0, <1>3 DEF Close
<1>4. CASE UNCHANGED ring
    BY <1>0, <1>4
<1> QED
    BY <1>1, <1>2, <1>3, <1>4, DriverSteps

\* The driver's steps keep the slots and the writer as the invariant says.
LEMMA SlotsKept ==
    ASSUME TypeOK, WholeInv, Driver
    PROVE  SlotsInv' /\ WriterInv'
<1>0. /\ ring \in [Slot -> SlotStates]
      /\ writer \in [at : Places, slot : Slot, frame : Frames]
    BY DEF TypeOK
<1>1. CASE Begin
    <2>1. PICK t \in Slot : /\ ring' = [ring EXCEPT ![t].seq = @ + 1]
                            /\ writer'.at = "top" /\ writer'.slot = t /\ writer.at = "idle"
        <3>1. 0 \in Slot
            BY RestTypes
        <3>2. latest # None => latest \in Slot
            BY DEF TypeOK
        <3>3. (IF latest = None THEN 0 ELSE (latest + 1) % Slots) \in Slot
            BY <3>1, <3>2, NextSlot
        <3> QED
            BY <1>1, <3>3 DEF Begin
    <2>3. \A s \in Slot : ~Open(s) /\ Whole(ring[s])
        BY <2>1 DEF WholeInv, SlotsInv, Writing
    <2>4. ring[t].seq \in Nat /\ ring'[t].seq = ring[t].seq + 1
        BY <1>0, <2>1
    <2>5. Open(t)'
        BY <2>3, <2>4 DEF Open
    <2>6. \A s \in Slot : s # t => ring'[s] = ring[s]
        BY <1>0, <2>1
    <2>7. SlotsInv'
        BY <2>1, <2>3, <2>5, <2>6 DEF SlotsInv, Open, Whole, Writing
    <2>8. WriterInv'
        BY <2>1, <2>5 DEF WriterInv, Open, Writing
    <2> QED
        BY <2>7, <2>8
<1>2. CASE WriteTop \/ WriteBottom \/ WriteWidth \/ WritePitch
    <2>1. /\ Writing /\ Open(writer.slot) /\ Writing'
          /\ writer'.slot = writer.slot /\ writer'.frame = writer.frame
        BY <1>0, <1>2
           DEF WholeInv, WriterInv, Writing, WriteTop, WriteBottom, WriteWidth, WritePitch, Moves
    <2>2. \A s \in Slot : s # writer.slot => ring'[s] = ring[s]
        BY <1>0, <1>2 DEF WriteTop, WriteBottom, WriteWidth, WritePitch
    <2>3. ring'[writer.slot].seq = ring[writer.slot].seq
        BY <1>0, <1>2 DEF WriteTop, WriteBottom, WriteWidth, WritePitch
    <2>4. \A s \in Slot : Open(s)' = Open(s)
        BY <2>2, <2>3 DEF Open
    <2>5. SlotsInv'
        BY <2>1, <2>2, <2>4 DEF WholeInv, SlotsInv, Whole
    <2>6. WriterInv'
        <3>1. CASE WriteTop
            BY <1>0, <2>1, <2>3, <3>1 DEF WholeInv, WriterInv, WriteTop, Moves, Open, Writing
        <3>2. CASE WriteBottom
            BY <1>0, <2>1, <2>3, <3>2 DEF WholeInv, WriterInv, WriteBottom, Moves, Open, Writing
        <3>3. CASE WriteWidth
            BY <1>0, <2>1, <2>3, <3>3 DEF WholeInv, WriterInv, WriteWidth, Moves, Open, Writing
        <3>4. CASE WritePitch
            BY <1>0, <2>1, <2>3, <3>4 DEF WholeInv, WriterInv, WritePitch, Moves, Open, Writing
        <3> QED
            BY <1>2, <3>1, <3>2, <3>3, <3>4
    <2> QED
        BY <2>5, <2>6
<1>3. CASE Close
    <2>1. /\ writer.at = "close" /\ writer'.at = "point" /\ writer'.slot = writer.slot
          /\ ring' = [ring EXCEPT ![writer.slot].seq = @ + 1]
        BY <1>0, <1>3 DEF Close, Moves
    <2>2. Open(writer.slot) /\ Whole(ring[writer.slot])
        BY <2>1 DEF WholeInv, WriterInv, Writing, Whole
    <2>3. /\ ring[writer.slot].seq \in Nat
          /\ ring'[writer.slot].seq = ring[writer.slot].seq + 1
        BY <1>0, <2>1
    <2>4. ~Open(writer.slot)' 
        BY <2>1, <2>2, <2>3 DEF Open
    <2>5. Whole(ring'[writer.slot])
        BY <1>0, <2>1, <2>2 DEF Whole
    <2>6. \A s \in Slot : s # writer.slot => ring'[s] = ring[s]
        BY <1>0, <2>1
    <2>7. SlotsInv'
        BY <2>1, <2>4, <2>5, <2>6 DEF WholeInv, SlotsInv, Open
    <2> QED
        BY <2>1, <2>7 DEF WriterInv, Writing
<1>4. CASE /\ UNCHANGED ring
           /\ writer.at \in {"point", "signal"}
           /\ \E at \in {"signal", "idle"} : writer' = [writer EXCEPT !.at = at]
    BY <1>0, <1>4 DEF WholeInv, SlotsInv, WriterInv, Writing, Open
<1>5. CASE UNCHANGED <<ring, writer>>
    BY <1>5 DEF WholeInv, SlotsInv, WriterInv, Writing, Open
<1> QED
    BY <1>1, <1>2, <1>3, <1>4, <1>5, DriverSteps

\* The driver leaves what the reader knows true.
LEMMA ReaderKept ==
    ASSUME TypeOK, WholeInv, Driver
    PROVE  ReaderInv' /\ ErrorInv' /\ TakenInv'
<1>1. UNCHANGED readerVars
    BY DEF Driver, Publish, Begin, WriteTop, WriteBottom, WriteWidth, WritePitch, Close,
           Point, Signal, Assign, Unassign, Restart, Commit
<1>2. reader.slot \in Slot /\ reader.seq \in Nat /\ ring[reader.slot].seq \in Nat
    BY DEF TypeOK
<1>3. /\ ring'[reader.slot].seq \in Nat
      /\ ring'[reader.slot].seq >= ring[reader.slot].seq
      /\ ring'[reader.slot].seq = ring[reader.slot].seq /\ ~Open(reader.slot)
            => ring'[reader.slot] = ring[reader.slot]
    BY <1>2, ClosedSlots
<1>4. ReaderInv'
    <2> SUFFICES ASSUME Copying
                 PROVE  ReaderInv'
        BY <1>1 DEF ReaderInv, Copying, readerVars
    <2>1. /\ reader.seq % 2 = 0
          /\ ring[reader.slot].seq >= reader.seq
        BY DEF WholeInv, ReaderInv
    <2>2. ring'[reader.slot].seq >= reader.seq
        BY <1>2, <1>3, <2>1
    <2>3. CASE ring'[reader.slot].seq = reader.seq
        <3>1. ring[reader.slot].seq = reader.seq
            BY <1>2, <1>3, <2>1, <2>3
        <3>2. ring'[reader.slot] = ring[reader.slot]
            BY <1>3, <2>1, <2>3, <3>1 DEF Open
        <3> QED
            BY <1>1, <2>1, <2>2, <3>1, <3>2 DEF WholeInv, ReaderInv, readerVars, Copying
    <2> QED
        BY <1>1, <2>1, <2>2, <2>3 DEF ReaderInv, readerVars
<1>5. ErrorInv'
    BY <1>1, <1>2, <1>3 DEF WholeInv, ErrorInv, readerVars
<1>6. TakenInv'
    BY <1>1 DEF WholeInv, TakenInv, WholeFrames, readerVars
<1> QED
    BY <1>4, <1>5, <1>6

\* What the reader's own steps give: it copies, it compares, it rests.
LEMMA ReaderSteps ==
    ASSUME TypeOK, WholeInv, Reader
    PROVE  WholeInv'
<1> USE DEF Reads, Rests, Resting
<1>1. UNCHANGED <<ring, writer>>
    BY DEF Reader, Wake, ReadLatest, ReadSeq, ReadWidth, ReadPitch, ReadTop, ReadBottom,
           Check, HandOn, Recover, memory, driverVars
<1>2. SlotsInv' /\ WriterInv'
    BY <1>1 DEF WholeInv, SlotsInv, WriterInv, Writing, Open
<1>3. /\ reader \in [at : ReaderPlaces, slot : Slot, seq : Nat, tries : 0 .. Tries - 1]
      /\ got \in Copies /\ ring[reader.slot] \in SlotStates
    BY DEF TypeOK
<1>4. ASSUME reader'.at \in {"wait", "latest", "seq"}, UNCHANGED shown
      PROVE  ReaderInv' /\ ErrorInv' /\ TakenInv'
    BY <1>4 DEF WholeInv, ReaderInv, ErrorInv, TakenInv, Copying, WholeFrames
<1>5. ASSUME Retry
      PROVE  reader'.at \in {"wait", "seq"}
    BY <1>3, <1>5 DEF Retry
<1>6. CASE Wake \/ ReadLatest \/ Recover
    BY <1>2, <1>3, <1>4, <1>6 DEF Wake, ReadLatest, Recover, WholeInv
<1>7. CASE ReadSeq
    <2>1. CASE Retry
        BY <1>2, <1>4, <1>5, <1>7, <2>1 DEF ReadSeq, WholeInv
    <2>2. CASE ~Retry
        <3>1. /\ reader'.at = "width" /\ reader'.slot = reader.slot
              /\ reader'.seq = ring[reader.slot].seq
              /\ ring[reader.slot].seq \in Nat
              /\ ring[reader.slot].seq % 2 # 1
              /\ UNCHANGED shown
            BY <1>3, <1>7, <2>2 DEF ReadSeq
        <3> QED
            BY <1>1, <1>2, <3>1
               DEF WholeInv, ReaderInv, ErrorInv, TakenInv, Copying, WholeFrames
    <2> QED
        BY <2>1, <2>2
<1>8. CASE ReadWidth
    <2>1. /\ reader.at = "width" /\ reader'.at = "pitch" /\ reader'.slot = reader.slot
          /\ reader'.seq = reader.seq /\ UNCHANGED shown
          /\ got'.width = ring[reader.slot].width
        BY <1>3, <1>8 DEF ReadWidth
    <2> QED
        BY <1>1, <1>2, <2>1 DEF WholeInv, ReaderInv, ErrorInv, TakenInv, Copying, WholeFrames
<1>9. CASE ReadPitch
    <2>1. reader.at = "pitch" /\ UNCHANGED shown
        BY <1>9 DEF ReadPitch
    <2>2. CASE reader' = Resting
        BY <1>2, <1>4, <2>1, <2>2 DEF WholeInv
    <2>3. CASE reader'.at = "error"
        <3>1. /\ reader'.slot = reader.slot /\ reader'.seq = reader.seq
              /\ ring[reader.slot].pitch < got.width
            BY <1>3, <1>9, <2>3 DEF ReadPitch
        <3>2. /\ reader.seq % 2 = 0 /\ ring[reader.slot].seq >= reader.seq
              /\ ring[reader.slot].seq = reader.seq => got.width = ring[reader.slot].width
            BY <2>1 DEF WholeInv, ReaderInv, Copying
        <3>3. ring[reader.slot].seq # reader.seq
            <4> SUFFICES ASSUME ring[reader.slot].seq = reader.seq
                         PROVE  FALSE
                OBVIOUS
            <4>1. Whole(ring[reader.slot])
                BY <1>3, <3>2 DEF WholeInv, SlotsInv, Open
            <4> QED
                BY <1>3, <3>1, <3>2, <4>1 DEF Whole
        <3>4. ring[reader.slot].seq > reader.seq
            BY <1>3, <3>2, <3>3
        <3> QED
            BY <1>1, <1>2, <2>1, <2>3, <3>1, <3>4
               DEF WholeInv, ReaderInv, ErrorInv, TakenInv, Copying, WholeFrames
    <2>4. CASE reader'.at = "top"
        <3>1. /\ reader'.slot = reader.slot /\ reader'.seq = reader.seq
              /\ got'.width = got.width /\ got'.pitch = ring[reader.slot].pitch
              /\ got'.number = ring[reader.slot].number
            <4>1. /\ reader' = [reader EXCEPT !.at = "top"]
                  /\ got' = [got EXCEPT !.pitch = ring[reader.slot].pitch,
                                        !.number = ring[reader.slot].number]
                BY <1>3, <1>9, <2>4 DEF ReadPitch
            <4> QED
                BY <1>3, <4>1
        <3> QED
            BY <1>1, <1>2, <2>1, <2>4, <3>1
               DEF WholeInv, ReaderInv, ErrorInv, TakenInv, Copying, WholeFrames
    <2> QED
        BY <1>3, <1>9, <2>2, <2>3, <2>4 DEF ReadPitch
<1>10. CASE ReadTop
    <2>1. /\ reader.at = "top" /\ reader'.at = "bottom" /\ reader'.slot = reader.slot
          /\ reader'.seq = reader.seq /\ UNCHANGED shown
          /\ got' = [got EXCEPT !.top = ring[reader.slot].top]
        BY <1>3, <1>10 DEF ReadTop
    <2> QED
        BY <1>1, <1>2, <1>3, <2>1 DEF WholeInv, ReaderInv, ErrorInv, TakenInv, Copying, WholeFrames
<1>11. CASE ReadBottom
    <2>1. /\ reader.at = "bottom" /\ reader'.at = "check" /\ reader'.slot = reader.slot
          /\ reader'.seq = reader.seq /\ UNCHANGED shown
          /\ got' = [got EXCEPT !.bottom = ring[reader.slot].bottom]
        BY <1>3, <1>11 DEF ReadBottom
    <2> QED
        BY <1>1, <1>2, <1>3, <2>1 DEF WholeInv, ReaderInv, ErrorInv, TakenInv, Copying, WholeFrames
<1>12. CASE Check
    <2>1. CASE ring[reader.slot].seq = reader.seq
        <3>1. /\ reader.at = "check" /\ reader'.at = "tag"
              /\ UNCHANGED <<got, shown>>
            BY <1>3, <1>12, <2>1 DEF Check
        <3>2. /\ reader.seq % 2 = 0
              /\ got.width = ring[reader.slot].width /\ got.pitch = ring[reader.slot].pitch
              /\ got.number = ring[reader.slot].number
              /\ got.top = ring[reader.slot].top /\ got.bottom = ring[reader.slot].bottom
            BY <2>1, <3>1 DEF WholeInv, ReaderInv, Copying
        <3>3. Whole(ring[reader.slot])
            BY <1>3, <2>1, <3>2 DEF WholeInv, SlotsInv, Open
        <3>4. Whole(got)
            BY <3>2, <3>3 DEF Whole
        <3> QED
            BY <1>2, <3>1, <3>4
               DEF WholeInv, ReaderInv, ErrorInv, TakenInv, Copying, WholeFrames
    <2>2. CASE ring[reader.slot].seq # reader.seq
        BY <1>2, <1>4, <1>5, <1>12, <2>2 DEF Check, WholeInv
    <2> QED
        BY <2>1, <2>2
<1>13. CASE HandOn
    <2>1. /\ reader.at = "tag" /\ reader' = Resting /\ shown'.copy = got
        BY <1>13 DEF HandOn
    <2>2. Whole(got)
        BY <2>1 DEF WholeInv, TakenInv
    <2> QED
        BY <1>2, <2>1, <2>2
           DEF WholeInv, ReaderInv, ErrorInv, TakenInv, Copying, WholeFrames
<1> QED
    BY <1>2, <1>6, <1>7, <1>8, <1>9, <1>10, <1>11, <1>12, <1>13 DEF Reader, WholeInv

\* At first every slot is whole.
LEMMA WholeInit == Init => WholeInv
<1> SUFFICES ASSUME Init PROVE WholeInv
    OBVIOUS
<1>1. Whole(Nothing)
    BY DEF Whole, Nothing, Zero
<1>2. \A s \in Slot : ~Open(s) /\ Whole(ring[s])
    BY DEF Init, Open, Whole, Zero
<1> QED
    BY <1>1, <1>2
       DEF Init, Resting, WholeInv, SlotsInv, WriterInv, Writing, ReaderInv, Copying,
           ErrorInv, TakenInv, WholeFrames

\* Type and whole-frame invariant together are inductive.
LEMMA WholeAlways == Spec => [](TypeOK /\ WholeInv)
<1>1. Init => TypeOK /\ WholeInv
    BY TypeInit, WholeInit
<1>2. ASSUME TypeOK, WholeInv, [Next]_vars
      PROVE  (TypeOK /\ WholeInv)'
    <2>1. CASE Driver
        BY <1>2, <2>1, TypeDriver, SlotsKept, ReaderKept DEF WholeInv
    <2>2. CASE Reader
        BY <1>2, <2>2, TypeReader, ReaderSteps
    <2>3. CASE UNCHANGED vars
        <3>1. TypeOK'
            BY <1>2, <2>3 DEF TypeOK, vars, memory, driverVars, readerVars
        <3>2. WholeInv'
            BY <1>2, <2>3
               DEF WholeInv, SlotsInv, WriterInv, ReaderInv, ErrorInv, TakenInv, Copying,
                   Writing, Open, WholeFrames, vars, memory, driverVars, readerVars
        <3> QED
            BY <3>1, <3>2
    <2> QED
        BY <1>2, <2>1, <2>2, <2>3 DEF Next
<1> QED
    BY <1>1, <1>2, PTL DEF Spec

\* What the reader hands on is one frame of the driver, header and rows, however
\* the two interleave.
THEOREM FramesAreWhole == Spec => []WholeFrames
<1>1. TypeOK /\ WholeInv => WholeFrames
    BY DEF WholeInv, TakenInv
<1> QED
    BY <1>1, WholeAlways, PTL

\* A geometry the reader refuses was being written: the number it read before is
\* not the slot's any more.
THEOREM RefusalsAreTorn == Spec => []ErrorsAreTorn
<1>1. TypeOK /\ WholeInv => ErrorsAreTorn
    BY DEF TypeOK, WholeInv, ErrorInv, ErrorsAreTorn
<1> QED
    BY <1>1, WholeAlways, PTL

(***************************************************************************)
(* Frames nearly in order.                                                 *)
(***************************************************************************)
\* The identity of a frame that was closed: the one being written is not.
Published(id) == id <= made /\ (Writing => id < made)

\* The frame being written, or to be named, is the newest; the closed slots hold
\* older ones, the one it is written to in the end excepted.
MadeInv ==
    /\ made \in Nat
    /\ writer.at # "idle" => writer.frame.id = made
    /\ writer.at = "point" => ring[writer.slot].top = writer.frame
    /\ \A s \in Slot : ~Open(s) => Published(ring[s].top.id)

\* The slot named holds the newest frame, or the one before while the driver has
\* not named the newest; then it is not the slot the driver works in.
LatestInv ==
    latest # None =>
        /\ writer.at \in {"idle", "signal"} => ring[latest].top.id = made
        /\ writer.at \notin {"idle", "signal"} =>
              writer.slot # latest /\ ring[latest].top.id + 1 >= made

Seeking == reader.at \in {"seq", "width", "pitch", "top", "bottom", "check"}

\* Not older than the frame handed on last by more than one.
Near(id) == shown # None => id + 1 >= shown.copy.top.id

\* The slot the reader is sent to is near from then on, whenever it is closed, and
\* so is what it takes.
NearInv ==
    /\ Seeking /\ ~Open(reader.slot) => Near(ring[reader.slot].top.id)
    /\ reader.at = "tag" => Near(got.top.id) /\ Published(got.top.id)
    /\ shown # None => Published(shown.copy.top.id)

\* Two copies of one frame have one number.
Agree(c, d) == c.top.id = d.top.id => c.number = d.number

\* Closed slots, what is taken and what was handed on agree, and `last` is the
\* number of the copy taken last: one number is enough to refuse a frame again.
NumberInv ==
    /\ \A s, t \in Slot : ~Open(s) /\ ~Open(t) => Agree(ring[s], ring[t])
    /\ reader.at = "tag" =>
          /\ last = got.number
          /\ \A s \in Slot : ~Open(s) => Agree(ring[s], got)
          /\ shown # None => got.top.id # shown.copy.top.id
    /\ shown # None =>
          /\ reader.at # "tag" => last = shown.copy.number
          /\ \A s \in Slot : ~Open(s) => Agree(ring[s], shown.copy)
    /\ reader.at \in {"top", "bottom", "check"} => got.number # last

OrderInv == MadeInv /\ LatestInv /\ NearInv /\ NumberInv

\* At first no slot is named and nothing handed on.
LEMMA OrderInit == Init => OrderInv
<1> SUFFICES ASSUME Init PROVE OrderInv
    OBVIOUS
<1>1. \A s \in Slot : ring[s].top.id = 0 /\ ring[s].number = 0
    BY DEF Init, Zero
<1>2. MadeInv
    BY <1>1 DEF Init, MadeInv, Published, Writing
<1>3. LatestInv
    BY DEF Init, LatestInv
<1>4. NearInv
    BY DEF Init, NearInv, Seeking, Resting
<1>5. NumberInv
    BY <1>1 DEF Init, NumberInv, Agree, Resting
<1> QED
    BY <1>2, <1>3, <1>4, <1>5 DEF OrderInv

\* A frame that was published stays so.
LEMMA PublishedKept ==
    ASSUME TypeOK, WholeInv, OrderInv, Driver, NEW id \in Nat, Published(id)
    PROVE  id <= made' /\ (Writing' => id < made')
<1>0. made \in Nat /\ writer \in [at : Places, slot : Slot, frame : Frames]
    BY DEF TypeOK
<1>1. CASE Begin
    BY <1>0, <1>1 DEF Begin, Published, Writing
<1>2. CASE WriteTop \/ WriteBottom \/ WriteWidth \/ WritePitch \/ Close \/ Point \/ Signal
    <2>1. made' = made /\ (Writing' => Writing)
        BY <1>0, <1>2
           DEF WriteTop, WriteBottom, WriteWidth, WritePitch, Close, Point, Signal, Moves, Writing
    <2> QED
        BY <2>1 DEF Published
<1>3. CASE Assign \/ Unassign \/ Restart \/ \E size \in Sizes : Commit(size)
    <2>1. UNCHANGED <<made, writer>>
        BY <1>3 DEF Assign, Unassign, Restart, Commit
    <2> QED
        BY <2>1 DEF Published, Writing
<1> QED
    BY <1>1, <1>2, <1>3 DEF Driver, Publish

\* A slot that is closed after a step of the driver was so before and has not
\* changed, or is closed by the step, and then holds the newest frame.
LEMMA ClosedAfter ==
    ASSUME TypeOK, WholeInv, OrderInv, Driver, NEW s \in Slot, ~Open(s)'
    PROVE  \/ ~Open(s) /\ ring'[s] = ring[s]
           \/ Close /\ s = writer.slot /\ ring'[s].top.id = made /\ Writing
<1>0. /\ ring \in [Slot -> SlotStates] /\ writer.slot \in Slot
      /\ writer \in [at : Places, slot : Slot, frame : Frames]
    BY DEF TypeOK
<1>1. CASE Begin
    <2> DEFINE t == IF latest = None THEN 0 ELSE (latest + 1) % Slots
    <2>1. ring' = [ring EXCEPT ![t].seq = @ + 1] /\ writer.at = "idle"
        BY <1>1 DEF Begin
    <2> HIDE DEF t
    <2>2. ~Open(s)
        BY <2>1 DEF WholeInv, SlotsInv, Writing
    <2>3. CASE s # t
        BY <1>0, <2>1, <2>2, <2>3
    <2>4. CASE s = t
        <3>1. ring'[s].seq = ring[s].seq + 1 /\ ring[s].seq \in Nat
            BY <1>0, <2>1, <2>4
        <3> QED
            BY <2>2, <3>1 DEF Open
    <2> QED
        BY <2>3, <2>4
<1>2. CASE WriteTop \/ WriteBottom \/ WriteWidth \/ WritePitch
    <2>1. Open(writer.slot)
        BY <1>2 DEF WholeInv, WriterInv, Writing, WriteTop, WriteBottom, WriteWidth, WritePitch
    <2>2. s # writer.slot => ring'[s] = ring[s]
        BY <1>0, <1>2 DEF WriteTop, WriteBottom, WriteWidth, WritePitch
    <2>3. ring'[s].seq = ring[s].seq
        BY <1>0, <1>2 DEF WriteTop, WriteBottom, WriteWidth, WritePitch
    <2> QED
        BY <2>1, <2>2, <2>3 DEF Open
<1>3. CASE Close
    <2>1. ring' = [ring EXCEPT ![writer.slot].seq = @ + 1] /\ writer.at = "close"
        BY <1>3 DEF Close
    <2>2. CASE s # writer.slot
        <3>1. ring'[s] = ring[s]
            BY <1>0, <2>1, <2>2
        <3> QED
            BY <3>1 DEF Open
    <2>3. CASE s = writer.slot
        <3>1. ring[s].top = writer.frame /\ Writing
            BY <2>1, <2>3 DEF WholeInv, WriterInv, Writing
        <3>2. writer.frame.id = made
            BY <2>1 DEF OrderInv, MadeInv
        <3>3. ring'[s].top = ring[s].top
            BY <1>0, <2>1, <2>3
        <3> QED
            BY <1>3, <2>3, <3>1, <3>2, <3>3
    <2> QED
        BY <2>2, <2>3
<1>4. CASE UNCHANGED ring
    BY <1>4 DEF Open
<1> QED
    BY <1>1, <1>2, <1>3, <1>4, DriverSteps

\* The driver writes and names the newest frame only.
LEMMA MadeKept ==
    ASSUME TypeOK, WholeInv, OrderInv, Driver
    PROVE  MadeInv'
<1>0. /\ ring \in [Slot -> SlotStates] /\ made \in Nat
      /\ writer \in [at : Places, slot : Slot, frame : Frames]
      /\ \A s \in Slot : ring[s] \in SlotStates
    BY DEF TypeOK
<1>1. made' \in Nat
    BY TypeDriver DEF TypeOK
<1>2. writer'.at # "idle" => writer'.frame.id = made'
    <2>1. CASE Begin
        BY <2>1 DEF Begin
    <2>2. CASE UNCHANGED made /\ writer.at # "idle" /\ writer'.frame = writer.frame
        BY <2>2 DEF OrderInv, MadeInv
    <2>3. CASE UNCHANGED <<made, writer>>
        BY <2>3 DEF OrderInv, MadeInv
    <2>4. Begin \/ (UNCHANGED made /\ writer.at # "idle" /\ writer'.frame = writer.frame)
            \/ UNCHANGED <<made, writer>>
        <3>1. ASSUME Publish
              PROVE  UNCHANGED made /\ writer.at # "idle" /\ writer'.frame = writer.frame
            BY <1>0, <3>1 DEF Publish, WriteTop, WriteBottom, WriteWidth, WritePitch, Close, Point,
                              Signal, Moves
        <3>2. ASSUME Assign \/ Unassign \/ Restart \/ \E size \in Sizes : Commit(size)
              PROVE  UNCHANGED <<made, writer>>
            BY <3>2 DEF Assign, Unassign, Restart, Commit
        <3> QED
            BY <3>1, <3>2 DEF Driver
    <2> QED
        BY <2>1, <2>2, <2>3, <2>4
<1>3. writer'.at = "point" => ring'[writer'.slot].top = writer'.frame
    <2> SUFFICES ASSUME writer'.at = "point"
                 PROVE  ring'[writer'.slot].top = writer'.frame
        OBVIOUS
    <2>1. CASE Close
        <3>1. ring[writer.slot].top = writer.frame /\ writer' = [writer EXCEPT !.at = "point"]
            BY <2>1 DEF Close, Moves, WholeInv, WriterInv
        <3>2. ring'[writer.slot].top = ring[writer.slot].top
            BY <1>0, <2>1 DEF Close
        <3> QED
            BY <1>0, <3>1, <3>2
    <2>2. CASE UNCHANGED <<ring, writer>>
        BY <2>2 DEF OrderInv, MadeInv
    <2>3. Close \/ UNCHANGED <<ring, writer>>
        <3>1. ~Begin /\ ~(WriteTop \/ WriteBottom \/ WriteWidth \/ WritePitch)
            BY <1>0 DEF Begin, WriteTop, WriteBottom, WriteWidth, WritePitch, Moves
        <3>2. ~(\E at \in {"signal", "idle"} : writer' = [writer EXCEPT !.at = at])
            BY <1>0
        <3> QED
            BY <3>1, <3>2, DriverSteps
    <2> QED
        BY <2>1, <2>2, <2>3
<1>4. ASSUME NEW s \in Slot, ~Open(s)'
      PROVE  Published(ring[s].top.id)'
    <2>1. CASE ~Open(s) /\ ring'[s] = ring[s]
        <3>1. Published(ring[s].top.id) /\ ring[s].top.id \in Nat
            BY <1>0, <2>1 DEF OrderInv, MadeInv
        <3>2. ring[s].top.id <= made' /\ (Writing' => ring[s].top.id < made')
            BY <3>1, PublishedKept
        <3> QED
            BY <2>1, <3>2 DEF Published
    <2>2. CASE Close /\ ring'[s].top.id = made
        <3>1. made' = made /\ ~Writing'
            BY <1>0, <2>2 DEF Close, Moves, Writing
        <3> QED
            BY <1>0, <2>2, <3>1 DEF Published
    <2> QED
        BY <1>4, <2>1, <2>2, ClosedAfter
<1> QED
    BY <1>1, <1>2, <1>3, <1>4 DEF MadeInv

\* The slot after another is another.
LEMMA NextDiffers ==
    ASSUME NEW s \in Slot
    PROVE  (s + 1) % Slots # s
<1>1. s \in Nat /\ s < Slots /\ Slots \in Nat /\ Slots >= 2
    BY SlotsAssumption DEF Slot
<1>2. CASE s + 1 < Slots
    <2>1. (s + 1) % Slots = s + 1
        BY <1>1, <1>2
    <2> QED
        BY <1>1, <2>1
<1>3. CASE s + 1 = Slots
    <2>1. (s + 1) % Slots = 0
        BY <1>1, <1>3
    <2> QED
        BY <1>1, <1>3, <2>1
<1> QED
    BY <1>1, <1>2, <1>3

\* The driver keeps the slot it named as it is until it has named another.
LEMMA LatestKept ==
    ASSUME TypeOK, WholeInv, OrderInv, Driver
    PROVE  LatestInv'
<1>0. /\ ring \in [Slot -> SlotStates] /\ made \in Nat
      /\ writer \in [at : Places, slot : Slot, frame : Frames]
      /\ latest # None => latest \in Slot
      /\ \A s \in Slot : ring[s] \in SlotStates
    BY DEF TypeOK
<1>1. CASE Begin
    <2> SUFFICES ASSUME latest' # None
                 PROVE  LatestInv'
        BY DEF LatestInv
    <2>1. /\ latest' = latest /\ latest \in Slot /\ writer.at = "idle"
          /\ writer'.slot = (latest + 1) % Slots /\ writer'.at = "top"
          /\ ring' = [ring EXCEPT ![(latest + 1) % Slots].seq = @ + 1]
          /\ made' = made + 1
        BY <1>0, <1>1 DEF Begin
    <2>2. (latest + 1) % Slots # latest
        BY <2>1, NextDiffers
    <2>3. ring'[latest] = ring[latest]
        BY <1>0, <2>1, <2>2
    <2>4. ring[latest].top.id = made
        BY <2>1 DEF OrderInv, LatestInv
    <2> QED
        BY <1>0, <2>1, <2>2, <2>3, <2>4 DEF LatestInv
<1>2. CASE WriteTop \/ WriteBottom \/ WriteWidth \/ WritePitch \/ Close
    <2> SUFFICES ASSUME latest' # None
                 PROVE  LatestInv'
        BY DEF LatestInv
    <2>1. /\ latest' = latest /\ latest \in Slot /\ made' = made
          /\ writer'.slot = writer.slot /\ writer'.at \notin {"idle", "signal"}
          /\ writer.at \notin {"idle", "signal"}
        BY <1>0, <1>2 DEF WriteTop, WriteBottom, WriteWidth, WritePitch, Close, Moves
    <2>2. writer.slot # latest /\ ring[latest].top.id + 1 >= made
        BY <2>1 DEF OrderInv, LatestInv
    <2>3. ring'[latest] = ring[latest]
        BY <1>0, <1>2, <2>1, <2>2 DEF WriteTop, WriteBottom, WriteWidth, WritePitch, Close
    <2> QED
        BY <2>1, <2>2, <2>3 DEF LatestInv
<1>3. CASE Point
    <2>1. /\ writer.at = "point" /\ latest' = writer.slot /\ writer'.at = "signal"
          /\ UNCHANGED <<ring, made>>
        BY <1>0, <1>3 DEF Point, Moves
    <2>2. ring[writer.slot].top = writer.frame /\ writer.frame.id = made
        BY <2>1 DEF OrderInv, MadeInv
    <2> QED
        BY <2>1, <2>2 DEF LatestInv
<1>4. CASE Signal
    <2>1. /\ writer.at = "signal" /\ writer'.at = "idle"
          /\ UNCHANGED <<ring, made, latest>>
        BY <1>0, <1>4 DEF Signal, Moves
    <2> QED
        BY <2>1 DEF LatestInv, OrderInv
<1>5. CASE Restart
    BY <1>5 DEF Restart, LatestInv
<1>6. CASE Assign \/ Unassign \/ \E size \in Sizes : Commit(size)
    <2>1. UNCHANGED <<ring, made, latest, writer>>
        BY <1>6 DEF Assign, Unassign, Commit, memory
    <2> QED
        BY <2>1 DEF LatestInv, OrderInv
<1> QED
    BY <1>1, <1>2, <1>3, <1>4, <1>5, <1>6 DEF Driver, Publish

\* A driver's step leaves the reader where it was.
LEMMA ReaderLeft ==
    ASSUME Driver
    PROVE  UNCHANGED <<reader, got, last, shown>>
BY DEF Driver, Publish, Begin, WriteTop, WriteBottom, WriteWidth, WritePitch, Close,
       Point, Signal, Assign, Unassign, Restart, Commit, readerVars

\* The frame closed last is nearer than any before it.
LEMMA NearKept ==
    ASSUME TypeOK, WholeInv, OrderInv, Driver
    PROVE  NearInv'
<1>0. /\ made \in Nat /\ reader.slot \in Slot
      /\ ring[reader.slot].top.id \in Nat
      /\ shown # None => shown.copy.top.id \in Nat
      /\ got.top.id \in Nat
    BY DEF TypeOK
<1>1. UNCHANGED <<reader, got, last, shown>>
    BY ReaderLeft
<1>2. ASSUME Seeking', ~Open(reader.slot)', shown # None
      PROVE  ring'[reader.slot].top.id + 1 >= shown.copy.top.id
    <2>1. Seeking /\ ~(ring'[reader.slot].seq % 2 = 1)
        BY <1>1, <1>2 DEF Seeking, Open
    <2>2. \/ ~Open(reader.slot) /\ ring'[reader.slot] = ring[reader.slot]
          \/ ring'[reader.slot].top.id = made
        <3> DEFINE s == reader.slot
        <3>1. s \in Slot /\ ring'[s].seq % 2 # 1
            BY <1>0, <2>1
        <3> HIDE DEF s
        <3>2. \/ ~Open(s) /\ ring'[s] = ring[s]
              \/ ring'[s].top.id = made
            BY <3>1, ClosedAfter DEF Open
        <3> QED
            BY <3>2 DEF s
    <2>3. CASE ~Open(reader.slot) /\ ring'[reader.slot] = ring[reader.slot]
        BY <1>2, <2>1, <2>3 DEF OrderInv, NearInv, Near
    <2>4. CASE ring'[reader.slot].top.id = made
        <3>1. shown.copy.top.id <= made
            BY <1>2 DEF OrderInv, NearInv, Published
        <3> QED
            BY <1>0, <1>2, <2>4, <3>1
    <2> QED
        BY <2>2, <2>3, <2>4
<1>3. ASSUME reader'.at = "tag"
      PROVE  Near(got.top.id)' /\ Published(got.top.id)'
    <2>1. Near(got.top.id) /\ Published(got.top.id)
        BY <1>1, <1>3 DEF OrderInv, NearInv
    <2>2. got.top.id <= made' /\ (Writing' => got.top.id < made')
        BY <1>0, <2>1, PublishedKept
    <2> QED
        BY <1>1, <2>1, <2>2 DEF Near, Published
<1>4. ASSUME shown' # None
      PROVE  Published(shown.copy.top.id)'
    <2>1. Published(shown.copy.top.id) /\ shown.copy.top.id \in Nat
        BY <1>0, <1>1, <1>4 DEF OrderInv, NearInv
    <2>2. shown.copy.top.id <= made' /\ (Writing' => shown.copy.top.id < made')
        BY <2>1, PublishedKept
    <2> QED
        BY <1>1, <2>2 DEF Published
<1>5. (Seeking /\ ~Open(reader.slot))' => Near(ring[reader.slot].top.id)'
    BY <1>1, <1>2 DEF Near, Open
<1> QED
    BY <1>3, <1>4, <1>5 DEF NearInv

\* A frame that is closed has an identity of its own, so that it agrees with all.
LEMMA NumberKept ==
    ASSUME TypeOK, WholeInv, OrderInv, Driver
    PROVE  NumberInv'
<1>0. /\ made \in Nat
      /\ \A s \in Slot : ring[s].top.id \in Nat
      /\ shown # None => shown.copy.top.id \in Nat
      /\ got.top.id \in Nat
    BY DEF TypeOK
<1>1. UNCHANGED <<reader, got, last, shown>>
    BY ReaderLeft
<1>2. \A s \in Slot : ring'[s].seq % 2 # 1 =>
        \/ ~Open(s) /\ ring'[s] = ring[s]
        \/ s = writer.slot /\ ring'[s].top.id = made /\ Writing
    BY ClosedAfter DEF Open
<1>3. ASSUME NEW s \in Slot, NEW t \in Slot, ring'[s].seq % 2 # 1, ring'[t].seq % 2 # 1
      PROVE  Agree(ring'[s], ring'[t])
    <2>1. CASE /\ ~Open(s) /\ ring'[s] = ring[s]
               /\ ~Open(t) /\ ring'[t] = ring[t]
        BY <2>1 DEF OrderInv, NumberInv
    <2>2. CASE s = t
        BY <2>2 DEF Agree
    <2>3. CASE /\ ~Open(s) /\ ring'[s] = ring[s]
               /\ ring'[t].top.id = made /\ Writing
        <3>1. ring[s].top.id < made
            BY <2>3 DEF OrderInv, MadeInv, Published
        <3> QED
            BY <1>0, <2>3, <3>1 DEF Agree
    <2>4. CASE /\ ~Open(t) /\ ring'[t] = ring[t]
               /\ ring'[s].top.id = made /\ Writing
        <3>1. ring[t].top.id < made
            BY <2>4 DEF OrderInv, MadeInv, Published
        <3> QED
            BY <1>0, <2>4, <3>1 DEF Agree
    <2> QED
        BY <1>2, <1>3, <2>1, <2>2, <2>3, <2>4
<1>4. ASSUME reader.at = "tag", NEW s \in Slot, ring'[s].seq % 2 # 1
      PROVE  Agree(ring'[s], got)
    <2>1. CASE ~Open(s) /\ ring'[s] = ring[s]
        BY <1>4, <2>1 DEF OrderInv, NumberInv
    <2>2. CASE ring'[s].top.id = made /\ Writing
        <3>1. got.top.id < made
            BY <1>4, <2>2 DEF OrderInv, NearInv, Published
        <3> QED
            BY <1>0, <2>2, <3>1 DEF Agree
    <2> QED
        BY <1>2, <1>4, <2>1, <2>2
<1>5. ASSUME shown # None, NEW s \in Slot, ring'[s].seq % 2 # 1
      PROVE  Agree(ring'[s], shown.copy)
    <2>1. CASE ~Open(s) /\ ring'[s] = ring[s]
        BY <1>5, <2>1 DEF OrderInv, NumberInv
    <2>2. CASE ring'[s].top.id = made /\ Writing
        <3>1. shown.copy.top.id < made
            BY <1>5, <2>2 DEF OrderInv, NearInv, Published
        <3> QED
            BY <1>0, <1>5, <2>2, <3>1 DEF Agree
    <2> QED
        BY <1>2, <1>5, <2>1, <2>2
<1>6. /\ \A s, t \in Slot : ~Open(s)' /\ ~Open(t)' => Agree(ring[s], ring[t])'
      /\ reader'.at = "tag" => \A s \in Slot : ~Open(s)' => Agree(ring[s], got)'
      /\ shown' # None => \A s \in Slot : ~Open(s)' => Agree(ring[s], shown.copy)'
    BY <1>1, <1>3, <1>4, <1>5 DEF Open, Agree
<1> QED
    BY <1>1, <1>6 DEF OrderInv, NumberInv

\* The reader's steps: what it is sent to is near, and a number it knows is refused.
LEMMA ReaderOrdered ==
    ASSUME TypeOK, WholeInv, OrderInv, Reader
    PROVE  /\ OrderInv'
           /\ shown' # shown /\ shown # None =>
                 /\ shown'.copy.top.id >= shown.copy.top.id - 1
                 /\ shown'.copy.top.id # shown.copy.top.id
<1> USE DEF Reads, Rests, Resting
<1> DEFINE Forward == shown' # shown /\ shown # None =>
                          /\ shown'.copy.top.id >= shown.copy.top.id - 1
                          /\ shown'.copy.top.id # shown.copy.top.id
<1>0. /\ reader \in [at : ReaderPlaces, slot : Slot, seq : Nat, tries : 0 .. Tries - 1]
      /\ got \in Copies /\ ring[reader.slot] \in SlotStates /\ made \in Nat
      /\ got.top.id \in Nat
      /\ latest # None => latest \in Slot
      /\ shown # None => shown.copy.top.id \in Nat
    BY DEF TypeOK
<1>1. UNCHANGED <<ring, writer, latest, made>>
    BY DEF Reader, Wake, ReadLatest, ReadSeq, ReadWidth, ReadPitch, ReadTop, ReadBottom,
           Check, HandOn, Recover, memory, driverVars
<1>2. MadeInv' /\ LatestInv'
    BY <1>1 DEF OrderInv, MadeInv, LatestInv, Published, Writing, Open
<1>3. \A s, t \in Slot : ~Open(s)' /\ ~Open(t)' => Agree(ring[s], ring[t])'
    BY <1>1 DEF OrderInv, NumberInv, Open, Agree
\* Steps by which nothing is taken nor handed on.
<1>4. ASSUME reader'.at # "tag", reader.at # "tag", UNCHANGED <<last, shown>>,
             Seeking' => Seeking /\ reader'.slot = reader.slot,
             reader'.at \in {"top", "bottom", "check"} => got'.number # last
      PROVE  OrderInv' /\ Forward
    <2>1. NearInv'
        BY <1>1, <1>4 DEF OrderInv, NearInv, Near, Published, Writing, Open
    <2>2. NumberInv'
        BY <1>1, <1>3, <1>4 DEF OrderInv, NumberInv, Agree, Open
    <2> QED
        BY <1>2, <1>4, <2>1, <2>2 DEF OrderInv
<1>5. ASSUME Retry, Seeking
      PROVE  /\ reader'.at \in {"wait", "seq"}
             /\ Seeking' => reader'.slot = reader.slot
    BY <1>0, <1>5 DEF Retry, Seeking
<1>6. CASE Wake \/ Recover
    BY <1>0, <1>4, <1>6 DEF Wake, Recover, Seeking
<1>7. CASE ReadLatest
    <2>1. /\ reader.at = "latest" /\ reader'.at \in {"wait", "seq"}
          /\ UNCHANGED <<got, last, shown>>
          /\ Seeking' => latest # None /\ reader'.slot = latest
        BY <1>7 DEF ReadLatest, Seeking
    <2>2. NearInv'
        <3>1. ASSUME Seeking', shown # None
              PROVE  ring[latest].top.id + 1 >= shown.copy.top.id
            <4>1. ring[latest].top.id + 1 >= made
                <5>1. ring[latest].top.id \in Nat
                    BY <2>1, <3>1 DEF TypeOK
                <5> QED
                    BY <1>0, <2>1, <3>1, <5>1 DEF OrderInv, LatestInv
            <4>2. shown.copy.top.id <= made
                BY <3>1 DEF OrderInv, NearInv, Published
            <4>3. ring[latest].top.id \in Nat
                BY <2>1, <3>1 DEF TypeOK
            <4> QED
                BY <1>0, <3>1, <4>1, <4>2, <4>3
        <3> QED
            BY <1>1, <2>1, <3>1 DEF OrderInv, NearInv, Near, Published, Writing, Open
    <2>3. NumberInv'
        BY <1>1, <1>3, <2>1 DEF OrderInv, NumberInv, Agree, Open
    <2> QED
        BY <1>2, <2>1, <2>2, <2>3 DEF OrderInv
<1>8. CASE ReadSeq
    <2>1. Seeking /\ reader.at = "seq" /\ UNCHANGED <<last, shown>>
        BY <1>8 DEF ReadSeq, Seeking
    <2>2. CASE Retry
        BY <1>4, <1>5, <2>1, <2>2
    <2>3. CASE ~Retry
        <3>1. reader'.at = "width" /\ reader'.slot = reader.slot
            BY <1>0, <1>8, <2>3 DEF ReadSeq
        <3> QED
            BY <1>4, <2>1, <3>1
    <2> QED
        BY <2>2, <2>3
<1>9. CASE ReadWidth
    <2>1. /\ reader.at = "width" /\ reader'.at = "pitch" /\ reader'.slot = reader.slot
          /\ UNCHANGED <<last, shown>>
        BY <1>0, <1>9 DEF ReadWidth
    <2> QED
        BY <1>4, <2>1 DEF Seeking
<1>10. CASE ReadPitch
    <2>1. reader.at = "pitch" /\ UNCHANGED <<last, shown>>
        BY <1>10 DEF ReadPitch
    <2>2. CASE reader'.at \in {"wait", "error"}
        BY <1>4, <2>1, <2>2 DEF Seeking
    <2>3. CASE reader'.at \notin {"wait", "error"}
        <3>1. /\ reader'.at = "top" /\ reader'.slot = reader.slot
              /\ ring[reader.slot].number # last
              /\ got' = [got EXCEPT !.pitch = ring[reader.slot].pitch,
                                    !.number = ring[reader.slot].number]
            BY <1>0, <1>10, <2>3 DEF ReadPitch
        <3>2. got'.number # last
            BY <1>0, <3>1
        <3> QED
            BY <1>4, <2>1, <3>1, <3>2 DEF Seeking
    <2> QED
        BY <2>2, <2>3
<1>11. CASE ReadTop \/ ReadBottom
    <2>1. /\ reader.at \in {"top", "bottom"} /\ reader'.at \in {"bottom", "check"}
          /\ reader'.slot = reader.slot /\ got'.number = got.number
          /\ UNCHANGED <<last, shown>>
        BY <1>0, <1>11 DEF ReadTop, ReadBottom
    <2>2. got.number # last
        BY <2>1 DEF OrderInv, NumberInv
    <2> QED
        BY <1>4, <2>1, <2>2 DEF Seeking
<1>12. CASE Check
    <2>1. reader.at = "check" /\ Seeking /\ UNCHANGED shown
        BY <1>12 DEF Check, Seeking
    <2>2. CASE ring[reader.slot].seq # reader.seq
        BY <1>4, <1>5, <1>12, <2>1, <2>2 DEF Check
    <2>3. CASE ring[reader.slot].seq = reader.seq
        <3>1. /\ reader'.at = "tag" /\ last' = got.number /\ UNCHANGED <<got, shown>>
            BY <1>0, <1>12, <2>3 DEF Check
        <3>2. /\ ~Open(reader.slot)
              /\ got.number = ring[reader.slot].number /\ got.top = ring[reader.slot].top
            BY <1>0, <2>1, <2>3 DEF WholeInv, ReaderInv, Copying, Open
        <3>3. /\ Published(got.top.id)
              /\ Near(got.top.id)
            BY <1>0, <2>1, <3>2 DEF OrderInv, MadeInv, NearInv
        <3>4. NearInv'
            BY <1>1, <3>1, <3>3 DEF OrderInv, NearInv, Near, Published, Writing, Seeking
        <3>5. shown # None => got.top.id # shown.copy.top.id
            BY <1>0, <2>1, <3>2 DEF OrderInv, NumberInv, Agree
        <3>6. \A s \in Slot : ~Open(s) => Agree(ring[s], got)
            BY <1>0, <3>2 DEF OrderInv, NumberInv, Agree
        <3>7. NumberInv'
            BY <1>1, <1>3, <3>1, <3>5, <3>6 DEF OrderInv, NumberInv, Agree, Open
        <3> QED
            BY <1>2, <2>1, <3>4, <3>7 DEF OrderInv
    <2> QED
        BY <2>2, <2>3
<1>13. CASE HandOn
    <2>1. /\ reader.at = "tag" /\ reader'.at = "wait" /\ shown'.copy = got
          /\ UNCHANGED last
        BY <1>13 DEF HandOn
    <2>2. /\ Near(got.top.id) /\ Published(got.top.id)
          /\ last = got.number
          /\ \A s \in Slot : ~Open(s) => Agree(ring[s], got)
          /\ shown # None => got.top.id # shown.copy.top.id
        BY <2>1 DEF OrderInv, NearInv, NumberInv
    <2>3. NearInv'
        BY <1>1, <2>1, <2>2 DEF NearInv, Published, Writing, Seeking
    <2>4. NumberInv'
        BY <1>1, <1>3, <2>1, <2>2 DEF NumberInv, Agree, Open
    <2>5. Forward
        BY <1>0, <2>1, <2>2 DEF Near
    <2> QED
        BY <1>2, <2>3, <2>4, <2>5 DEF OrderInv
<1> QED
    BY <1>6, <1>7, <1>8, <1>9, <1>10, <1>11, <1>12, <1>13 DEF Reader

\* What is handed on is newer than what was, or one frame older, and never the same.
Forward ==
    shown' # shown /\ shown # None =>
        /\ shown'.copy.top.id >= shown.copy.top.id - 1
        /\ shown'.copy.top.id # shown.copy.top.id

\* Driver and reader keep the invariant, and the reader goes forward.
LEMMA OrderSteps ==
    ASSUME TypeOK, WholeInv, OrderInv, [Next]_vars
    PROVE  OrderInv' /\ [Forward]_vars
<1>1. CASE Driver
    <2>1. UNCHANGED shown
        BY <1>1, ReaderLeft
    <2> QED
        BY <1>1, <2>1, MadeKept, LatestKept, NearKept, NumberKept DEF OrderInv, Forward
<1>2. CASE Reader
    BY <1>2, ReaderOrdered DEF Forward
<1>3. CASE UNCHANGED vars
    BY <1>3
       DEF vars, memory, driverVars, readerVars, OrderInv, MadeInv, LatestInv, NearInv,
           NumberInv, Published, Writing, Seeking, Near, Agree, Open
<1> QED
    BY <1>1, <1>2, <1>3 DEF Next

LEMMA OrderAlways == Spec => []OrderInv
<1>1. (TypeOK /\ WholeInv) /\ OrderInv /\ [Next]_vars => OrderInv'
    BY OrderSteps
<1> QED
    BY <1>1, OrderInit, WholeAlways, PTL DEF Spec

\* The frames the reader hands on go forward but for one: lapped by the driver it
\* may go back by a single frame, and it hands none on twice running.
THEOREM FramesNearlyInOrder == Spec => NearlyInOrder
<1>1. (TypeOK /\ WholeInv) /\ OrderInv /\ [Next]_vars => [Forward]_vars
    BY OrderSteps
<1>2. Spec => [][Forward]_vars
    BY <1>1, OrderAlways, WholeAlways, PTL DEF Spec
<1> QED
    BY <1>2 DEF NearlyInOrder, Forward

(***************************************************************************)
(* No frame slept over.                                                    *)
(***************************************************************************)
\* The newest frame is named and signalled, and the reader took the signal.
Quiet == writer.at = "idle" /\ latest # None /\ ~event

\* The reader woke after that, and what it reads does not change: no try is torn,
\* no geometry refused, and it rests only over the number it knows.
RunInv ==
    Quiet =>
        /\ reader.at = "seq" => reader.slot = latest
        /\ Copying => reader.slot = latest /\ reader.seq = ring[latest].seq
        /\ reader.at = "tag" => reader.slot = latest /\ got.number = ring[latest].number
        /\ reader.at # "error"
        /\ reader.at = "wait" => shown # None /\ shown.copy.number = ring[latest].number

\* Numbers begin at one, so that none is the number of a reader that took nothing.
CountedInv ==
    /\ writer.at # "idle" => writer.frame.number >= 1
    /\ writer.at \in {"close", "point"} => ring[writer.slot].number >= 1
    /\ latest # None => ring[latest].number >= 1

NoneTakenInv == shown = None /\ reader.at # "tag" => last = 0

AwaitInv == RunInv /\ CountedInv /\ NoneTakenInv

LEMMA AwaitInit == Init => AwaitInv
    BY DEF Init, AwaitInv, RunInv, Quiet, CountedInv, NoneTakenInv, Resting

\* A step of the driver counts on, and disturbs the reader only where another
\* signal is to come.
LEMMA DriverAwaits ==
    ASSUME TypeOK, WholeInv, OrderInv, AwaitInv, Driver
    PROVE  AwaitInv'
<1>0. /\ ring \in [Slot -> SlotStates] /\ count \in Nat
      /\ writer \in [at : Places, slot : Slot, frame : Frames]
      /\ latest \in Slot \union {None}
    BY DEF TypeOK
<1> USE DEF memory, driverVars, readerVars, Moves
<1>1. UNCHANGED <<reader, got, last, shown>>
    BY ReaderLeft
<1>2. NoneTakenInv'
    BY <1>1 DEF AwaitInv, NoneTakenInv
<1>3. CASE Begin
    <2> DEFINE t == IF latest = None THEN 0 ELSE (latest + 1) % Slots
    <2>1. /\ ring' = [ring EXCEPT ![t].seq = @ + 1] /\ latest' = latest
          /\ writer'.at = "top" /\ writer'.frame.number = count + 1
        BY <1>3 DEF Begin
    <2> HIDE DEF t
    <2>2. \A s \in Slot : ring'[s].number = ring[s].number
        BY <1>0, <2>1
    <2>3. CountedInv'
        BY <1>0, <2>1, <2>2 DEF AwaitInv, CountedInv
    <2>4. RunInv'
        BY <2>1 DEF RunInv, Quiet
    <2> QED
        BY <1>2, <2>3, <2>4 DEF AwaitInv
<1>4. CASE WriteTop \/ WriteBottom \/ WriteWidth
    <2>1. /\ latest' = latest
          /\ writer.at # "idle" /\ writer'.at \in {"bottom", "width", "pitch"}
          /\ writer'.frame = writer.frame
        BY <1>0, <1>4 DEF WriteTop, WriteBottom, WriteWidth
    <2>2. \A s \in Slot : ring'[s].number = ring[s].number
        BY <1>0, <1>4 DEF WriteTop, WriteBottom, WriteWidth
    <2>3. CountedInv'
        BY <1>0, <2>1, <2>2 DEF AwaitInv, CountedInv
    <2>4. RunInv'
        BY <2>1 DEF RunInv, Quiet
    <2> QED
        BY <1>2, <2>3, <2>4 DEF AwaitInv
<1>5. CASE WritePitch
    <2>1. /\ latest' = latest /\ writer.at = "pitch"
          /\ writer' = [writer EXCEPT !.at = "close"]
        BY <1>5 DEF WritePitch
    <2>2. /\ writer'.at = "close" /\ writer'.frame = writer.frame
          /\ writer'.slot = writer.slot
        BY <1>0, <2>1
    <2>3. /\ ring'[writer.slot].number = writer.frame.number
          /\ \A s \in Slot : s # writer.slot => ring'[s] = ring[s]
        BY <1>0, <1>5 DEF WritePitch
    <2>4. CountedInv'
        BY <1>0, <2>1, <2>2, <2>3 DEF AwaitInv, CountedInv
    <2>5. RunInv'
        BY <2>2 DEF RunInv, Quiet
    <2> QED
        BY <1>2, <2>4, <2>5 DEF AwaitInv
<1>6. CASE Close
    <2>1. /\ latest' = latest /\ writer.at = "close"
          /\ writer' = [writer EXCEPT !.at = "point"]
          /\ ring' = [ring EXCEPT ![writer.slot].seq = @ + 1]
        BY <1>6 DEF Close
    <2>2. /\ writer'.at = "point" /\ writer'.frame = writer.frame
          /\ writer'.slot = writer.slot
        BY <1>0, <2>1
    <2>3. \A s \in Slot : ring'[s].number = ring[s].number
        BY <1>0, <2>1
    <2>4. CountedInv'
        BY <1>0, <2>1, <2>2, <2>3 DEF AwaitInv, CountedInv
    <2>5. RunInv'
        BY <2>2 DEF RunInv, Quiet
    <2> QED
        BY <1>2, <2>4, <2>5 DEF AwaitInv
<1>7. CASE Point \/ Signal
    <2>1. /\ ring' = ring /\ writer'.frame = writer.frame
          /\ writer'.at = "signal" \/ (event' = TRUE /\ writer'.at = "idle")
          /\ latest' = latest \/ (writer.at = "point" /\ latest' = writer.slot)
          /\ writer.at # "idle"
        BY <1>0, <1>7 DEF Point, Signal
    <2>2. CountedInv' /\ RunInv'
        BY <2>1 DEF AwaitInv, CountedInv, RunInv, Quiet
    <2> QED
        BY <1>2, <2>2 DEF AwaitInv
<1>8. CASE Restart
    BY <1>2, <1>8 DEF Restart, AwaitInv, CountedInv, RunInv, Quiet
<1>9. CASE Assign \/ Unassign \/ \E size \in Sizes : Commit(size)
    <2>1. UNCHANGED <<ring, latest, event, writer>>
        BY <1>9 DEF Assign, Unassign, Commit
    <2>2. RunInv'
        BY <1>1, <2>1 DEF AwaitInv, RunInv, Quiet, Copying
    <2>3. CountedInv'
        BY <2>1 DEF AwaitInv, CountedInv
    <2> QED
        BY <1>2, <2>2, <2>3 DEF AwaitInv
<1> QED
    BY <1>3, <1>4, <1>5, <1>6, <1>7, <1>8, <1>9 DEF Driver, Publish

\* A step of the reader after the signal brings it nearer to the newest frame.
LEMMA ReaderAwaits ==
    ASSUME TypeOK, WholeInv, OrderInv, AwaitInv, Reader
    PROVE  AwaitInv'
<1>0. /\ reader \in [at : ReaderPlaces, slot : Slot, seq : Nat, tries : 0 .. Tries - 1]
      /\ got \in Copies /\ mode \in Sizes
      /\ latest \in Slot \union {None}
      /\ \A s \in Slot : ring[s] \in SlotStates
    BY DEF TypeOK
<1> USE DEF Reads, Rests, Resting, memory, driverVars
<1>1. UNCHANGED <<ring, latest, writer>> /\ (event' = event \/ Wake)
    BY DEF Reader, Wake, ReadLatest, ReadSeq, ReadWidth, ReadPitch, ReadTop, ReadBottom,
           Check, HandOn, Recover
<1>2. CountedInv'
    BY <1>1 DEF AwaitInv, CountedInv
<1>3. ASSUME Quiet
      PROVE  latest \in Slot /\ ~Open(latest) /\ Whole(ring[latest])
    BY <1>0, <1>3 DEF Quiet, WholeInv, SlotsInv, Writing
<1>4. CASE Wake
    BY <1>0, <1>2, <1>4 DEF Wake, AwaitInv, RunInv, Copying, NoneTakenInv
<1>5. CASE ReadLatest
    <2>1. UNCHANGED <<ring, latest, writer, event, got, last, shown>> /\ reader.at = "latest"
        BY <1>5 DEF ReadLatest
    <2>2. latest # None => reader'.at = "seq" /\ reader'.slot = latest
        BY <1>5 DEF ReadLatest
    <2>3. RunInv'
        BY <2>1, <2>2 DEF RunInv, Quiet, Copying
    <2>4. NoneTakenInv'
        BY <2>1 DEF AwaitInv, NoneTakenInv
    <2> QED
        BY <1>2, <2>3, <2>4 DEF AwaitInv
<1>6. CASE ReadSeq
    <2>1. /\ UNCHANGED <<ring, latest, writer, event, last, shown>>
          /\ reader.at = "seq"
        BY <1>6 DEF ReadSeq
    <2>5. reader'.at \in {"width", "seq", "wait"}
        <3>1. CASE ring[reader.slot].seq % 2 = 1
            <4>1. \/ reader' = [reader EXCEPT !.at = "seq", !.seq = 0, !.tries = @ + 1]
                  \/ reader' = Resting
                BY <1>6, <3>1 DEF ReadSeq, Retry
            <4>2. CASE reader' = Resting
                BY <4>2
            <4>3. CASE reader' = [reader EXCEPT !.at = "seq", !.seq = 0, !.tries = @ + 1]
                BY <1>0, <4>3 DEF Tries
            <4> QED
                BY <4>1, <4>2, <4>3
        <3>2. CASE ring[reader.slot].seq % 2 # 1
            BY <1>0, <1>6, <3>2 DEF ReadSeq
        <3> QED
            BY <3>1, <3>2
    <2>2. ASSUME Quiet
          PROVE  /\ reader'.at = "width" /\ reader'.slot = latest
                 /\ reader'.seq = ring[latest].seq
        <3>1. reader.slot = latest /\ ring[latest].seq % 2 # 1
            BY <1>3, <2>1, <2>2 DEF AwaitInv, RunInv, Open
        <3> QED
            BY <1>0, <1>6, <3>1 DEF ReadSeq
    <2>3. RunInv'
        BY <2>1, <2>2 DEF RunInv, Quiet, Copying
    <2>4. NoneTakenInv'
        BY <2>1, <2>5 DEF AwaitInv, NoneTakenInv
    <2> QED
        BY <1>2, <2>3, <2>4 DEF AwaitInv
<1>7. CASE ReadWidth \/ ReadTop \/ ReadBottom
    <2>1. /\ UNCHANGED <<ring, latest, writer, event, last, shown>>
          /\ reader.at \in {"width", "top", "bottom"}
          /\ reader'.at \in {"pitch", "bottom", "check"}
          /\ reader'.slot = reader.slot /\ reader'.seq = reader.seq
        BY <1>0, <1>7 DEF ReadWidth, ReadTop, ReadBottom
    <2>2. RunInv'
        BY <2>1 DEF AwaitInv, RunInv, Quiet, Copying
    <2>3. NoneTakenInv'
        BY <2>1 DEF AwaitInv, NoneTakenInv
    <2> QED
        BY <1>2, <2>2, <2>3 DEF AwaitInv
<1>8. CASE ReadPitch
    <2>1. /\ UNCHANGED <<ring, latest, writer, event, last, shown>>
          /\ reader.at = "pitch" /\ reader'.at \in {"wait", "error", "top"}
        BY <1>0, <1>8 DEF ReadPitch
    <2>2. ASSUME Quiet
          PROVE  /\ reader.slot = latest /\ reader.seq = ring[latest].seq
                 /\ ring[latest].pitch = got.width
        <3>1. reader.slot = latest /\ reader.seq = ring[latest].seq
            BY <2>1, <2>2 DEF AwaitInv, RunInv, Copying
        <3>2. got.width = ring[latest].width
            BY <2>1, <3>1 DEF WholeInv, ReaderInv, Copying
        <3> QED
            BY <1>3, <2>2, <3>1, <3>2 DEF Whole
    <2>5. NoneTakenInv'
        BY <2>1 DEF AwaitInv, NoneTakenInv
    <2>6. Quiet' => Quiet
        BY <2>1 DEF Quiet
    <2>3. CASE ring[reader.slot].number = last
        <3>1. reader'.at = "wait"
            BY <1>8, <2>3 DEF ReadPitch
        <3>2. ASSUME Quiet PROVE shown # None /\ shown.copy.number = ring[latest].number
            <4>1. last = ring[latest].number /\ ring[latest].number >= 1
                BY <2>2, <2>3, <3>2 DEF AwaitInv, CountedInv, Quiet
            <4>2. shown # None
                BY <2>1, <4>1 DEF AwaitInv, NoneTakenInv
            <4>3. last = shown.copy.number
                BY <2>1, <4>2 DEF OrderInv, NumberInv
            <4> QED
                BY <4>1, <4>2, <4>3
        <3>3. RunInv'
            BY <2>1, <2>6, <3>1, <3>2 DEF RunInv, Copying
        <3> QED
            BY <1>2, <2>5, <3>3 DEF AwaitInv
    <2>4. CASE ring[reader.slot].number # last
        <3>1. ASSUME Quiet
              PROVE  /\ reader'.at = "top" /\ reader'.slot = latest
                     /\ reader'.seq = ring[latest].seq
            <4>1. ~(ring[reader.slot].pitch < got.width)
                BY <1>0, <2>2, <3>1
            <4>2. reader' = [reader EXCEPT !.at = "top"]
                BY <1>8, <2>4, <4>1 DEF ReadPitch
            <4> QED
                BY <1>0, <2>2, <3>1, <4>2
        <3>2. RunInv'
            BY <2>1, <2>6, <3>1 DEF RunInv, Copying
        <3> QED
            BY <1>2, <2>5, <3>2 DEF AwaitInv
    <2> QED
        BY <2>3, <2>4
<1>9. CASE Check
    <2>1. /\ UNCHANGED <<ring, latest, writer, event, shown>> /\ reader.at = "check"
          /\ IF ring[reader.slot].seq = reader.seq
             THEN /\ reader' = [reader EXCEPT !.at = "tag"] /\ got' = got
             ELSE Retry /\ last' = last
        BY <1>9 DEF Check
    <2>2. ASSUME Quiet
          PROVE  /\ reader'.at = "tag" /\ reader'.slot = latest
                 /\ got'.number = ring[latest].number
        <3>1. reader.slot = latest /\ reader.seq = ring[latest].seq
            BY <2>1, <2>2 DEF AwaitInv, RunInv, Copying
        <3>2. got.number = ring[latest].number
            BY <2>1, <3>1 DEF WholeInv, ReaderInv, Copying
        <3> QED
            BY <1>0, <2>1, <3>1, <3>2
    <2>3. RunInv'
        BY <2>1, <2>2 DEF RunInv, Quiet, Copying
    <2>4. NoneTakenInv'
        <3>1. CASE ring[reader.slot].seq = reader.seq
            BY <1>0, <2>1, <3>1 DEF NoneTakenInv
        <3>2. CASE ring[reader.slot].seq # reader.seq
            BY <2>1, <3>2 DEF AwaitInv, NoneTakenInv
        <3> QED
            BY <3>1, <3>2
    <2> QED
        BY <1>2, <2>3, <2>4 DEF AwaitInv
<1>10. CASE HandOn
    <2>1. /\ UNCHANGED <<ring, latest, writer, event, last>>
          /\ reader.at = "tag" /\ reader'.at = "wait"
          /\ shown' = [copy |-> got, tag |-> mode]
        BY <1>10 DEF HandOn
    <2>2. shown' # None /\ shown'.copy = got
        <3>1. shown' \in Handed
            BY <1>0, <2>1 DEF Handed
        <3> QED
            BY <2>1, <3>1, NoneAssumption
    <2>3. RunInv'
        BY <2>1, <2>2 DEF AwaitInv, RunInv, Quiet, Copying
    <2>4. NoneTakenInv'
        BY <2>2 DEF NoneTakenInv
    <2> QED
        BY <1>2, <2>3, <2>4 DEF AwaitInv
<1>11. CASE Recover
    <2>1. /\ UNCHANGED <<ring, latest, writer, event, last, shown>> /\ reader.at = "error"
        BY <1>11 DEF Recover
    <2>2. RunInv' /\ NoneTakenInv'
        BY <2>1 DEF AwaitInv, RunInv, Quiet, NoneTakenInv
    <2> QED
        BY <1>2, <2>2 DEF AwaitInv
<1> QED
    BY <1>4, <1>5, <1>6, <1>7, <1>8, <1>9, <1>10, <1>11 DEF Reader

\* No frame is slept over: with the driver at rest and the event consumed, the
\* reader is on its way to the newest frame or has handed its number on.
THEOREM NewestIsAwaited == Spec => []NewestAwaited
<1>1. ASSUME TypeOK, WholeInv, OrderInv, AwaitInv, [Next]_vars
      PROVE  AwaitInv'
    <2>1. CASE UNCHANGED vars
        BY <1>1, <2>1
           DEF vars, memory, driverVars, readerVars, AwaitInv, RunInv, Quiet, Copying,
               CountedInv, NoneTakenInv
    <2> QED
        BY <1>1, <2>1, DriverAwaits, ReaderAwaits DEF Next
<1>2. TypeOK /\ AwaitInv => NewestAwaited
    BY DEF AwaitInv, RunInv, Quiet, Copying, NewestAwaited, OnItsWay, TypeOK
<1>3. (TypeOK /\ WholeInv) /\ OrderInv /\ AwaitInv /\ [Next]_vars => AwaitInv'
    BY <1>1
<1> QED
    BY <1>2, <1>3, AwaitInit, WholeAlways, OrderAlways, PTL DEF Spec
=============================================================================
