---------------------------- MODULE DecodeProofs ----------------------------
(***************************************************************************)
(* Proofs about AddressDecode, for every word-aligned offset and any words.*)
(***************************************************************************)
EXTENDS AddressDecode, Integers, TLAPS

Offset == request.offset

\* What the answer to the request has to be, from the moment it is given.
Answered ==
  /\ \A d \in Devices : Claims(d, Offset) =>
       /\ status = "ok"
       /\ reached = <<d, Offset - Base(d)>>
  /\ (\A d \in Devices : ~Claims(d, Offset)) => status = "address_error" /\ reached = <<"none", 0>>

ApbDevices == {"gpio", "uart", "sysctrl", "wdt"}

\* Where the transaction is, what its address has become on the way there and
\* what each decoder will put back.
Route ==
  /\ at = "initiator" => address = Offset /\ reached = <<"none", 0>>
  /\ at = "timer" => Claims("timer", Offset) /\ address = Offset /\ ahb_addr = Offset
  /\ at = "sram" => /\ platform = "basic_cortexM" /\ Claims("sram", Offset)
                    /\ address = Offset - PL_SRAM_OFFSET /\ ahb_addr = Offset
  /\ at = "bridge" => /\ platform = "basic_cortexM" /\ ahb_addr = Offset
                      /\ Offset >= PL_APB_OFFSET
                      /\ Offset < PL_APB_OFFSET + PL_APB_WINDOW_SIZE
                      /\ address = Offset - PL_APB_OFFSET
  /\ at \in ApbDevices => /\ platform = "basic_cortexM" /\ ahb_addr = Offset
                          /\ apb_addr = Offset - PL_APB_OFFSET
                          /\ Claims(at, Offset) /\ address = Offset - Base(at)
  /\ at \in {"apb_return", "bridge_return"} => ~Claims("sram", Offset)
  /\ at \in {"apb_return", "bridge_return", "ahb_return"} => ahb_addr = Offset /\ Answered
  /\ at = "returned" => address = Offset /\ Answered

\* The store the SRAM has performed and the initiator does not know of yet.
InFlight == at = "ahb_return" /\ request.kind = "store"

\* The SRAM holds what was last stored at each offset of its slot.
Memory ==
  platform = "basic_cortexM" =>
    /\ \A o \in SramOffsets :
         mem[o - PL_SRAM_OFFSET] =
           IF InFlight /\ o = Offset THEN request.word ELSE flat[o]
    /\ at \in {"ahb_return", "returned"} /\ request.kind = "load" /\ Claims("sram", Offset)
         => data = flat[Offset]
    /\ request.kind = "store" => data = request.word

Inv == TypeOK /\ Route /\ Memory

(***************************************************************************)
(* The maps.                                                               *)
(***************************************************************************)

LEMMA DecodeHit ==
  ASSUME NEW map, NEW a, NEW i \in 1 .. Len(map), InRegion(map[i], a),
         \A j \in 1 .. Len(map) : InRegion(map[j], a) => j = i
  PROVE  Decode(map, a) = i
<1> DEFINE hits == {j \in 1 .. Len(map) : InRegion(map[j], a)}
<1>1. hits = {i}
  OBVIOUS
<1>2. i <= i
  OBVIOUS
<1>3. \E k \in hits : \A j \in hits : k <= j
  BY <1>1, <1>2
<1>4. (CHOOSE k \in hits : \A j \in hits : k <= j) \in hits
  BY <1>3
<1> QED
  BY <1>1, <1>4 DEF Decode

LEMMA DecodeMiss ==
  ASSUME NEW map, NEW a, \A j \in 1 .. Len(map) : ~InRegion(map[j], a)
  PROVE  Decode(map, a) = 0
  BY DEF Decode

LEMMA AhbRegions ==
  /\ Len(AhbMap) = 3
  /\ AhbMap[1] = Region(PL_TIMER_OFFSET, PL_SLOT_SIZE, "timer")
  /\ AhbMap[2] = Region(PL_SRAM_OFFSET, PL_SRAM_BYTES, "sram")
  /\ AhbMap[3] = Region(PL_APB_OFFSET, PL_APB_WINDOW_SIZE, "bridge")
  BY DEF AhbMap

LEMMA WindowSize == SYSTEMC_PL_WINDOW_SIZE \in Nat /\ SYSTEMC_PL_WINDOW_SIZE > 0
  BY SMT DEF SYSTEMC_PL_WINDOW_SIZE

LEMMA WindowRegions ==
  Len(WindowMap) = 1 /\ WindowMap[1] = Region(0, SYSTEMC_PL_WINDOW_SIZE, "timer")
  BY DEF WindowMap

LEMMA ApbRegions ==
  /\ Len(ApbMap) = 4
  /\ ApbMap[1] = Region(0, 4096, "gpio")
  /\ ApbMap[2] = Region(4096, 4096, "uart")
  /\ ApbMap[3] = Region(8192, 4096, "sysctrl")
  /\ ApbMap[4] = Region(12288, 4096, "wdt")
  BY DEF ApbMap, PL_GPIO_OFFSET, PL_UART_OFFSET, PL_SYSCTRL_OFFSET, PL_WDT_OFFSET,
         PL_APB_OFFSET, PL_SLOT_SIZE

LEMMA InAhb ==
  ASSUME NEW a \in Nat
  PROVE  /\ InRegion(AhbMap[1], a) <=> a < 4096
         /\ InRegion(AhbMap[2], a) <=> a >= 32768 /\ a < 36864
         /\ InRegion(AhbMap[3], a) <=> a >= 65536 /\ a < 81920
  BY AhbRegions DEF InRegion, Region, PL_TIMER_OFFSET, PL_SLOT_SIZE, PL_SRAM_OFFSET,
                    PL_SRAM_BYTES, PL_APB_OFFSET, PL_APB_WINDOW_SIZE

LEMMA InApb ==
  ASSUME NEW a \in Nat
  PROVE  /\ InRegion(ApbMap[1], a) <=> a < 4096
         /\ InRegion(ApbMap[2], a) <=> a >= 4096 /\ a < 8192
         /\ InRegion(ApbMap[3], a) <=> a >= 8192 /\ a < 12288
         /\ InRegion(ApbMap[4], a) <=> a >= 12288 /\ a < 16384
  BY ApbRegions DEF InRegion, Region

LEMMA InWindow ==
  ASSUME NEW a \in Nat
  PROVE  InRegion(WindowMap[1], a) <=> a < SYSTEMC_PL_WINDOW_SIZE
  BY WindowRegions, WindowSize DEF InRegion, Region

\* The decode of every address by each of the three maps.
LEMMA DecodeAhb ==
  ASSUME NEW a \in Nat
  PROVE  /\ a < 4096 => Decode(AhbMap, a) = 1
         /\ a >= 32768 /\ a < 36864 => Decode(AhbMap, a) = 2
         /\ a >= 65536 /\ a < 81920 => Decode(AhbMap, a) = 3
         /\ ~(a < 4096 \/ (a >= 32768 /\ a < 36864) \/ (a >= 65536 /\ a < 81920))
              => Decode(AhbMap, a) = 0
<1>1. \A j \in 1 .. Len(AhbMap) : j \in {1, 2, 3}
  BY AhbRegions
<1>2. 1 \in 1 .. Len(AhbMap) /\ 2 \in 1 .. Len(AhbMap) /\ 3 \in 1 .. Len(AhbMap)
  BY AhbRegions
<1>3. CASE a < 4096
  <2>1. \A j \in 1 .. Len(AhbMap) : InRegion(AhbMap[j], a) => j = 1
    BY <1>1, <1>3, InAhb
  <2> QED
    BY <1>2, <1>3, <2>1, InAhb, DecodeHit
<1>4. CASE a >= 32768 /\ a < 36864
  <2>1. \A j \in 1 .. Len(AhbMap) : InRegion(AhbMap[j], a) => j = 2
    BY <1>1, <1>4, InAhb
  <2> QED
    BY <1>2, <1>4, <2>1, InAhb, DecodeHit
<1>5. CASE a >= 65536 /\ a < 81920
  <2>1. \A j \in 1 .. Len(AhbMap) : InRegion(AhbMap[j], a) => j = 3
    BY <1>1, <1>5, InAhb
  <2> QED
    BY <1>2, <1>5, <2>1, InAhb, DecodeHit
<1>6. CASE ~(a < 4096 \/ (a >= 32768 /\ a < 36864) \/ (a >= 65536 /\ a < 81920))
  <2>1. \A j \in 1 .. Len(AhbMap) : ~InRegion(AhbMap[j], a)
    BY <1>1, <1>6, InAhb
  <2> QED
    BY <1>6, <2>1, DecodeMiss
<1> QED
  BY <1>3, <1>4, <1>5, <1>6

LEMMA DecodeApb ==
  ASSUME NEW a \in Nat, a < 16384
  PROVE  /\ a < 4096 => Decode(ApbMap, a) = 1
         /\ a >= 4096 /\ a < 8192 => Decode(ApbMap, a) = 2
         /\ a >= 8192 /\ a < 12288 => Decode(ApbMap, a) = 3
         /\ a >= 12288 => Decode(ApbMap, a) = 4
<1>1. \A j \in 1 .. Len(ApbMap) : j \in {1, 2, 3, 4}
  BY ApbRegions
<1>2. \A j \in {1, 2, 3, 4} : j \in 1 .. Len(ApbMap)
  BY ApbRegions
<1>3. \A i, j \in 1 .. Len(ApbMap) :
        InRegion(ApbMap[i], a) /\ InRegion(ApbMap[j], a) => j = i
  BY <1>1, InApb
<1>4. \A i \in 1 .. Len(ApbMap) : InRegion(ApbMap[i], a) => Decode(ApbMap, a) = i
  BY <1>3, DecodeHit
<1> QED
  BY <1>2, <1>4, InApb

LEMMA DecodeWindow ==
  ASSUME NEW a \in Nat
  PROVE  /\ a < SYSTEMC_PL_WINDOW_SIZE => Decode(WindowMap, a) = 1
         /\ a >= SYSTEMC_PL_WINDOW_SIZE => Decode(WindowMap, a) = 0
<1>1. \A j \in 1 .. Len(WindowMap) : j = 1
  BY WindowRegions
<1>2. 1 \in 1 .. Len(WindowMap)
  BY WindowRegions
<1>3. CASE a < SYSTEMC_PL_WINDOW_SIZE
  BY <1>1, <1>2, <1>3, InWindow, WindowSize, DecodeHit
<1>4. CASE a >= SYSTEMC_PL_WINDOW_SIZE
  <2>1. \A j \in 1 .. Len(WindowMap) : ~InRegion(WindowMap[j], a)
    BY <1>1, <1>4, InWindow, WindowSize
  <2> QED
    BY <1>4, <2>1, WindowSize, DecodeMiss
<1> QED
  BY <1>3, <1>4, WindowSize

\* The slots of the memory map in numbers.
LEMMA Bases ==
  ASSUME platform = "basic_cortexM"
  PROVE  /\ Base("timer") = 0 /\ Base("sram") = 32768 /\ Base("gpio") = 65536
         /\ Base("uart") = 69632 /\ Base("sysctrl") = 73728 /\ Base("wdt") = 77824
         /\ SlotSize = 4096
  BY DEF Base, SlotSize, MemoryMap, PL_TIMER_OFFSET, PL_SRAM_OFFSET, PL_GPIO_OFFSET,
         PL_UART_OFFSET, PL_SYSCTRL_OFFSET, PL_WDT_OFFSET, PL_SLOT_SIZE

LEMMA Slots ==
  ASSUME platform = "basic_cortexM", NEW a \in Nat
  PROVE  /\ Claims("timer", a) <=> a < 4096
         /\ Claims("sram", a) <=> a >= 32768 /\ a < 36864
         /\ Claims("gpio", a) <=> a >= 65536 /\ a < 69632
         /\ Claims("uart", a) <=> a >= 69632 /\ a < 73728
         /\ Claims("sysctrl", a) <=> a >= 73728 /\ a < 77824
         /\ Claims("wdt", a) <=> a >= 77824 /\ a < 81920
  BY Bases DEF Claims

LEMMA OtherPlatform ==
  ASSUME platform = "basic_cortexA"
  PROVE  /\ SlotSize = SYSTEMC_PL_WINDOW_SIZE
         /\ \A d \in Devices : Base(d) = 0
         /\ \A a \in Nat : Claims("timer", a) <=> a < SYSTEMC_PL_WINDOW_SIZE
         /\ \A a, d : Claims(d, a) => d = "timer"
<1>1. SlotSize = SYSTEMC_PL_WINDOW_SIZE /\ \A d : Base(d) = 0
  BY DEF Base, SlotSize
<1>2. \A a \in Nat : Claims("timer", a) <=> a < SYSTEMC_PL_WINDOW_SIZE
  BY <1>1, WindowSize DEF Claims
<1> QED
  BY <1>1, <1>2 DEF Claims

LEMMA RequestType ==
  ASSUME NEW r \in Requests
  PROVE  /\ r.offset \in Offsets /\ r.offset \in Nat /\ r.offset % 4 = 0
         /\ r.word \in Words /\ r.kind \in {"load", "store"}
  BY OffsetAssumption DEF Requests

\* A word of the SRAM's slot has its cell, of which nothing is out of range.
LEMMA SramCell ==
  ASSUME NEW o \in Offsets, o >= PL_SRAM_OFFSET, o < PL_SRAM_OFFSET + PL_SLOT_SIZE
  PROVE  /\ o \in SramOffsets /\ o - PL_SRAM_OFFSET \in Cells
         /\ (o - PL_SRAM_OFFSET) % 4 = 0
         /\ o - PL_SRAM_OFFSET + 4 <= PL_SRAM_BYTES
<1>1. o \in Nat /\ o % 4 = 0
  BY OffsetAssumption
<1>2. o \in SramOffsets /\ o - PL_SRAM_OFFSET \in Cells
  BY DEF SramOffsets, Cells
<1>3. (o - 32768) % 4 = 0 /\ (o - 32768) + 4 <= 4096
  BY <1>1 DEF PL_SRAM_OFFSET, PL_SLOT_SIZE
<1> QED
  BY <1>2, <1>3 DEF PL_SRAM_OFFSET, PL_SRAM_BYTES

LEMMA InitInv == Init => Inv
<1> SUFFICES ASSUME Init PROVE Inv
  OBVIOUS
<1>1. request \in Requests /\ address = Offset /\ data = request.word
  BY DEF Init, Offset
<1>2. TypeOK
  BY <1>1, RequestType, OffsetAssumption, WindowSize
     DEF Init, TypeOK, Offset, SlotSize, PL_SLOT_SIZE
<1>3. Route
  BY <1>1 DEF Init, Route, ApbDevices
<1>4. Memory
  <2>1. \A o \in SramOffsets : mem[o - PL_SRAM_OFFSET] = flat[o]
    BY DEF Init, Cells
  <2> QED
    BY <1>1, <2>1 DEF Init, Memory, InFlight
<1> QED
  BY <1>2, <1>3, <1>4 DEF Inv

LEMMA CallInv == Inv /\ Call /\ UNCHANGED platform => Inv'
<1> SUFFICES ASSUME Inv, Call, UNCHANGED platform PROVE Inv'
  OBVIOUS
<1>1. request' \in Requests /\ address' = Offset' /\ data' = request'.word
  BY DEF Call, Begin, Offset
<1>2. TypeOK'
  BY <1>1, RequestType, WindowSize
     DEF Inv, Call, Begin, TypeOK, Offset, SlotSize, PL_SLOT_SIZE
<1>3. Route'
  BY <1>1 DEF Call, Begin, Route, ApbDevices
<1>4. Memory'
  BY <1>1 DEF Inv, Call, Begin, Memory, InFlight
<1> QED
  BY <1>2, <1>3, <1>4 DEF Inv

LEMMA RootInv == Inv /\ Root /\ UNCHANGED platform => Inv'
<1> SUFFICES ASSUME Inv, Root, UNCHANGED platform PROVE Inv'
  OBVIOUS
<1>1. /\ TypeOK /\ at = "initiator" /\ address = Offset /\ reached = <<"none", 0>>
      /\ Offset \in Nat /\ ahb_addr' = Offset
      /\ UNCHANGED <<request, apb_addr, reached, data, mem, flat>>
  BY RequestType DEF Inv, Route, TypeOK, Root, Offset
<1>2. Memory'
  <2>1. ~InFlight /\ ~(at \in {"ahb_return", "returned"})
    BY <1>1 DEF InFlight
  <2>2. at' \in {"timer", "sram", "bridge", "returned"}
    <3>1. CASE platform = "basic_cortexM"
      BY <1>1, <3>1, DecodeAhb, AhbRegions DEF Root, Forward, RootMap, Region
    <3>2. CASE platform # "basic_cortexM"
      BY <1>1, <3>2, DecodeWindow, WindowSize, WindowRegions DEF Root, Forward, RootMap, Region
    <3> QED
      BY <3>1, <3>2
  <2>3. at' = "returned" /\ platform = "basic_cortexM" => ~Claims("sram", Offset)
    BY <1>1, DecodeAhb, AhbRegions, Slots DEF Root, Forward, RootMap, Region
  <2> QED
    BY <1>1, <2>1, <2>2, <2>3 DEF Inv, Memory, InFlight, Offset, Claims, Base, SlotSize
<1>3. CASE platform = "basic_cortexM"
  <2>1. RootMap = AhbMap
    BY <1>3 DEF RootMap
  <2>2. CASE Offset < 4096
    <3>1. at' = "timer" /\ address' = Offset /\ UNCHANGED status
      BY <1>1, <2>1, <2>2, DecodeAhb, AhbRegions DEF Root, Forward, Region, PL_TIMER_OFFSET
    <3>2. Claims("timer", Offset)
      BY <1>1, <1>3, <2>2, Slots
    <3>3. TypeOK'
      BY <1>1, <3>1 DEF TypeOK, SlotSize, Devices
    <3>4. Route'
      BY <1>1, <3>1, <3>2 DEF Route, ApbDevices, Offset, Claims, Base, SlotSize
    <3> QED
      BY <1>2, <3>3, <3>4 DEF Inv
  <2>3. CASE Offset >= 32768 /\ Offset < 36864
    <3>1. at' = "sram" /\ address' = Offset - PL_SRAM_OFFSET /\ UNCHANGED status
      BY <1>1, <2>1, <2>3, DecodeAhb, AhbRegions DEF Root, Forward, Region
    <3>2. Claims("sram", Offset) /\ Offset - PL_SRAM_OFFSET \in Nat
      BY <1>1, <1>3, <2>3, Slots DEF PL_SRAM_OFFSET
    <3>3. TypeOK'
      BY <1>1, <3>1, <3>2 DEF TypeOK, SlotSize, Devices
    <3>4. Route'
      BY <1>1, <1>3, <3>1, <3>2 DEF Route, ApbDevices, Offset, Claims, Base, SlotSize
    <3> QED
      BY <1>2, <3>3, <3>4 DEF Inv
  <2>4. CASE Offset >= 65536 /\ Offset < 81920
    <3>1. at' = "bridge" /\ address' = Offset - PL_APB_OFFSET /\ UNCHANGED status
      BY <1>1, <2>1, <2>4, DecodeAhb, AhbRegions DEF Root, Forward, Region
    <3>2. /\ Offset >= PL_APB_OFFSET /\ Offset < PL_APB_OFFSET + PL_APB_WINDOW_SIZE
          /\ Offset - PL_APB_OFFSET \in Nat
      BY <1>1, <2>4 DEF PL_APB_OFFSET, PL_APB_WINDOW_SIZE
    <3>3. TypeOK'
      BY <1>1, <3>1, <3>2 DEF TypeOK, SlotSize
    <3>4. Route'
      BY <1>1, <1>3, <3>1, <3>2 DEF Route, ApbDevices, Offset, Claims, Base, SlotSize
    <3> QED
      BY <1>2, <3>3, <3>4 DEF Inv
  <2>5. CASE ~(\/ Offset < 4096
               \/ Offset >= 32768 /\ Offset < 36864
               \/ Offset >= 65536 /\ Offset < 81920)
    <3>1. at' = "returned" /\ address' = Offset /\ status' = "address_error"
      BY <1>1, <2>1, <2>5, DecodeAhb DEF Root, Forward
    <3>2. \A d \in Devices : ~Claims(d, Offset)
      BY <1>1, <1>3, <2>5, Slots DEF Devices
    <3>3. Answered'
      BY <1>1, <3>1, <3>2 DEF Answered, Offset, Claims, Base, SlotSize
    <3>4. TypeOK'
      BY <1>1, <3>1 DEF TypeOK, SlotSize
    <3>5. Route'
      BY <1>1, <3>1, <3>3 DEF Route, ApbDevices, Offset
    <3> QED
      BY <1>2, <3>4, <3>5 DEF Inv
  <2> QED
    BY <2>2, <2>3, <2>4, <2>5
<1>4. CASE platform = "basic_cortexA"
  <2>1. RootMap = WindowMap
    BY <1>4 DEF RootMap
  <2>2. CASE Offset < SYSTEMC_PL_WINDOW_SIZE
    <3>1. at' = "timer" /\ address' = Offset /\ UNCHANGED status
      BY <1>1, <2>1, <2>2, DecodeWindow, WindowSize, WindowRegions DEF Root, Forward, Region
    <3>2. Claims("timer", Offset)
      BY <1>1, <1>4, <2>2, OtherPlatform
    <3>3. TypeOK'
      BY <1>1, <3>1 DEF TypeOK, SlotSize, Devices
    <3>4. Route'
      BY <1>1, <3>1, <3>2 DEF Route, ApbDevices, Offset, Claims, Base, SlotSize
    <3> QED
      BY <1>2, <3>3, <3>4 DEF Inv
  <2>3. CASE ~(Offset < SYSTEMC_PL_WINDOW_SIZE)
    <3>1. at' = "returned" /\ address' = Offset /\ status' = "address_error"
      BY <1>1, <2>1, <2>3, DecodeWindow, WindowSize DEF Root, Forward
    <3>2. \A d \in Devices : ~Claims(d, Offset)
      BY <1>1, <1>4, <2>3, OtherPlatform
    <3>3. Answered'
      BY <1>1, <3>1, <3>2 DEF Answered, Offset, Claims, Base, SlotSize
    <3>4. TypeOK'
      BY <1>1, <3>1 DEF TypeOK, SlotSize
    <3>5. Route'
      BY <1>1, <3>1, <3>3 DEF Route, ApbDevices, Offset
    <3> QED
      BY <1>2, <3>4, <3>5 DEF Inv
  <2> QED
    BY <2>2, <2>3
<1> QED
  BY <1>1, <1>3, <1>4 DEF TypeOK

LEMMA ApbInv == Inv /\ Apb /\ UNCHANGED platform => Inv'
<1> SUFFICES ASSUME Inv, Apb, UNCHANGED platform PROVE Inv'
  OBVIOUS
<1>1. /\ TypeOK /\ platform = "basic_cortexM" /\ at = "bridge"
      /\ ahb_addr = Offset /\ address = Offset - PL_APB_OFFSET /\ apb_addr' = address
      /\ Offset \in Nat /\ Offset >= PL_APB_OFFSET
      /\ Offset < PL_APB_OFFSET + PL_APB_WINDOW_SIZE
      /\ UNCHANGED <<request, ahb_addr, reached, data, mem, flat>>
  BY RequestType DEF Inv, Route, TypeOK, Apb, Offset
<1>2. address \in Nat /\ address < 16384 /\ address = Offset - 65536
  BY <1>1 DEF PL_APB_OFFSET, PL_APB_WINDOW_SIZE
<1>3. /\ at' \in ApbDevices /\ UNCHANGED status
      /\ Claims(at', Offset) /\ address' = Offset - Base(at')
      /\ address' \in Nat
  <2>1. CASE address < 4096
    <3>1. at' = "gpio" /\ address' = address /\ UNCHANGED status
      BY <1>2, <2>1, DecodeApb, ApbRegions DEF Apb, Forward, Region
    <3> QED
      BY <1>1, <1>2, <2>1, <3>1, Slots, Bases DEF ApbDevices
  <2>2. CASE address >= 4096 /\ address < 8192
    <3>1. at' = "uart" /\ address' = address - 4096 /\ UNCHANGED status
      BY <1>2, <2>2, DecodeApb, ApbRegions DEF Apb, Forward, Region
    <3> QED
      BY <1>1, <1>2, <2>2, <3>1, Slots, Bases DEF ApbDevices
  <2>3. CASE address >= 8192 /\ address < 12288
    <3>1. at' = "sysctrl" /\ address' = address - 8192 /\ UNCHANGED status
      BY <1>2, <2>3, DecodeApb, ApbRegions DEF Apb, Forward, Region
    <3> QED
      BY <1>1, <1>2, <2>3, <3>1, Slots, Bases DEF ApbDevices
  <2>4. CASE address >= 12288
    <3>1. at' = "wdt" /\ address' = address - 12288 /\ UNCHANGED status
      BY <1>2, <2>4, DecodeApb, ApbRegions DEF Apb, Forward, Region
    <3> QED
      BY <1>1, <1>2, <2>4, <3>1, Slots, Bases DEF ApbDevices
  <2> QED
    BY <1>2, <2>1, <2>2, <2>3, <2>4
<1>4. TypeOK'
  BY <1>1, <1>2, <1>3 DEF TypeOK, SlotSize, ApbDevices, Devices
<1>5. Route'
  BY <1>1, <1>3 DEF Route, ApbDevices, Offset, Claims, Base, SlotSize
<1>6. Memory'
  BY <1>1, <1>3 DEF Inv, Memory, InFlight, Offset, ApbDevices
<1> QED
  BY <1>4, <1>5, <1>6 DEF Inv

\* No two devices of the memory map claim the same offset.
LEMMA OneClaim ==
  ASSUME platform \in {"basic_cortexM", "basic_cortexA"}, NEW a \in Nat,
         NEW d \in Devices, NEW e \in Devices, Claims(d, a), Claims(e, a)
  PROVE  d = e
<1>1. CASE platform = "basic_cortexM"
  BY <1>1, Slots DEF Devices
<1>2. CASE platform = "basic_cortexA"
  BY <1>2, OtherPlatform
<1> QED
  BY <1>1, <1>2

\* A device that is reached with status ok, at its offset, is the answer.
LEMMA DeviceAnswers ==
  ASSUME TypeOK, NEW d \in Devices, Claims(d, Offset),
         status' = "ok", UNCHANGED <<platform, request>>,
         reached' = <<d, Offset - Base(d)>>
  PROVE  Answered'
<1>1. Offset \in Nat
  BY RequestType DEF TypeOK, Offset
<1>2. \A e \in Devices : Claims(e, Offset) => e = d
  BY <1>1, OneClaim DEF TypeOK
<1> QED
  BY <1>2 DEF Answered, Offset, Claims, Base, SlotSize, Base, SlotSize

\* What a device is given is an offset in its slot.
LEMMA SlotOffset ==
  ASSUME platform \in {"basic_cortexM", "basic_cortexA"},
         NEW a \in Nat, NEW d \in Devices, Claims(d, a)
  PROVE  a - Base(d) \in 0 .. SlotSize - 1
<1>1. Base(d) \in Nat /\ SlotSize \in Nat
  <2>1. CASE platform = "basic_cortexM"
    BY <2>1, Bases DEF Devices
  <2>2. CASE platform = "basic_cortexA"
    BY <2>2, OtherPlatform, WindowSize
  <2> QED
    BY <2>1, <2>2
<1>2. a >= Base(d) /\ a < Base(d) + SlotSize
  BY DEF Claims
<1> QED
  BY <1>1, <1>2

\* What is not claimed by the SRAM is not the offset of a word of it.
LEMMA OffSram ==
  ASSUME platform = "basic_cortexM", Offset \in Nat, ~Claims("sram", Offset)
  PROVE  \A o \in SramOffsets : o # Offset
  BY Slots DEF SramOffsets, PL_SRAM_OFFSET, PL_SLOT_SIZE

LEMMA DeviceInv == Inv /\ Device /\ UNCHANGED platform => Inv'
<1> SUFFICES ASSUME Inv, Device, UNCHANGED platform PROVE Inv'
  OBVIOUS
<1>1. /\ TypeOK /\ at \in Devices \ {"sram"} /\ at' = Caller(at)
      /\ reached' = <<at, address>> /\ status' = "ok" /\ Offset \in Nat
      /\ UNCHANGED <<request, address, ahb_addr, apb_addr, mem, flat>>
  BY RequestType DEF Inv, TypeOK, Device, Offset
<1>2. /\ data' \in Words
      /\ request.kind = "store" => data' = data
  BY <1>1, RequestType DEF Device, TypeOK
<1>3. Claims(at, Offset) /\ ahb_addr = Offset
  BY <1>1 DEF Inv, Route, Devices, ApbDevices
<1>4. address = Offset - Base(at)
  <2>1. CASE at = "timer"
    <3>1. address = Offset
      BY <1>1, <2>1 DEF Inv, Route
    <3>2. Base("timer") = 0
      BY Bases, OtherPlatform, <1>1 DEF TypeOK, Devices
    <3> QED
      BY <1>1, <2>1, <3>1, <3>2
  <2>2. CASE at \in ApbDevices
    BY <1>1, <2>2 DEF Inv, Route
  <2> QED
    BY <1>1, <2>1, <2>2 DEF Devices, ApbDevices
<1>5. Answered'
  BY <1>1, <1>3, <1>4, DeviceAnswers
<1>6. address \in 0 .. SlotSize - 1
  BY <1>1, <1>3, <1>4, SlotOffset DEF TypeOK
<1>7. \/ at' = "ahb_return" /\ at = "timer"
      \/ at' = "apb_return" /\ at \in ApbDevices
  <2>1. at \in {"timer", "gpio", "uart", "sysctrl", "wdt"} /\ at' = Caller(at)
    BY <1>1 DEF Devices
  <2> QED
    BY <2>1 DEF Caller, ApbDevices
<1>8. TypeOK'
  BY <1>1, <1>2, <1>6, <1>7 DEF TypeOK, SlotSize
<1>9. Route'
  <2>1. ~Claims("sram", Offset)
    BY <1>1, <1>3, OneClaim DEF TypeOK, Devices
  <2> QED
    BY <1>1, <1>3, <1>5, <1>7, <2>1 DEF Route, ApbDevices, Offset, Claims, Base, SlotSize
<1>10. Memory'
  <2>1. CASE platform = "basic_cortexA"
    BY <2>1 DEF Memory
  <2>2. CASE platform = "basic_cortexM"
    <3>1. ~Claims("sram", Offset)
      BY <1>1, <1>3, OneClaim DEF TypeOK, Devices
    <3>2. \A o \in SramOffsets : o # Offset
      BY <1>1, <2>2, <3>1, OffSram
    <3>3. ~InFlight
      BY <1>1 DEF InFlight, Devices
    <3> QED
      BY <1>1, <1>2, <1>7, <2>2, <3>1, <3>2, <3>3 DEF Inv, Memory, InFlight, Offset, Claims, Base, SlotSize
  <2> QED
    BY <1>1, <2>1, <2>2 DEF TypeOK
<1> QED
  BY <1>8, <1>9, <1>10 DEF Inv

LEMMA SramInv == Inv /\ Sram /\ UNCHANGED platform => Inv'
<1> SUFFICES ASSUME Inv, Sram, UNCHANGED platform PROVE Inv'
  OBVIOUS
<1>1. /\ TypeOK /\ platform = "basic_cortexM" /\ at = "sram" /\ at' = "ahb_return"
      /\ Claims("sram", Offset) /\ address = Offset - PL_SRAM_OFFSET /\ ahb_addr = Offset
      /\ reached' = <<"sram", address>>
      /\ Offset \in Offsets /\ Offset \in Nat /\ request \in Requests
      /\ UNCHANGED <<request, address, ahb_addr, apb_addr, flat>>
  BY RequestType DEF Inv, Route, TypeOK, Sram, Caller, Offset
<1>2. /\ Offset \in SramOffsets /\ address \in Cells /\ InSram
      /\ Offset >= PL_SRAM_OFFSET
  BY <1>1, SramCell, Slots DEF InSram, PL_SRAM_OFFSET, PL_SLOT_SIZE
<1>3. status' = "ok"
  BY <1>2 DEF Sram
<1>4. "sram" \in Devices /\ address = Offset - Base("sram")
  BY <1>1, Bases DEF Devices, PL_SRAM_OFFSET
<1>5. Answered'
  BY <1>1, <1>3, <1>4, DeviceAnswers
<1>6. address \in 0 .. SlotSize - 1
  BY <1>1, <1>4, SlotOffset DEF TypeOK
<1>7. Route'
  BY <1>1, <1>5 DEF Route, ApbDevices, Offset
<1>8. \A o \in SramOffsets : mem[o - PL_SRAM_OFFSET] = flat[o]
  BY <1>1 DEF Inv, Memory, InFlight
<1>9. CASE request.kind = "load"
  <2>1. data' = mem[address] /\ mem' = mem
    BY <1>2, <1>9 DEF Sram, Cell
  <2>2. data' = flat[Offset] /\ data' \in Words
    BY <1>1, <1>2, <1>8, <2>1 DEF TypeOK
  <2>3. TypeOK'
    BY <1>1, <1>3, <1>4, <1>6, <2>1, <2>2 DEF TypeOK, SlotSize
  <2>4. Memory'
    BY <1>1, <1>8, <1>9, <2>1, <2>2 DEF Memory, InFlight, Offset, Claims, Base, SlotSize
  <2> QED
    BY <1>7, <2>3, <2>4 DEF Inv
<1>10. CASE request.kind = "store"
  <2>1. mem' = [mem EXCEPT ![address] = data] /\ data' = data /\ data = request.word
    BY <1>1, <1>2, <1>10 DEF Sram, Cell, Inv, Memory
  <2>2. TypeOK'
    BY <1>1, <1>3, <1>4, <1>6, <2>1 DEF TypeOK, SlotSize
  <2>3. ASSUME NEW o \in SramOffsets
        PROVE  mem'[o - PL_SRAM_OFFSET] = IF o = Offset THEN request.word ELSE flat[o]
    <3>1. o \in Nat /\ o - PL_SRAM_OFFSET \in Cells
      BY OffsetAssumption DEF SramOffsets, Cells
    <3>2. o - PL_SRAM_OFFSET = address <=> o = Offset
      BY <1>1, <3>1 DEF PL_SRAM_OFFSET
    <3>3. mem \in [Cells -> Words]
      BY <1>1 DEF TypeOK
    <3> QED
      BY <1>8, <2>1, <3>1, <3>2, <3>3
  <2>4. Memory'
    BY <1>1, <1>10, <2>1, <2>3 DEF Memory, InFlight, Offset, Claims, Base, SlotSize
  <2> QED
    BY <1>7, <2>2, <2>4 DEF Inv
<1> QED
  BY <1>1, <1>9, <1>10, RequestType

LEMMA ReturnInv == Inv /\ (ApbReturn \/ BridgeReturn) /\ UNCHANGED platform => Inv'
<1> SUFFICES ASSUME Inv, ApbReturn \/ BridgeReturn, UNCHANGED platform PROVE Inv'
  OBVIOUS
<1>1. /\ TypeOK /\ at \in {"apb_return", "bridge_return"} /\ ~Claims("sram", Offset)
      /\ at' \in {"bridge_return", "ahb_return"}
      /\ ahb_addr = Offset /\ Answered /\ address' \in Nat /\ Offset \in Nat
      /\ UNCHANGED <<request, ahb_addr, apb_addr, reached, data, status, mem, flat>>
  BY RequestType DEF Inv, TypeOK, Route, ApbReturn, BridgeReturn, Offset
<1>2. TypeOK'
  BY <1>1 DEF TypeOK, SlotSize
<1>3. Route'
  BY <1>1 DEF Route, ApbDevices, Answered, Offset, Claims, Base, SlotSize
<1>4. Memory'
  <2>1. platform = "basic_cortexM" => \A o \in SramOffsets : o # Offset
    BY <1>1, OffSram
  <2>2. Claims("sram", Offset)' <=> Claims("sram", Offset)
    BY <1>1 DEF Offset, Claims, Base, SlotSize
  <2> QED
    BY <1>1, <2>1, <2>2 DEF Inv, Memory, InFlight, Offset
<1> QED
  BY <1>2, <1>3, <1>4 DEF Inv

LEMMA RootReturnInv == Inv /\ RootReturn /\ UNCHANGED platform => Inv'
<1> SUFFICES ASSUME Inv, RootReturn, UNCHANGED platform PROVE Inv'
  OBVIOUS
<1>1. /\ TypeOK /\ at = "ahb_return" /\ at' = "returned" /\ address' = ahb_addr
      /\ ahb_addr = Offset /\ Answered /\ NoteStore /\ request \in Requests
      /\ Offset \in Offsets /\ Offset \in Nat
      /\ UNCHANGED <<request, ahb_addr, apb_addr, reached, data, status, mem>>
  BY RequestType DEF Inv, TypeOK, Route, RootReturn, Offset
<1>2. \A o \in SramOffsets :
        flat'[o] = IF request.kind = "store" /\ o = Offset /\ status = "ok"
                   THEN request.word ELSE flat[o]
  BY <1>1 DEF NoteStore, Offset
<1>3. flat' \in [SramOffsets -> Words]
  BY <1>1, RequestType DEF NoteStore, TypeOK
<1>4. TypeOK'
  BY <1>1, <1>3 DEF TypeOK, SlotSize
<1>5. Route'
  BY <1>1 DEF Route, ApbDevices, Answered, Offset, Claims, Base, SlotSize
<1>6. CASE platform = "basic_cortexA"
  BY <1>4, <1>5, <1>6 DEF Inv, Memory
<1>7. CASE platform = "basic_cortexM"
  <2>1. Claims("sram", Offset) => status = "ok"
    BY <1>1 DEF Answered, Devices
  <2>2. ~Claims("sram", Offset) => \A o \in SramOffsets : o # Offset
    BY <1>1, <1>7, OffSram
  <2>3. Claims("sram", Offset)' <=> Claims("sram", Offset)
    BY <1>1 DEF Offset, Claims, Base, SlotSize
  <2>4. Offset' = Offset /\ ~InFlight'
    BY <1>1 DEF Offset, InFlight
  <2>5. /\ \A o \in SramOffsets :
             mem[o - PL_SRAM_OFFSET] =
               IF request.kind = "store" /\ o = Offset THEN request.word ELSE flat[o]
        /\ request.kind = "load" /\ Claims("sram", Offset) => data = flat[Offset]
        /\ request.kind = "store" => data = request.word
    BY <1>1, <1>7 DEF Inv, Memory, InFlight
  <2>6. \A o \in SramOffsets : mem'[o - PL_SRAM_OFFSET] = flat'[o]
    BY <1>1, <1>2, <2>1, <2>2, <2>5
  <2>7. request.kind = "load" /\ Claims("sram", Offset) => data' = flat'[Offset]
    <3>1. Claims("sram", Offset) => Offset \in SramOffsets
      BY <1>1, <1>7, Slots DEF SramOffsets, PL_SRAM_OFFSET, PL_SLOT_SIZE
    <3> QED
      BY <1>1, <1>2, <2>5, <3>1
  <2>8. Memory'
    BY <1>1, <2>3, <2>4, <2>5, <2>6, <2>7 DEF Memory
  <2> QED
    BY <1>4, <1>5, <2>8 DEF Inv
<1> QED
  BY <1>1, <1>6, <1>7 DEF TypeOK

LEMMA StutterInv == Inv /\ UNCHANGED vars => Inv'
<1> SUFFICES ASSUME Inv, UNCHANGED vars PROVE Inv'
  OBVIOUS
<1> USE DEF vars
<1>1. TypeOK'
  BY DEF Inv, TypeOK, SlotSize
<1>2. Route'
  BY DEF Inv, Route, Answered, Offset, Claims, Base, SlotSize
<1>3. Memory'
  BY DEF Inv, Memory, InFlight, Offset, Claims, Base, SlotSize
<1> QED
  BY <1>1, <1>2, <1>3 DEF Inv

LEMMA Inductive == Spec => []Inv
<1>1. Inv /\ [Next]_vars => Inv'
  BY CallInv, RootInv, ApbInv, DeviceInv, SramInv, ReturnInv, RootReturnInv, StutterInv
     DEF Next
<1> QED
  BY InitInv, <1>1, PTL DEF Spec

\* For every offset the transaction stays in its address space on the way
\* down and on the way back: no translation leaves the slot of its device.
THEOREM TypeCorrect == Spec => []TypeOK
<1>1. Inv => TypeOK
  BY DEF Inv
<1> QED
  BY <1>1, Inductive, PTL

\* The two levels of decoding implement the flat memory map, at every offset
\* of the window and beyond it.
THEOREM DecodersImplementMap == Spec => []RoutedByMap
<1>1. Inv => RoutedByMap
  BY DEF Inv, Route, RoutedByMap, Answered, Offset
<1> QED
  BY <1>1, Inductive, PTL

\* The initiator's address comes back, through any number of levels.
THEOREM AddressComesBack == Spec => []AddressRestored
<1>1. Inv => AddressRestored
  BY DEF Inv, Route, AddressRestored, Offset
<1> QED
  BY <1>1, Inductive, PTL

\* The SRAM is a memory at every aligned offset of its slot.
THEOREM SramIsMemory == Spec => []LoadsLastStore
<1>1. Inv => LoadsLastStore
  <2> SUFFICES ASSUME Inv, at = "returned", Claims("sram", request.offset)
               PROVE  /\ status = "ok"
                      /\ request.kind = "load" => data = flat[request.offset]
    BY DEF LoadsLastStore
  <2>1. platform = "basic_cortexM"
    BY OtherPlatform DEF Inv, TypeOK
  <2>2. status = "ok"
    BY DEF Inv, Route, Answered, Offset, Devices
  <2>3. request.kind = "load" => data = flat[request.offset]
    BY <2>1 DEF Inv, Memory, Offset
  <2> QED
    BY <2>2, <2>3
<1> QED
  BY <1>1, Inductive, PTL

=============================================================================
