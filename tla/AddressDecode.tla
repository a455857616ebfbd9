--------------------------- MODULE AddressDecode ---------------------------
(***************************************************************************)
(* How an access finds its device.  On basic_cortexM it goes through the   *)
(* AHB decoder, and for an APB device through the bridge and the APB       *)
(* decoder (src/interconnect/tlm_decoder.h, src/bridges/ahb_apb_bridge.h), *)
(* as src/Soc/cortexm_pl.h wires them; on basic_cortexA through the        *)
(* address map (src/interconnect/tlm_address_map.h), whose one region is   *)
(* the window.  Each b_transport() translates the address of the           *)
(* transaction for the one it calls, and puts it back.  The SRAM           *)
(* (src/peripherals/sram_ahb.h) is the device whose words are followed.    *)
(* Addresses are byte offsets in the PL window.                            *)
(***************************************************************************)
EXTENDS Naturals, Sequences

CONSTANTS Offsets,  \* bound: offsets the guest accesses, of words
          Words     \* bound: words it stores

ASSUME OffsetAssumption == /\ \A o \in Offsets : o \in Nat /\ o % 4 = 0
                            /\ 0 \in Words

VARIABLES platform,   \* the platform, the same for ever
          request,    \* the request: a load or a store at an offset
          at,         \* the b_transport() being executed
          address,    \* the address in the transaction
          ahb_addr, apb_addr,  \* the local variable addr of each decoder
          reached,    \* the device called and the offset it was given
          data,       \* the word in the transaction
          status,     \* response status
          mem,        \* the words of the SRAM
          flat        \* history: the word last stored at each offset of the SRAM's slot

vars == <<platform, request, at, address, ahb_addr, apb_addr, reached, data,
          status, mem, flat>>

PL_SLOT_SIZE == 4096
PL_TIMER_OFFSET == 0
PL_SRAM_OFFSET == 32768
PL_SRAM_BYTES == 4096
PL_APB_OFFSET == 65536
PL_APB_WINDOW_SIZE == 16384
PL_GPIO_OFFSET == 65536
PL_UART_OFFSET == 69632
PL_SYSCTRL_OFFSET == 73728
PL_WDT_OFFSET == 77824

SYSTEMC_PL_WINDOW_SIZE == 1048576

Devices == {"timer", "sram", "gpio", "uart", "sysctrl", "wdt"}

Region(base, size, port) == [base |-> base, size |-> size, port |-> port]

\* Mutant: the APB window is a slot short.
AhbMapShort == << Region(PL_TIMER_OFFSET, PL_SLOT_SIZE, "timer"),
                  Region(PL_SRAM_OFFSET, PL_SRAM_BYTES, "sram"),
                  Region(PL_APB_OFFSET, PL_APB_WINDOW_SIZE - PL_SLOT_SIZE, "bridge") >>

\* map_slave() and port().bind(); slave i of the code is element i + 1.
AhbMap == << Region(PL_TIMER_OFFSET, PL_SLOT_SIZE, "timer"),
             Region(PL_SRAM_OFFSET, PL_SRAM_BYTES, "sram"),
             Region(PL_APB_OFFSET, PL_APB_WINDOW_SIZE, "bridge") >>

\* map_region() of basic_cortexA.
WindowMap == << Region(0, SYSTEMC_PL_WINDOW_SIZE, "timer") >>

RootMap == IF platform = "basic_cortexM" THEN AhbMap ELSE WindowMap

ApbMap == << Region(PL_GPIO_OFFSET - PL_APB_OFFSET, PL_SLOT_SIZE, "gpio"),
             Region(PL_UART_OFFSET - PL_APB_OFFSET, PL_SLOT_SIZE, "uart"),
             Region(PL_SYSCTRL_OFFSET - PL_APB_OFFSET, PL_SLOT_SIZE, "sysctrl"),
             Region(PL_WDT_OFFSET - PL_APB_OFFSET, PL_SLOT_SIZE, "wdt") >>

\* Mutant: the end of a region is taken to belong to it.
InRegionClosed(r, a) == a >= r.base /\ a <= r.base + r.size
InRegion(r, a) == a >= r.base /\ a < r.base + r.size

\* decode(): the first region the address is in, or 0.
Decode(map, a) ==
  LET hits == {i \in 1 .. Len(map) : InRegion(map[i], a)}
  IN IF hits = {} THEN 0 ELSE CHOOSE i \in hits : \A j \in hits : i <= j

Requests == [kind : {"load"}, offset : Offsets, word : {0}]
            \cup [kind : {"store"}, offset : Offsets, word : Words]

\* The offsets in the SRAM's slot, and the words of the SRAM they address.
SramOffsets == {o \in Offsets : o >= PL_SRAM_OFFSET /\ o < PL_SRAM_OFFSET + PL_SLOT_SIZE}
Cells == {o - PL_SRAM_OFFSET : o \in SramOffsets}

Begin(r) == /\ address' = r.offset /\ data' = r.word
            /\ at' = "initiator" /\ status' = "incomplete"
            /\ reached' = <<"none", 0>>

Init == /\ platform \in {"basic_cortexM", "basic_cortexA"}
        /\ request \in Requests
        /\ address = request.offset /\ data = request.word
        /\ at = "initiator" /\ status = "incomplete" /\ reached = <<"none", 0>>
        /\ ahb_addr = 0 /\ apb_addr = 0
        /\ mem = [c \in Cells |-> 0]
        /\ flat = [o \in SramOffsets |-> 0]

\* tlm_read() or tlm_write() of the next request, when one has returned.
Call == /\ at = "returned"
        /\ request' \in Requests
        /\ Begin(request')
        /\ ahb_addr' = 0 /\ apb_addr' = 0
        /\ UNCHANGED <<mem, flat>>

\* A decoder passes the transaction on, or answers that nothing is there.
Forward(map, caller) ==
  LET i == Decode(map, address)
  IN \/ /\ i # 0
        /\ address' = address - map[i].base
        /\ at' = map[i].port
        /\ UNCHANGED status
     \/ /\ i = 0
        /\ status' = "address_error"
        /\ at' = caller
        /\ UNCHANGED address

Root == /\ at = "initiator"
        /\ ahb_addr' = address
        /\ Forward(RootMap, "returned")
        /\ UNCHANGED <<request, apb_addr, reached, data, mem, flat>>

Apb == /\ at = "bridge"
       /\ apb_addr' = address
       /\ Forward(ApbMap, "bridge_return")
       /\ UNCHANGED <<request, ahb_addr, reached, data, mem, flat>>

Caller(d) == IF d \in {"timer", "sram"} THEN "ahb_return" ELSE "apb_return"

\* The other devices answer whatever the offset; what they hold is not here.
Device == /\ at \in Devices \ {"sram"}
          /\ reached' = <<at, address>> /\ status' = "ok"
          /\ data' \in (IF request.kind = "load" THEN Words ELSE {data})
          /\ at' = Caller(at)
          /\ UNCHANGED <<request, address, ahb_addr, apb_addr, mem, flat>>

InSram == address % 4 = 0 /\ address + 4 <= PL_SRAM_BYTES

\* Mutant: the word goes to the cell of the slot's start.
CellFirst == 0
Cell == address

Sram == /\ at = "sram" /\ at' = Caller("sram")
        /\ reached' = <<"sram", address>>
        /\ status' = IF InSram THEN "ok" ELSE "address_error"
        /\ \/ /\ request.kind = "load"
              /\ data' = IF InSram THEN mem[Cell] ELSE data
              /\ UNCHANGED mem
           \/ /\ request.kind = "store"
              /\ mem' = IF InSram THEN [mem EXCEPT ![Cell] = data] ELSE mem
              /\ UNCHANGED data
        /\ UNCHANGED <<request, address, ahb_addr, apb_addr, flat>>

ApbReturn == /\ at = "apb_return"
             /\ address' = apb_addr /\ at' = "bridge_return"
             /\ UNCHANGED <<request, ahb_addr, apb_addr, reached, data, status, mem, flat>>

BridgeReturn == /\ at = "bridge_return" /\ at' = "ahb_return"
                /\ UNCHANGED <<request, address, ahb_addr, apb_addr, reached, data,
                               status, mem, flat>>

\* A store that returns normally is the last at its offset.
NoteStore == flat' = [o \in SramOffsets |->
                        IF request.kind = "store" /\ o = request.offset /\ status = "ok"
                        THEN request.word ELSE flat[o]]

\* Mutant: the first decoder does not put the address back.
RootReturnTranslated == /\ at = "ahb_return" /\ at' = "returned" /\ NoteStore
                        /\ UNCHANGED <<request, address, ahb_addr, apb_addr, reached,
                                       data, status, mem>>

RootReturn == /\ at = "ahb_return" /\ at' = "returned" /\ NoteStore
              /\ address' = ahb_addr
              /\ UNCHANGED <<request, ahb_addr, apb_addr, reached, data, status, mem>>

Next == /\ Call \/ Root \/ Apb \/ Device \/ Sram \/ ApbReturn \/ BridgeReturn
           \/ RootReturn
        /\ UNCHANGED platform

Spec == Init /\ [][Next]_vars

(***************************************************************************)
(* Properties.                                                             *)
(***************************************************************************)

\* soc_memory_map.h as the firmware sees it (soc_regs.h): each device at its
\* offset in the window, a slot long.
MemoryMap == [timer |-> PL_TIMER_OFFSET, sram |-> PL_SRAM_OFFSET,
              gpio |-> PL_GPIO_OFFSET, uart |-> PL_UART_OFFSET,
              sysctrl |-> PL_SYSCTRL_OFFSET, wdt |-> PL_WDT_OFFSET]

\* basic_cortexA has the timer alone, over the whole window.
Base(d) == IF platform = "basic_cortexM" THEN MemoryMap[d] ELSE 0

SlotSize == IF platform = "basic_cortexM" THEN PL_SLOT_SIZE ELSE SYSTEMC_PL_WINDOW_SIZE

Claims(d, a) == /\ platform = "basic_cortexM" \/ d = "timer"
                /\ a >= Base(d) /\ a < Base(d) + SlotSize

TypeOK ==
  /\ platform \in {"basic_cortexM", "basic_cortexA"}
  /\ request \in Requests
  /\ at \in Devices \cup {"initiator", "bridge", "apb_return", "bridge_return",
                          "ahb_return", "returned"}
  /\ address \in Nat /\ ahb_addr \in Nat /\ apb_addr \in Nat
  /\ reached \in (Devices \cup {"none"}) \X (0 .. SlotSize - 1)
  /\ status \in {"incomplete", "ok", "address_error"}
  /\ data \in Words
  /\ mem \in [Cells -> Words] /\ flat \in [SramOffsets -> Words]

\* The two levels of decoding implement the one flat memory map: an access
\* reaches the device the map puts at its offset, at the offset in it, and
\* is refused where the map puts none.
RoutedByMap ==
  at = "returned" =>
    /\ \A d \in Devices : Claims(d, request.offset) =>
         status = "ok" /\ reached = <<d, request.offset - Base(d)>>
    /\ (\A d \in Devices : ~Claims(d, request.offset)) =>
         status = "address_error" /\ reached = <<"none", 0>>

\* The initiator gets its transaction back with the address it put there.
AddressRestored == at = "returned" => address = request.offset

\* The SRAM is memory: a load of it returns the word last stored at its
\* offset in the window, whatever was stored elsewhere in between, and the
\* SRAM never refuses what the decoders send it.
LoadsLastStore ==
  at = "returned" /\ Claims("sram", request.offset) =>
    /\ status = "ok"
    /\ request.kind = "load" => data = flat[request.offset]

=============================================================================
