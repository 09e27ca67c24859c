---------------------------- MODULE FlashProgram ----------------------------
(***************************************************************************)
(* The configuration flash and its writers: pw_flash_program (spi_flash.c) *)
(* one SPI command at a time, under the flash.write RPC of the daemon and  *)
(* under `pktwyrm firmware update`.  The NOR chip is external: it takes a  *)
(* command only when idle and write-enabled, finishes it on its own, wraps *)
(* a page program inside its page, can only clear bits, and may leave a    *)
(* cell as it was.  A byte is the set of its one bits; erased is Bits.     *)
(***************************************************************************)
EXTENDS Integers, FiniteSets, FiniteSetsExt, Sequences

CONSTANTS
    Bits,        \* bits of a byte
    FLASH_SZ, SECTOR, PAGE,
    CHUNK,       \* bytes of one read command
    UINT32,      \* 2^32: what the RPC's offset is reduced by
    SCRATCH,     \* offset of the development region
    Files,       \* images a caller may write (sequences of bytes)
    Requests,    \* offsets an RPC may ask for (int64)
    FactoryFlash \* contents at the start

Addr == 0..(FLASH_SZ - 1)
Byte == SUBSET Bits

ASSUME FlashAssumption ==
    /\ {PAGE, SECTOR, FLASH_SZ, CHUNK, UINT32} \subseteq Nat \ {0}
    /\ SECTOR % PAGE = 0 /\ FLASH_SZ % SECTOR = 0 /\ CHUNK <= PAGE /\ FLASH_SZ <= UINT32
    /\ SCRATCH \in 0..(FLASH_SZ - 1) /\ Requests \subseteq Int

\* An image says where it ends: none is the beginning of another.
ASSUME ImageAssumption ==
    /\ Files \subseteq Seq(Byte)
    /\ \A f, g \in Files \ {<<>>} :
          Len(f) <= Len(g) /\ (\A k \in 1..Len(f) : f[k] = g[k]) => f = g

VARIABLES
    flash,    \* cells of the chip
    wel,      \* write-enable latch
    doing,    \* the command the chip is busy with (WIP), or Nothing
    faults,   \* transactions that failed and commands not carried out everywhere
    call,     \* the pw_flash_program under way
    before,   \* the cells when it was called last, with its range
    answer,   \* what its caller reported last
    image     \* the image the card is configured with, <<>> when it failed to load

flash_vars == <<flash, wel, doing, faults, call, before, answer, image>>

Nothing == [cells |-> [x \in {} |-> {}]]
Idle == [ pc |-> "idle", by |-> "none", boot |-> FALSE, offset |-> 0, data |-> <<>>,
          a |-> 0, k |-> 1, p |-> 0, keep |-> [x \in {} |-> {}], mism |-> 0 ]
NoAnswer == [by |-> "none", code |-> "none", offset |-> 0, data |-> <<>>]

\* The image that boots: the one whose bytes the flash holds from address 0.
Booted(cells) ==
    LET whole == {f \in Files \ {<<>>} : \A k \in DOMAIN f : cells[k - 1] = f[k]}
    IN  IF whole = {} THEN <<>> ELSE CHOOSE f \in whole : TRUE

FlashInit ==
    /\ flash = FactoryFlash /\ before = [cells |-> FactoryFlash, offset |-> 0, data |-> <<>>]
    /\ wel = FALSE /\ doing = Nothing /\ faults = 0
    /\ call = Idle /\ answer = NoAnswer
    /\ image = Booted(FactoryFlash)

-----------------------------------------------------------------------------
\* pw_flash_program as its range operations: call.k is the operation of the
\* sector at call.a, or of the data once all sectors are erased, and call.p
\* the bytes of it that are done.

Op(op, a, len, from) == [op |-> op, a |-> a, len |-> len, from |-> from]

\* One iteration of the sector loop: a sector is erased; of one the range
\* covers in part, head and tail are read, put back and verified.
SectorOps(a, offset, end) ==
    LET head == IF a < offset THEN offset - a ELSE 0
        tail == IF a + SECTOR > end THEN a + SECTOR - end ELSE 0
    IN  << Op("read", a, head, "keep"), Op("read", end, tail, "keep"),
           Op("erase", a, SECTOR, "none"),
           Op("program", a, head, "keep"), Op("program", end, tail, "keep"),
           Op("verify", a, head, "keep"), Op("verify", end, tail, "keep") >>

End(c) == c.offset + Len(c.data)

MutInLoop(c) == c.a <= End(c) /\ c.a < FLASH_SZ

InLoop(c) == c.a < End(c)

Ops(c) ==
    IF InLoop(c) THEN SectorOps(c.a, c.offset, End(c))
    ELSE << Op("program", c.offset, Len(c.data), "data"),
            Op("verify", c.offset, Len(c.data), "data") >>

\* The range check, then the warm-up transaction.
Begin(by, boot, offset, data) ==
    /\ call.pc = "idle"
    /\ IF offset < FLASH_SZ /\ Len(data) > 0 /\ offset + Len(data) <= FLASH_SZ
       THEN /\ call' = [Idle EXCEPT !.pc = "warmup", !.by = by, !.boot = boot,
                                    !.offset = offset, !.data = data,
                                    !.a = offset - (offset % SECTOR)]
            /\ before' = [cells |-> flash, offset |-> offset, data |-> data]
            /\ UNCHANGED answer
       ELSE /\ answer' = [by |-> by, code |-> "refused", offset |-> offset, data |-> data]
            /\ UNCHANGED <<call, before>>
    /\ UNCHANGED <<flash, wel, doing, faults, image>>

\* flash.write: the offset is cut to 32 bits before it is checked.  A caller
\* comes only after the chip has settled from what a failed call left.
flash_write(request, file) ==
    /\ doing = Nothing
    /\ Begin("rpc", FALSE, request % UINT32, file)

\* cmd_firmware up to pw_flash_program.
firmware_update(file, scratch, boot) ==
    /\ doing = Nothing
    /\ Begin(IF scratch THEN "scratch" ELSE "boot", boot, IF scratch THEN SCRATCH ELSE 0, file)

Warmup ==
    /\ call.pc = "warmup"
    /\ call' = [call EXCEPT !.pc = "op"]
    /\ UNCHANGED <<flash, wel, doing, faults, before, answer, image>>

-----------------------------------------------------------------------------
\* One command of the operation under way.

CurOp == Ops(call)[call.k]
At(kinds) == call.pc = "op" /\ CurOp.op \in kinds /\ CurOp.len > 0
\* Continue after n bytes: the same operation, the next one, the next sector.
Advance(c, n) ==
    IF c.p + n < CurOp.len THEN [c EXCEPT !.pc = "op", !.p = @ + n]
    ELSE IF c.k < Len(Ops(c)) THEN [c EXCEPT !.pc = "op", !.p = 0, !.k = @ + 1]
    ELSE IF InLoop(c) THEN [c EXCEPT !.pc = "op", !.p = 0, !.k = 1, !.a = @ + SECTOR]
    ELSE [c EXCEPT !.pc = "done"]
ChunkLen == Min({CurOp.len - call.p, CHUNK})
Chunk == (CurOp.a + call.p)..(CurOp.a + call.p + ChunkLen - 1)
Expected(x) == IF CurOp.from = "data" THEN call.data[x - call.offset + 1] ELSE call.keep[x]

\* No bytes to keep on this side of the range.
NoBytes ==
    /\ call.pc = "op" /\ CurOp.len = 0
    /\ call' = Advance(call, 0)
    /\ UNCHANGED <<flash, wel, doing, faults, before, answer, image>>

\* flash_read_range and flash_verify_range.
ReadChunk ==
    /\ At({"read"})
    /\ call' = Advance([call EXCEPT !.keep = [x \in DOMAIN @ \cup Chunk |->
                                        IF x \in Chunk THEN flash[x] ELSE @[x]]], ChunkLen)
    /\ UNCHANGED <<flash, wel, doing, faults, before, answer, image>>

MutVerifyChunk ==
    /\ At({"verify"})
    /\ call' = Advance([call EXCEPT !.mism = IF CurOp.from = "keep" THEN @ ELSE
                            @ + Cardinality({x \in Chunk : flash[x] # Expected(x)})], ChunkLen)
    /\ UNCHANGED <<flash, wel, doing, faults, before, answer, image>>

VerifyChunk ==
    /\ At({"verify"})
    /\ call' = Advance([call EXCEPT !.mism =
                            @ + Cardinality({x \in Chunk : flash[x] # Expected(x)})], ChunkLen)
    /\ UNCHANGED <<flash, wel, doing, faults, before, answer, image>>

\* sector_erase and page_program: WREN, the command, then poll WIP.
Wren ==
    /\ At({"erase", "program"})
    /\ wel' = (wel \/ doing = Nothing)
    /\ call' = [call EXCEPT !.pc = "command"]
    /\ UNCHANGED <<flash, doing, faults, before, answer, image>>

MutPageLen(a, left) == Min({left, PAGE - 1 - (a % PAGE)})

\* program_range: a command never crosses the end of a page.
PageLen(a, left) == Min({left, PAGE - (a % PAGE)})

\* What the command writes: an erase fills the sector, a program clears bits,
\* its address wrapping to the start of the page.
CommandCells ==
    LET a == CurOp.a + call.p
        n == PageLen(a, CurOp.len - call.p)
        page == a - (a % PAGE)
        at(k) == page + ((a + k) % PAGE)
        byte(x) == Expected(a + CHOOSE k \in 0..(n - 1) : at(k) = x)
    IN  IF CurOp.op = "erase"
        THEN [x \in {y \in Addr : y \div SECTOR = a \div SECTOR} |-> Bits]
        ELSE [x \in {at(k) : k \in 0..(n - 1)} |-> flash[x] \cap byte(x)]

Command ==
    /\ call.pc = "command"
    /\ doing' = IF wel /\ doing = Nothing THEN [cells |-> CommandCells] ELSE doing
    /\ call' = [call EXCEPT !.pc = "wait"]
    /\ UNCHANGED <<flash, wel, faults, before, answer, image>>

wait_idle ==
    /\ call.pc = "wait" /\ doing = Nothing
    /\ call' = Advance(call, IF CurOp.op = "erase" THEN SECTOR
                             ELSE PageLen(CurOp.a + call.p, CurOp.len - call.p))
    /\ UNCHANGED <<flash, wel, doing, faults, before, answer, image>>

\* A transaction that fails (a CSR error, BUSY or WIP for too long) ends the call.
TxnFails ==
    /\ call.pc \in {"warmup", "op", "command", "wait"}
    /\ call' = Idle
    /\ answer' = [by |-> call.by, code |-> "failed", offset |-> call.offset, data |-> call.data]
    /\ faults' = faults + 1
    /\ UNCHANGED <<flash, wel, doing, before, image>>

-----------------------------------------------------------------------------
\* The callers' ends.

Report(code) ==
    answer' = [by |-> call.by, code |-> code, offset |-> call.offset, data |-> call.data]

\* The RPC's reply; the command's exit, which refuses to boot the scratch
\* region only now.
Finish ==
    /\ call.pc = "done"
    /\ CASE call.mism # 0 -> call' = Idle /\ Report("mismatch")
         [] call.mism = 0 /\ call.boot /\ call.by = "boot" ->
                call' = [call EXCEPT !.pc = "reload"] /\ UNCHANGED answer
         [] call.mism = 0 /\ call.boot /\ call.by = "scratch" ->
                call' = Idle /\ Report("not booted")
         [] OTHER -> call' = Idle /\ Report("verified")
    /\ UNCHANGED <<flash, wel, doing, faults, before, image>>

\* REBOOT, remove and rescan, reopen: the update is good when the card comes
\* back with another image than it had.
Reload ==
    /\ call.pc = "reload"
    /\ image' = Booted(flash)
    /\ call' = Idle
    /\ Report(CASE image' = <<>> -> "lost" [] image' = image -> "unchanged"
                [] OTHER -> "updated")
    /\ UNCHANGED <<flash, wel, doing, faults, before>>

-----------------------------------------------------------------------------
\* The chip.

Carried(cells) == [x \in Addr |-> IF x \in DOMAIN cells THEN cells[x] ELSE flash[x]]
ChipDone ==
    /\ doing # Nothing
    /\ flash' = Carried(doing.cells)
    /\ doing' = Nothing /\ wel' = FALSE
    /\ UNCHANGED <<faults, call, before, answer, image>>

\* One cell stays as it was.
ChipFault ==
    /\ doing # Nothing
    /\ \E x \in DOMAIN doing.cells :
          /\ flash[x] # doing.cells[x]
          /\ flash' = Carried([y \in DOMAIN doing.cells \ {x} |-> doing.cells[y]])
    /\ doing' = Nothing /\ wel' = FALSE /\ faults' = faults + 1
    /\ UNCHANGED <<call, before, answer, image>>

\* The writer dies; the chip goes on.
WriterKilled ==
    /\ call' = Idle /\ answer' = NoAnswer
    /\ UNCHANGED <<flash, wel, doing, faults, before, image>>

\* Power fails: of a command under way any part is done.  The card loads what
\* the flash holds when power is back.
PowerFails ==
    /\ \E done \in SUBSET DOMAIN doing.cells :
          flash' = Carried([x \in done |-> doing.cells[x]])
    /\ doing' = Nothing /\ wel' = FALSE /\ call' = Idle /\ answer' = NoAnswer
    /\ image' = Booted(flash')
    /\ UNCHANGED <<faults, before>>

CallStep == Warmup \/ NoBytes \/ ReadChunk \/ VerifyChunk \/ Wren \/ Command \/ wait_idle
              \/ Finish \/ Reload
Chip == ChipDone \/ ChipFault

-----------------------------------------------------------------------------
\* Properties.

RangeOf(c) == c.offset..(c.offset + Len(c.data) - 1)
Sectors(c) == {x \in Addr : \E y \in RangeOf(c) : y \div SECTOR = x \div SECTOR}

(* An answer of success means the flash holds the image, and every byte    *)
(* outside it is what it was before the call, faults of single cells       *)
(* included (pw_flash_program's read-modify-write and its two verifies;    *)
(* flash.write's "verified", cmd_firmware's "card is running the new       *)
(* image", for which the card must then run it).                           *)
VerifiedIsWritten ==
    answer.code \in {"verified", "updated"} /\ call = Idle =>
      /\ answer.code = "updated" => image = answer.data
      /\ \A x \in Addr : flash[x] = IF x \in RangeOf(answer)
                                    THEN answer.data[x - answer.offset + 1] ELSE before.cells[x]

(* During and after a call, one that failed or that power loss or the death*)
(* of the writer cut short included, the sectors its range does not touch  *)
(* are as they were (the sector loop of pw_flash_program).                 *)
DamageConfined ==
    \A x \in Addr \ Sectors(before) : flash[x] = before.cells[x]

(* A call ends, however it meets the pages and sectors (program_range,     *)
(* wait_idle), when the chip finishes its commands.                        *)
CallReturns == call.pc # "idle" ~> call.pc = "idle"
=============================================================================
