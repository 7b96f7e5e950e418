---------------------------- MODULE FlashControl ----------------------------
(***************************************************************************)
(* application/config/FlashControl.cpp on top of application/driver/c1648.c: *)
(* the two flash blocks that hold ONE save ID (BLOCK_TAB has the same pair  *)
(* for each of the six IDs and they share nothing), and the routines Init,  *)
(* SaveData, EraseFlashBlock and FindValidBlock.                            *)
(*                                                                         *)
(* A block is a row of words.  NOR flash programs 1 bits to 0 bits and only *)
(* an erase of the whole block brings 1 bits back; power can fail between   *)
(* any two words and inside the programming of one, and the chip can report *)
(* a failure.  One action is one bus command: program a word, erase a block.*)
(*                                                                         *)
(* Abstractions.  The 32-bit code 0x361DC361 is two words that each hold    *)
(* their half ("code") or something else; the data is NWords words.  The    *)
(* software version in the header is left out: WriteValidCode ignores       *)
(* whether it was programmed, and nothing depends on what it reads as.  A   *)
(* word whose programming or erase was cut short is "torn": it equals no    *)
(* value the code writes.  RAM that is dead (the locals of a call that      *)
(* ended, everything when power is off) has a fixed value.                  *)
(***************************************************************************)
EXTENDS Integers

CONSTANTS
  Val,        (* the values of a data word                                 *)
  NWords,     (* the number of data words in a block                       *)
  RetryCnt,   (* RETRY_CNT: tries of SaveData                              *)
  MaxFaults,  (* programming or erase failures of the chip per call        *)
  NONE,       (* what reading returns when no block is valid               *)
  DAMAGED     (* stands for data that nobody saved                         *)

Marks == {"erased", "torn", "zero", "code"}

ASSUME ConstantsAssumption ==
  /\ NWords \in Nat \ {0}
  /\ RetryCnt \in Nat \ {0}
  /\ MaxFaults \in Nat
  /\ Val \cap Marks = {}

(* Word addresses in a block: two words at VALID_BLOCK_ID_OFFSET, the data   *)
(* from BUF_START_OFFSET.                                                   *)
CodeLo  == 0
CodeHi  == 1
Start   == 2
Addr    == 0 .. Start + NWords - 1
DataAddr == Start .. Start + NWords - 1
Cell    == Val \cup Marks
Image   == [DataAddr -> Val]

(* No data reads as "nothing is stored".                                    *)
ASSUME NoneAssumption == NONE \notin [DataAddr -> Cell]

Block1 == 1
Block2 == 2
Block  == {Block1, Block2}

VARIABLES
  flash,   (* the two blocks: survives power failures                      *)
  pc,      (* the next bus command of the routine that runs                *)
  op,      (* "init", "save" or "erase": the call in progress or just done *)
  back,    (* where EraseFlashBlock returns to                             *)
  wblock,  (* SaveData: write_block                                        *)
  addr,    (* FlashProgram: the word to program                            *)
  try,     (* SaveData: i                                                  *)
  buf,     (* SaveData: pBuf                                               *)
  ret,     (* the result of SaveData                                       *)
  faults,  (* chip failures met in the call in progress                    *)
  before   (* history: what reading returned when the call began           *)

vars == <<flash, pc, op, back, wblock, addr, try, buf, ret, faults, before>>
call == <<op, back, buf, before>>
locals == <<wblock, addr, try>>

-----------------------------------------------------------------------------
(* FlashControl::FindValidBlock, FindNextBlock and ReadData.                *)

HasCode(blk) == blk[CodeLo] = "code" /\ blk[CodeHi] = "code"
IsValid(b) == HasCode(flash[b])
AnyValid == \E b \in Block : IsValid(b)

(* Block1 is looked at first; with no valid block the caller gets Block2.   *)
ValidBlock == IF IsValid(Block1) THEN Block1 ELSE Block2
NextBlock(b) == IF b = Block1 THEN Block2 ELSE Block1

DataOf(blk) == [a \in DataAddr |-> blk[a]]
Stored == IF AnyValid THEN DataOf(flash[ValidBlock]) ELSE NONE

-----------------------------------------------------------------------------
(* The flash chip.                                                          *)

Erased == [a \in Addr |-> "erased"]

(* The content of a word that held x after the command that programs y.     *)
Programmed(x, y) ==
  CASE x = y \/ x = "erased" \/ y = "zero" -> y
    [] x = "zero" /\ y # "zero"            -> "zero"
    [] OTHER                               -> "torn"

(* FlashSingleProgram, and one turn of the loop of FlashProgram: the word   *)
(* at a becomes y, and ok says whether the chip reports success.  A fault   *)
(* leaves the word alone or half programmed and is reported.                *)
ProgramWord(b, a, y, ok) ==
  \/ /\ flash' = [flash EXCEPT ![b][a] = Programmed(@, y)]
     /\ ok = (Programmed(flash[b][a], y) = y)
     /\ UNCHANGED faults
  \/ /\ faults < MaxFaults
     /\ faults' = faults + 1
     /\ ~ok
     /\ \/ UNCHANGED flash
        \/ /\ flash[b][a] # y
           /\ flash' = [flash EXCEPT ![b][a] = "torn"]

(* Every block an erase that does not complete may leave behind.            *)
PartlyErased(blk) ==
  {[a \in Addr |-> IF left[a] = "old" THEN blk[a] ELSE left[a]] :
      left \in [Addr -> {"old", "torn", "erased"}]}

(* FlashBlockErase.                                                         *)
EraseBlock(b, ok) ==
  \/ /\ flash' = [flash EXCEPT ![b] = Erased]
     /\ ok
     /\ UNCHANGED faults
  \/ /\ faults < MaxFaults
     /\ faults' = faults + 1
     /\ ~ok
     /\ \E blk \in PartlyErased(flash[b]) : flash' = [flash EXCEPT ![b] = blk]

-----------------------------------------------------------------------------
Init ==
  /\ flash = [b \in Block |-> Erased]
  /\ pc = "off" /\ op = "init" /\ back = "idle"
  /\ wblock = Block1 /\ addr = Start /\ try = 0
  /\ buf = NONE
  /\ ret = FALSE /\ faults = 0 /\ before = NONE

Begin(name, image) ==
  /\ op' = name
  /\ buf' = image
  /\ before' = Stored
  /\ faults' = 0
  /\ ret' = FALSE

(* The locals of SaveData while it does not run.                            *)
NoLocals == wblock' = Block1 /\ addr' = Start /\ try' = 0

(* The board is powered; Factory.cpp may erase before the task runs Init.   *)
PowerOn ==
  /\ pc = "off"
  /\ pc' = "boot"
  /\ Begin("init", NONE)
  /\ UNCHANGED <<flash, back, locals>>

(* FlashControl::Init: keep the valid block and erase the other one, or     *)
(* erase both when none is valid.                                           *)
InitFlash ==
  /\ pc = "boot"
  /\ pc' = IF AnyValid THEN "bootErase" ELSE "clear1"
  /\ back' = "idle"
  /\ Begin("init", NONE)
  /\ UNCHANGED <<flash, locals>>

(* Mutant: Init erases the block it found valid.                            *)
BootErase_Valid ==
  /\ pc = "bootErase"
  /\ \E ok \in BOOLEAN : EraseBlock(ValidBlock, ok)
  /\ pc' = "idle"
  /\ UNCHANGED <<call, locals, ret>>

BootErase ==
  /\ pc = "bootErase"
  /\ \E ok \in BOOLEAN : EraseBlock(NextBlock(ValidBlock), ok)
  /\ pc' = "idle"
  /\ UNCHANGED <<call, locals, ret>>

(* FlashControl::EraseFlashBlock, from the boot keys or a factory boot.     *)
EraseFlashBlock ==
  /\ pc \in {"boot", "idle"}
  /\ pc' = "clear1"
  /\ back' = pc
  /\ Begin("erase", NONE)
  /\ UNCHANGED <<flash, locals>>


ClearBlock1 ==
  /\ pc = "clear1"
  /\ \E ok \in BOOLEAN : EraseBlock(Block1, ok)
  /\ pc' = "clear2"
  /\ UNCHANGED <<call, locals, ret>>

ClearBlock2 ==
  /\ pc = "clear2"
  /\ \E ok \in BOOLEAN : EraseBlock(Block2, ok)
  /\ pc' = back
  /\ UNCHANGED <<call, locals, ret>>

-----------------------------------------------------------------------------
(* FlashControl::SaveData and WriteValidCode.                               *)

(* Mutant: the valid block is overwritten in place.                         *)
SaveData_InPlace(image) ==
  /\ pc = "idle"
  /\ pc' = "program"
  /\ wblock' = ValidBlock
  /\ addr' = Start
  /\ try' = 0
  /\ Begin("save", image)
  /\ UNCHANGED <<flash, back>>

SaveData(image) ==
  /\ pc = "idle"
  /\ pc' = "program"
  /\ wblock' = NextBlock(ValidBlock)
  /\ addr' = Start
  /\ try' = 0
  /\ Begin("save", image)
  /\ UNCHANGED <<flash, back>>

Return(ok) == pc' = "idle" /\ ret' = ok /\ NoLocals

(* Mutant: tries that are not counted.                                      *)
NextTry_Uncounted ==
  pc' = "program" /\ addr' = Start /\ UNCHANGED <<wblock, try, ret>>

NextTry ==
  IF try + 1 < RetryCnt
  THEN pc' = "program" /\ addr' = Start /\ try' = try + 1
       /\ UNCHANGED <<wblock, ret>>
  ELSE Return(FALSE)

(* Mutant: the re-erase is one try earlier.                                 *)
TryFailed_Early ==
  IF try = RetryCnt \div 2 - 1
  THEN pc' = "reErase" /\ UNCHANGED <<locals, ret>>
  ELSE NextTry

(* RESET_FLASH, and the re-erase of the write block half way.               *)
TryFailed ==
  IF try = RetryCnt \div 2
  THEN pc' = "reErase" /\ UNCHANGED <<locals, ret>>
  ELSE NextTry

Goto(label) == pc' = label /\ UNCHANGED <<locals, ret>>

ProgramData ==
  /\ pc = "program"
  /\ \E ok \in BOOLEAN :
       /\ ProgramWord(wblock, addr, buf[addr], ok)
       /\ \/ ~ok /\ TryFailed
          \/ /\ ok
             /\ addr < Start + NWords - 1
             /\ addr' = addr + 1
             /\ UNCHANGED <<pc, wblock, try, ret>>
          \/ ok /\ addr = Start + NWords - 1 /\ Goto("codeLo")
  /\ UNCHANGED call

(* Whether programming the low half worked shows when the code is read back. *)
ProgramCodeLo ==
  /\ pc = "codeLo"
  /\ \E ok \in BOOLEAN : ProgramWord(wblock, CodeLo, "code", ok)
  /\ Goto("codeHi")
  /\ UNCHANGED call

(* The code is read back after its second half.                             *)
ProgramCodeHi ==
  /\ pc = "codeHi"
  /\ \E ok \in BOOLEAN : ProgramWord(wblock, CodeHi, "code", ok)
  /\ IF HasCode(flash'[wblock]) THEN Goto("oldLo") ELSE TryFailed
  /\ UNCHANGED call

ZeroOldLo ==
  /\ pc = "oldLo"
  /\ \E ok \in BOOLEAN : ProgramWord(NextBlock(wblock), CodeLo, "zero", ok)
  /\ Goto("oldHi")
  /\ UNCHANGED call

IsZeroed(blk) == blk[CodeLo] = "zero" /\ blk[CodeHi] = "zero"

ZeroOldHi ==
  /\ pc = "oldHi"
  /\ \E ok \in BOOLEAN : ProgramWord(NextBlock(wblock), CodeHi, "zero", ok)
  /\ IF IsZeroed(flash'[NextBlock(wblock)]) THEN Goto("eraseOld1") ELSE TryFailed
  /\ UNCHANGED call

ReErase ==
  /\ pc = "reErase"
  /\ \E ok \in BOOLEAN : EraseBlock(wblock, ok)
  /\ NextTry
  /\ UNCHANGED call

(* Mutant: the result of the erase is ignored.                              *)
EraseOld_Unchecked ==
  /\ pc = "eraseOld1"
  /\ \E ok \in BOOLEAN : EraseBlock(NextBlock(wblock), ok) /\ Return(TRUE)
  /\ UNCHANGED call

EraseOld ==
  /\ pc = "eraseOld1"
  /\ \E ok \in BOOLEAN :
       /\ EraseBlock(NextBlock(wblock), ok)
       /\ IF ok THEN Return(TRUE) ELSE Goto("eraseOld2")
  /\ UNCHANGED call

EraseOldAgain ==
  /\ pc = "eraseOld2"
  /\ \E ok \in BOOLEAN : EraseBlock(NextBlock(wblock), ok) /\ Return(ok)
  /\ UNCHANGED call

-----------------------------------------------------------------------------
(* Power fails: what is in RAM is lost, and the word being programmed or    *)
(* the block being erased is left half done.                                *)

CutWord(b, a, y) ==
  \/ UNCHANGED flash
  \/ flash' = [flash EXCEPT ![b][a] = Programmed(@, y)]
  \/ flash[b][a] # y /\ flash' = [flash EXCEPT ![b][a] = "torn"]

CutErase(b) ==
  \E blk \in PartlyErased(flash[b]) : flash' = [flash EXCEPT ![b] = blk]

PowerFail ==
  /\ pc # "off"
  /\ pc' = "off"
  /\ \/ pc \in {"boot", "idle"} /\ UNCHANGED flash
     \/ pc = "bootErase" /\ CutErase(NextBlock(ValidBlock))
     \/ pc = "clear1" /\ CutErase(Block1)
     \/ pc = "clear2" /\ CutErase(Block2)
     \/ pc = "program" /\ CutWord(wblock, addr, buf[addr])
     \/ pc = "codeLo" /\ CutWord(wblock, CodeLo, "code")
     \/ pc = "codeHi" /\ CutWord(wblock, CodeHi, "code")
     \/ pc = "oldLo" /\ CutWord(NextBlock(wblock), CodeLo, "zero")
     \/ pc = "oldHi" /\ CutWord(NextBlock(wblock), CodeHi, "zero")
     \/ pc = "reErase" /\ CutErase(wblock)
     \/ pc \in {"eraseOld1", "eraseOld2"} /\ CutErase(NextBlock(wblock))
  /\ back' = "idle" /\ ret' = FALSE /\ faults' = 0
  /\ NoLocals
  /\ UNCHANGED <<op, buf, before>>

-----------------------------------------------------------------------------
(* The commands of a call that has begun: ConfigTask runs them to the end.  *)
Command ==
  \/ BootErase \/ ClearBlock1 \/ ClearBlock2
  \/ ProgramData \/ ProgramCodeLo \/ ProgramCodeHi
  \/ ZeroOldLo \/ ZeroOldHi \/ ReErase \/ EraseOld \/ EraseOldAgain

Next ==
  \/ PowerOn \/ InitFlash \/ EraseFlashBlock
  \/ \E image \in Image : SaveData(image)
  \/ Command
  \/ PowerFail

Spec == Init /\ [][Next]_vars
FairSpec == Spec /\ WF_vars(Command)

-----------------------------------------------------------------------------
(* Types of all variables.                                                  *)
TypeOK ==
  /\ flash \in [Block -> [Addr -> Cell]]
  /\ pc \in {"off", "boot", "bootErase", "clear1", "clear2", "idle", "program",
             "codeLo", "codeHi", "oldLo", "oldHi", "reErase",
             "eraseOld1", "eraseOld2"}
  /\ op \in {"init", "save", "erase"}
  /\ back \in {"boot", "idle"}
  /\ wblock \in Block
  /\ addr \in DataAddr
  /\ try \in 0 .. RetryCnt - 1
  /\ buf \in Image \cup {NONE}
  /\ ret \in BOOLEAN
  /\ faults \in 0 .. MaxFaults
  /\ before \in [DataAddr -> Cell] \cup {NONE}

(* Whatever word the power fails at, and whatever command fails, reading    *)
(* returns the data that was there when SaveData was called or the data it  *)
(* was given, and nothing else; booting changes nothing.  It is what the    *)
(* order of SaveData and WriteValidCode (new data, new code, zero the old   *)
(* code, erase) is for, and it needs the re-erase of the write block never  *)
(* to hit the only valid block.                                             *)
NothingLost ==
  /\ op = "init" => Stored = before
  /\ op = "save" => Stored \in {before, buf}

(* When SaveData returns true the new data is what reading returns, the     *)
(* other block is erased and ready for the next save.                       *)
AcknowledgedIsStored ==
  pc = "idle" /\ op = "save" /\ ret =>
    /\ Stored = buf
    /\ flash[NextBlock(ValidBlock)] = Erased

(* SaveData fails only if the chip fails during this very call: a write     *)
(* block left dirty by an earlier call is recovered by the re-erase.        *)
FailureNeedsFault == pc = "idle" /\ op = "save" /\ ~ret => faults > 0

(* EraseFlashBlock leaves nothing to read unless the chip fails during it,  *)
(* even when it runs before Init and finds both blocks valid.               *)
EraseClears == pc \in {"boot", "idle"} /\ op = "erase" /\ faults = 0 => Stored = NONE

(* What a call returns is so: the three properties above, one for each way  *)
(* that SaveData (:205-230) and EraseFlashBlock (:302) can end.             *)
ReturnIsTrue == AcknowledgedIsStored /\ FailureNeedsFault /\ EraseClears

(* The two blocks behave as one cell that a save replaces at one instant.   *)
Damaged == AnyValid /\ Stored \notin Image

StoreValue == IF Damaged THEN DAMAGED ELSE Stored
StoreSaving == IF op = "save" /\ pc \notin {"idle", "off"} THEN buf ELSE NONE
StoreErasing == op = "erase" /\ pc \in {"clear1", "clear2"}

Store == INSTANCE NonVolatileStore WITH
  value <- StoreValue, saving <- StoreSaving, erasing <- StoreErasing

ImplementsStore == Store!Spec

(* A call that has begun ends, or the power fails: the tries are bounded.   *)
CallsEnd == pc = "program" ~> pc \in {"idle", "off"}

=============================================================================
