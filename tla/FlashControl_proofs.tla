------------------------ MODULE FlashControl_proofs ------------------------
(***************************************************************************)
(* Proof that power failures and up to RETRY_CNT/2 chip failures per call   *)
(* lose nothing, for every size of the blocks, every set of data values and *)
(* every number of tries.                                                   *)
(***************************************************************************)
EXTENDS FlashControl, TLAPS

(* The bound on chip failures under which the re-erase is harmless.         *)
FewFaults == MaxFaults <= RetryCnt \div 2

-----------------------------------------------------------------------------
(* The inductive invariant.                                                 *)

SavePc == {"program", "codeLo", "codeHi", "oldLo", "oldHi", "reErase",
           "eraseOld1", "eraseOld2"}

(* The block w holds the code and the data new.                             *)
Complete(f, w, new) == HasCode(f[w]) /\ DataOf(f[w]) = new

(* What was stored when SaveData was called is still there, and the write   *)
(* block w does not hide it unless it is complete.                          *)
OldThere(f, w, old, new) ==
  /\ \/ old = NONE /\ w = Block1 /\ ~HasCode(f[Block2])
     \/ Complete(f, NextBlock(w), old)
  /\ w = Block1 /\ HasCode(f[Block1]) => DataOf(f[Block1]) = new

(* The new data is there, and the old block does not hide it.               *)
NewThere(f, w, new) == Complete(f, w, new) /\ ~HasCode(f[NextBlock(w)])

Kept(f, w, old, new) == OldThere(f, w, old, new) \/ NewThere(f, w, new)

(* The write block has a word that no programming can make right.           *)
Stuck(f, w, new) ==
  \/ \E a \in DataAddr : f[w][a] \notin {"erased", new[a]}
  \/ f[w][CodeLo] \notin {"erased", "code"}
  \/ f[w][CodeHi] \notin {"erased", "code"}

(* Up to the re-erase every try that failed has cost a chip failure, unless *)
(* a word is stuck, and then the new block cannot have become complete.     *)
Paid(n) ==
  try <= RetryCnt \div 2 => Stuck(flash, wblock, buf) \/ faults >= n

SaveInv ==
  /\ op = "save" /\ buf \in Image
  /\ Kept(flash, wblock, before, buf)
  /\ pc \in {"program", "codeLo", "codeHi", "oldLo", "oldHi"} => Paid(try)
  /\ pc = "program" => \A a \in Start .. addr - 1 : flash[wblock][a] = buf[a]
  /\ pc \in {"codeLo", "codeHi"} => DataOf(flash[wblock]) = buf
  /\ pc = "codeHi" => flash[wblock][CodeLo] = "code" \/ Paid(try + 1)
  /\ pc \in {"oldLo", "oldHi"} => Complete(flash, wblock, buf)
  /\ pc = "oldHi" => flash[NextBlock(wblock)][CodeLo] = "zero" \/ Paid(try + 1)
  /\ pc = "reErase" => try = RetryCnt \div 2 /\ Paid(try + 1)
  /\ pc \in {"eraseOld1", "eraseOld2"} => NewThere(flash, wblock, buf)

InitInv ==
  /\ pc = "bootErase" => op = "init" /\ AnyValid
  /\ op = "init" => Stored = before
  /\ op = "init" /\ pc \in {"clear1", "clear2"} => ~AnyValid
  /\ pc \in {"boot", "clear1", "clear2"} => op \in {"init", "erase"}

IInv ==
  /\ TypeOK
  /\ InitInv
  /\ pc \in SavePc => SaveInv
  /\ op = "save" => Stored \in {before, buf}

-----------------------------------------------------------------------------
(* Types.                                                                   *)

FlashType == [Block -> [Addr -> Cell]]

(* An address, a mark and a value are what the constants make them.         *)
LEMMA Basics ==
  /\ NWords \in Nat /\ NWords >= 1
  /\ CodeLo \in Addr /\ CodeHi \in Addr /\ Start \in DataAddr
  /\ DataAddr \subseteq Addr
  /\ \A a \in DataAddr : a \in Int /\ a # CodeLo /\ a # CodeHi
  /\ Marks \subseteq Cell /\ Val \subseteq Cell
  /\ \A v \in Val : v \notin Marks
BY ConstantsAssumption DEF Addr, DataAddr, CodeLo, CodeHi, Start, Cell, Marks

LEMMA Zeros == 0 \in 0 .. MaxFaults /\ 0 \in 0 .. RetryCnt - 1
BY ConstantsAssumption

LEMMA ProgrammedType ==
  ASSUME NEW x \in Cell, NEW y \in Cell
  PROVE  Programmed(x, y) \in Cell
BY DEF Programmed, Cell, Marks

LEMMA ProgramWordType ==
  ASSUME flash \in FlashType, faults \in 0 .. MaxFaults,
         NEW b \in Block, NEW a \in Addr, NEW y \in Cell, NEW ok \in BOOLEAN,
         ProgramWord(b, a, y, ok)
  PROVE  flash' \in FlashType /\ faults' \in 0 .. MaxFaults
<1>1. Programmed(flash[b][a], y) \in Cell
  BY ProgrammedType DEF FlashType
<1>2. "torn" \in Cell
  BY DEF Cell, Marks
<1>3. QED
  BY <1>1, <1>2, ConstantsAssumption DEF ProgramWord, FlashType

LEMMA PartlyErasedType ==
  ASSUME NEW blk \in [Addr -> Cell], NEW new \in PartlyErased(blk)
  PROVE  /\ new \in [Addr -> Cell]
         /\ \A a \in Addr : new[a] \in {blk[a], "torn", "erased"}
BY DEF PartlyErased, Cell, Marks

LEMMA EraseBlockType ==
  ASSUME flash \in FlashType, faults \in 0 .. MaxFaults,
         NEW b \in Block, NEW ok \in BOOLEAN, EraseBlock(b, ok)
  PROVE  flash' \in FlashType /\ faults' \in 0 .. MaxFaults
<1>1. Erased \in [Addr -> Cell]
  BY DEF Erased, Cell, Marks
<1>2. \A blk \in PartlyErased(flash[b]) : blk \in [Addr -> Cell]
  BY PartlyErasedType DEF FlashType
<1>3. QED
  BY <1>1, <1>2, ConstantsAssumption DEF EraseBlock, FlashType

LEMMA CutWordType ==
  ASSUME flash \in FlashType,
         NEW b \in Block, NEW a \in Addr, NEW y \in Cell, CutWord(b, a, y)
  PROVE  flash' \in FlashType
<1>1. Programmed(flash[b][a], y) \in Cell
  BY ProgrammedType DEF FlashType
<1>2. "torn" \in Cell
  BY DEF Cell, Marks
<1>3. QED
  BY <1>1, <1>2 DEF CutWord, FlashType

LEMMA CutEraseType ==
  ASSUME flash \in FlashType, NEW b \in Block, CutErase(b)
  PROVE  flash' \in FlashType
<1>1. \A blk \in PartlyErased(flash[b]) : blk \in [Addr -> Cell]
  BY PartlyErasedType DEF FlashType
<1>2. QED
  BY <1>1 DEF CutErase, FlashType

LEMMA BlocksType ==
  /\ ValidBlock \in Block
  /\ \A b \in Block : NextBlock(b) \in Block /\ NextBlock(b) # b
                      /\ NextBlock(NextBlock(b)) = b
BY DEF ValidBlock, NextBlock, Block, Block1, Block2

LEMMA StoredType ==
  ASSUME flash \in FlashType
  PROVE  Stored \in [DataAddr -> Cell] \cup {NONE}
BY Basics, BlocksType DEF Stored, DataOf, FlashType

-----------------------------------------------------------------------------
(* What a command does to the blocks: f before it, g after it.              *)

(* Only the word a of block b changes, a word that is right stays right,    *)
(* and no word becomes half of the code unless it is programmed so.         *)
WordEffect(f, g, b, a, y) ==
  /\ f \in FlashType /\ g \in FlashType
  /\ \A c \in Block : c # b => g[c] = f[c]
  /\ \A c \in Addr : c # a => g[b][c] = f[b][c]
  /\ f[b][a] = y => g[b][a] = y
  /\ y # "code" /\ g[b][a] = "code" => f[b][a] = "code"

(* Only block b changes, and no erase makes the code appear.                *)
EraseEffect(f, g, b) ==
  /\ f \in FlashType /\ g \in FlashType
  /\ \A c \in Block : c # b => g[c] = f[c]
  /\ HasCode(g[b]) => HasCode(f[b])

LEMMA ProgramWordEffect ==
  ASSUME flash \in FlashType, faults \in 0 .. MaxFaults,
         NEW b \in Block, NEW a \in Addr, NEW y \in Cell, NEW ok \in BOOLEAN,
         ProgramWord(b, a, y, ok)
  PROVE  WordEffect(flash, flash', b, a, y)
<1>1. flash' \in FlashType
  BY ProgramWordType
<1>2. y # "code" /\ Programmed(flash[b][a], y) = "code" => flash[b][a] = "code"
  BY DEF Programmed
<1>3. flash[b][a] = y => Programmed(flash[b][a], y) = y
  BY DEF Programmed
<1>4. QED
  BY <1>1, <1>2, <1>3 DEF ProgramWord, WordEffect, FlashType

LEMMA CutWordEffect ==
  ASSUME flash \in FlashType,
         NEW b \in Block, NEW a \in Addr, NEW y \in Cell, CutWord(b, a, y)
  PROVE  WordEffect(flash, flash', b, a, y)
<1>1. flash' \in FlashType
  BY CutWordType
<1>2. y # "code" /\ Programmed(flash[b][a], y) = "code" => flash[b][a] = "code"
  BY DEF Programmed
<1>3. flash[b][a] = y => Programmed(flash[b][a], y) = y
  BY DEF Programmed
<1>4. QED
  BY <1>1, <1>2, <1>3 DEF CutWord, WordEffect, FlashType

LEMMA PartlyErasedCode ==
  ASSUME NEW blk \in [Addr -> Cell], NEW new \in PartlyErased(blk), HasCode(new)
  PROVE  HasCode(blk)
BY PartlyErasedType, Basics DEF HasCode

LEMMA EraseBlockEffect ==
  ASSUME flash \in FlashType, faults \in 0 .. MaxFaults,
         NEW b \in Block, NEW ok \in BOOLEAN, EraseBlock(b, ok)
  PROVE  EraseEffect(flash, flash', b)
<1>1. flash' \in FlashType
  BY EraseBlockType
<1>2. ~HasCode(Erased)
  BY Basics DEF HasCode, Erased
<1>3. flash[b] \in [Addr -> Cell]
  BY DEF FlashType
<1>4. QED
  BY <1>1, <1>2, <1>3, PartlyErasedCode DEF EraseBlock, EraseEffect, FlashType

LEMMA CutEraseEffect ==
  ASSUME flash \in FlashType, NEW b \in Block, CutErase(b)
  PROVE  EraseEffect(flash, flash', b)
<1>1. flash' \in FlashType
  BY CutEraseType
<1>2. flash[b] \in [Addr -> Cell]
  BY DEF FlashType
<1>3. QED
  BY <1>1, <1>2, PartlyErasedCode DEF CutErase, EraseEffect, FlashType

-----------------------------------------------------------------------------
(* A command of SaveData keeps the old or the new data.                     *)

LEMMA ProgramDataKeeps ==
  ASSUME NEW f, NEW g, NEW w \in Block, NEW old, NEW new \in Image,
         NEW a \in DataAddr, WordEffect(f, g, w, a, new[a]), Kept(f, w, old, new)
  PROVE  Kept(g, w, old, new)
<1>1. \A b \in Block : HasCode(g[b]) = HasCode(f[b])
  BY Basics DEF WordEffect, HasCode
<1>2. g[NextBlock(w)] = f[NextBlock(w)]
  BY BlocksType DEF WordEffect
<1>3. DataOf(f[w]) = new => DataOf(g[w]) = new
  BY Basics DEF WordEffect, DataOf, Image
<1>4. Block2 = NextBlock(Block1) /\ Block1 \in Block /\ Block2 \in Block
  BY DEF NextBlock, Block, Block1, Block2
<1>5. QED
  BY <1>1, <1>2, <1>3, <1>4, BlocksType DEF Kept, OldThere, NewThere, Complete

LEMMA ProgramCodeKeeps ==
  ASSUME NEW f, NEW g, NEW w \in Block, NEW old, NEW new \in Image,
         NEW a \in {CodeLo, CodeHi}, WordEffect(f, g, w, a, "code"),
         DataOf(f[w]) = new, Kept(f, w, old, new)
  PROVE  Kept(g, w, old, new) /\ DataOf(g[w]) = new
<1>1. DataOf(g[w]) = DataOf(f[w])
  BY Basics DEF WordEffect, DataOf
<1>2. g[NextBlock(w)] = f[NextBlock(w)]
  BY BlocksType DEF WordEffect
<1>3. HasCode(f[w]) => HasCode(g[w])
  BY Basics DEF WordEffect, HasCode
<1>4. Block2 = NextBlock(Block1)
  BY DEF NextBlock, Block1, Block2
<1>5. QED
  BY <1>1, <1>2, <1>3, <1>4 DEF Kept, OldThere, NewThere, Complete

LEMMA ZeroOldKeeps ==
  ASSUME NEW f, NEW g, NEW w \in Block, NEW old, NEW new \in Image,
         NEW a \in {CodeLo, CodeHi}, WordEffect(f, g, NextBlock(w), a, "zero"),
         Complete(f, w, new), Kept(f, w, old, new)
  PROVE  Kept(g, w, old, new) /\ Complete(g, w, new)
<1>1. DataOf(g[NextBlock(w)]) = DataOf(f[NextBlock(w)])
  BY Basics, BlocksType DEF WordEffect, DataOf
<1>2. g[w] = f[w]
  BY BlocksType DEF WordEffect
<1>3. HasCode(g[NextBlock(w)]) => HasCode(f[NextBlock(w)])
  BY Basics, BlocksType DEF WordEffect, HasCode
<1>4. Block2 = NextBlock(Block1)
  BY DEF NextBlock, Block1, Block2
<1>5. QED
  BY <1>1, <1>2, <1>3, <1>4 DEF Kept, OldThere, NewThere, Complete

LEMMA EraseOldKeeps ==
  ASSUME NEW f, NEW g, NEW w \in Block, NEW new,
         EraseEffect(f, g, NextBlock(w)), NewThere(f, w, new)
  PROVE  NewThere(g, w, new)
BY BlocksType DEF EraseEffect, NewThere, Complete

LEMMA ReEraseKeeps ==
  ASSUME NEW f, NEW g, NEW w \in Block, NEW old, NEW new,
         EraseEffect(f, g, w), Kept(f, w, old, new), ~Complete(f, w, new)
  PROVE  Kept(g, w, old, new)
<1>1. OldThere(f, w, old, new)
  BY DEF Kept, NewThere
<1>2. g[NextBlock(w)] = f[NextBlock(w)]
  BY BlocksType DEF EraseEffect
<1>3. Block2 = NextBlock(Block1)
  BY DEF NextBlock, Block1, Block2
<1>4. QED
  BY <1>1, <1>2, <1>3 DEF Kept, OldThere, Complete, EraseEffect

(* Whichever block is looked at first, the old or the new data is read.     *)
StoredIn(f) ==
  IF HasCode(f[Block1]) THEN DataOf(f[Block1])
  ELSE IF HasCode(f[Block2]) THEN DataOf(f[Block2]) ELSE NONE

LEMMA KeptIsStored ==
  ASSUME NEW f, NEW w \in Block, NEW old, NEW new, Kept(f, w, old, new)
  PROVE  StoredIn(f) \in {old, new}
BY DEF Kept, OldThere, NewThere, Complete, StoredIn, NextBlock, Block, Block1, Block2

-----------------------------------------------------------------------------
(* What a failed command costs.                                             *)

LEMMA ProgramWordCost ==
  ASSUME TypeOK, NEW b \in Block, NEW a \in Addr, NEW ok \in BOOLEAN,
         NEW y \in Val \cup {"code"}, ProgramWord(b, a, y, ok)
  PROVE  /\ faults' \in {faults, faults + 1} /\ faults' >= faults
         /\ flash[b][a] \notin {"erased", y} => flash'[b][a] \notin {"erased", y}
         /\ ok => flash'[b][a] = y
         /\ ~ok \/ flash'[b][a] # y =>
              faults' = faults + 1 \/ flash'[b][a] \notin {"erased", y}
<1>1. y \notin {"erased", "torn", "zero"}
  BY Basics DEF Marks
<1>2. /\ flash[b][a] \notin {"erased", y} =>
            Programmed(flash[b][a], y) \notin {"erased", y}
      /\ Programmed(flash[b][a], y) # y =>
            Programmed(flash[b][a], y) # "erased"
  BY <1>1 DEF Programmed
<1>3. flash \in FlashType /\ faults \in Nat
  BY ConstantsAssumption DEF TypeOK, FlashType
<1>4. QED
  BY <1>1, <1>2, <1>3 DEF ProgramWord, FlashType

LEMMA ZeroWordCost ==
  ASSUME TypeOK, NEW b \in Block, NEW a \in Addr, NEW ok \in BOOLEAN,
         ProgramWord(b, a, "zero", ok)
  PROVE  /\ faults' \in {faults, faults + 1} /\ faults' >= faults
         /\ flash'[b][a] = "zero" \/ faults' = faults + 1
<1>1. Programmed(flash[b][a], "zero") = "zero"
  BY DEF Programmed
<1>2. flash \in FlashType /\ faults \in Nat
  BY ConstantsAssumption DEF TypeOK, FlashType
<1>3. QED
  BY <1>1, <1>2 DEF ProgramWord, FlashType

(* A stuck word stays stuck while the write block is programmed, and a      *)
(* command that fails has cost a chip failure or met a stuck word.          *)
LEMMA StaysStuckData ==
  ASSUME TypeOK, buf \in Image, NEW ok \in BOOLEAN,
         NEW a \in DataAddr, ProgramWord(wblock, a, buf[a], ok)
  PROVE  /\ Stuck(flash, wblock, buf) => Stuck(flash', wblock, buf)
         /\ ~ok => Stuck(flash', wblock, buf) \/ faults' = faults + 1
<1>1. /\ wblock \in Block /\ flash \in FlashType /\ faults \in 0 .. MaxFaults
      /\ a \in Addr /\ buf[a] \in Val \cup {"code"} /\ buf[a] \in Cell
  BY Basics DEF TypeOK, FlashType, Image
<1>2. WordEffect(flash, flash', wblock, a, buf[a])
  BY <1>1, ProgramWordEffect
<1>3. /\ flash[wblock][a] \notin {"erased", buf[a]} =>
            flash'[wblock][a] \notin {"erased", buf[a]}
      /\ ~ok => faults' = faults + 1 \/ flash'[wblock][a] \notin {"erased", buf[a]}
  BY <1>1, ProgramWordCost
<1>4. QED
  BY <1>2, <1>3, Basics DEF Stuck, WordEffect

LEMMA StaysStuckCode ==
  ASSUME TypeOK, buf \in Image, NEW ok \in BOOLEAN,
         NEW a \in {CodeLo, CodeHi}, ProgramWord(wblock, a, "code", ok)
  PROVE  /\ Stuck(flash, wblock, buf) => Stuck(flash', wblock, buf)
         /\ flash'[wblock][a] # "code" =>
              Stuck(flash', wblock, buf) \/ faults' = faults + 1
<1>1. /\ wblock \in Block /\ flash \in FlashType /\ faults \in 0 .. MaxFaults
      /\ a \in Addr /\ "code" \in Cell
  BY Basics DEF TypeOK, FlashType, Marks
<1>2. WordEffect(flash, flash', wblock, a, "code")
  BY <1>1, ProgramWordEffect
<1>3. /\ flash[wblock][a] \notin {"erased", "code"} =>
            flash'[wblock][a] \notin {"erased", "code"}
      /\ flash'[wblock][a] # "code" =>
            faults' = faults + 1 \/ flash'[wblock][a] \notin {"erased", "code"}
  BY <1>1, ProgramWordCost
<1>4. QED
  BY <1>2, <1>3, Basics DEF Stuck, WordEffect

-----------------------------------------------------------------------------
(* The steps of SaveData.                                                   *)

LEMMA StoredIs == Stored = StoredIn(flash) /\ Stored' = StoredIn(flash')
BY DEF Stored, StoredIn, AnyValid, IsValid, ValidBlock, Block, Block1, Block2

(* What a step inside SaveData leaves alone, and what it has to show.       *)
LEMMA ReturnStep ==
  ASSUME IInv, pc \in SavePc, NEW ok \in BOOLEAN, Return(ok), UNCHANGED call,
         flash' \in FlashType, faults' \in 0 .. MaxFaults,
         Kept(flash', wblock, before, buf)
  PROVE  IInv'
<1>1. TypeOK /\ op = "save" /\ wblock \in Block
  BY DEF IInv, SaveInv, TypeOK
<1>2. TypeOK'
  BY <1>1, Basics, ConstantsAssumption
  DEF TypeOK, Return, NoLocals, call, FlashType, Block, Block1
<1>3. Stored' \in {before', buf'}
  BY <1>1, KeptIsStored, StoredIs DEF call
<1>4. QED
  BY <1>1, <1>2, <1>3 DEF IInv, InitInv, SavePc, Return, call

LEMMA NextTryStep ==
  ASSUME IInv, pc \in SavePc, NextTry, UNCHANGED call,
         flash' \in FlashType, faults' \in 0 .. MaxFaults,
         Kept(flash', wblock, before, buf),
         try + 1 <= RetryCnt \div 2 =>
            Stuck(flash', wblock, buf) \/ faults' >= try + 1
  PROVE  IInv'
<1>1. TypeOK /\ op = "save" /\ wblock \in Block /\ buf \in Image
  BY DEF IInv, SaveInv, TypeOK
<1>2. CASE try + 1 < RetryCnt
  <2>1. pc' = "program" /\ addr' = Start /\ try' = try + 1
        /\ wblock' = wblock /\ ret' = ret
    BY <1>2 DEF NextTry
  <2>2. TypeOK'
    BY <1>1, <1>2, <2>1, Basics, ConstantsAssumption DEF TypeOK, call, FlashType
  <2>3. Stored' \in {before', buf'}
    BY <1>1, KeptIsStored, StoredIs DEF call
  <2>4. \A a \in Start .. addr' - 1 : FALSE
    BY <2>1 DEF Start
  <2>5. SaveInv'
    BY <1>1, <2>1, <2>4 DEF SaveInv, Paid, call
  <2>6. QED
    BY <1>1, <2>1, <2>2, <2>3, <2>5 DEF IInv, InitInv, call
<1>3. CASE ~(try + 1 < RetryCnt)
  BY <1>3, ReturnStep DEF NextTry
<1>4. QED
  BY <1>2, <1>3

LEMMA TryFailedStep ==
  ASSUME IInv, pc \in SavePc, TryFailed, UNCHANGED call,
         flash' \in FlashType, faults' \in 0 .. MaxFaults,
         Kept(flash', wblock, before, buf),
         try <= RetryCnt \div 2 =>
            Stuck(flash', wblock, buf) \/ faults' >= try + 1
  PROVE  IInv'
<1>1. TypeOK /\ op = "save" /\ wblock \in Block /\ buf \in Image
  BY DEF IInv, SaveInv, TypeOK
<1>2. CASE try = RetryCnt \div 2
  <2>1. pc' = "reErase" /\ UNCHANGED <<wblock, addr, try, ret>>
    BY <1>2 DEF TryFailed, locals
  <2>2. TypeOK'
    BY <1>1, <2>1 DEF TypeOK, call, FlashType
  <2>3. Stored' \in {before', buf'}
    BY <1>1, KeptIsStored, StoredIs DEF call
  <2>4. SaveInv'
    BY <1>1, <1>2, <2>1 DEF SaveInv, Paid, call
  <2>5. QED
    BY <1>1, <2>1, <2>2, <2>3, <2>4 DEF IInv, InitInv, call
<1>3. CASE try # RetryCnt \div 2
  <2>1. NextTry
    BY <1>3 DEF TryFailed
  <2>2. try + 1 <= RetryCnt \div 2 => try <= RetryCnt \div 2
    BY <1>1, ConstantsAssumption DEF TypeOK
  <2>3. QED
    BY <2>1, <2>2, NextTryStep
<1>4. QED
  BY <1>2, <1>3

(* A step to the next command of WriteValidCode.                            *)
LEMMA GotoStep ==
  ASSUME IInv, pc \in SavePc, NEW label \in SavePc, Goto(label), UNCHANGED call,
         flash' \in FlashType, faults' \in 0 .. MaxFaults,
         Kept(flash', wblock, before, buf), SaveInv'
  PROVE  IInv'
<1>1. TypeOK /\ op = "save" /\ wblock \in Block
  BY DEF IInv, SaveInv, TypeOK
<1>2. TypeOK'
  BY <1>1 DEF TypeOK, Goto, SavePc, locals, call, FlashType
<1>3. Stored' \in {before', buf'}
  BY <1>1, KeptIsStored, StoredIs DEF call
<1>4. QED
  BY <1>1, <1>2, <1>3 DEF IInv, InitInv, SavePc, Goto, call

(* What is known wherever SaveData runs.                                    *)
LEMMA InSave ==
  ASSUME IInv, pc \in SavePc
  PROVE  /\ TypeOK /\ SaveInv /\ op = "save" /\ buf \in Image
         /\ wblock \in Block /\ NextBlock(wblock) \in Block
         /\ flash \in FlashType /\ faults \in 0 .. MaxFaults
         /\ addr \in DataAddr /\ addr \in Addr
         /\ buf[addr] \in Val /\ buf[addr] \in Cell
         /\ "code" \in Cell /\ "zero" \in Cell
<1>1. TypeOK /\ SaveInv /\ wblock \in Block /\ addr \in DataAddr /\ buf \in Image
  BY DEF IInv, SaveInv, TypeOK
<1>2. QED
  BY <1>1, Basics, BlocksType DEF SaveInv, TypeOK, FlashType, Image, Cell, Marks

LEMMA ProgramDataStep == IInv /\ ProgramData => IInv'
<1> SUFFICES ASSUME IInv, ProgramData PROVE IInv'
  OBVIOUS
<1>1. pc = "program" /\ pc \in SavePc /\ UNCHANGED call
  BY DEF ProgramData, SavePc
<1>2. PICK ok \in BOOLEAN :
        /\ ProgramWord(wblock, addr, buf[addr], ok)
        /\ \/ ~ok /\ TryFailed
           \/ ok /\ addr < Start + NWords - 1 /\ addr' = addr + 1
              /\ UNCHANGED <<pc, wblock, try, ret>>
           \/ ok /\ addr = Start + NWords - 1 /\ Goto("codeLo")
  BY DEF ProgramData
<1>3. WordEffect(flash, flash', wblock, addr, buf[addr])
      /\ flash' \in FlashType /\ faults' \in 0 .. MaxFaults
  BY <1>1, <1>2, InSave, ProgramWordEffect, ProgramWordType
<1>4. Kept(flash', wblock, before, buf)
  BY <1>1, <1>3, InSave, ProgramDataKeeps DEF SaveInv
<1>5. /\ Stuck(flash, wblock, buf) => Stuck(flash', wblock, buf)
      /\ ~ok => Stuck(flash', wblock, buf) \/ faults' = faults + 1
  <2>1. TypeOK /\ buf \in Image /\ addr \in Addr /\ addr \in DataAddr
        /\ buf[addr] \in Val \cup {"code"}
    BY <1>1, InSave
  <2>2. ProgramWord(wblock, addr, buf[addr], ok)
    BY <1>2
  <2>3. QED
    BY <2>1, <2>2, StaysStuckData
<1>6. faults' >= faults /\ (ok => flash'[wblock][addr] = buf[addr])
  BY <1>1, <1>2, InSave, ProgramWordCost
<1>7. try <= RetryCnt \div 2 => Stuck(flash, wblock, buf) \/ faults >= try
  BY <1>1, InSave DEF SaveInv, Paid
<1>8. try \in Nat /\ faults \in Nat /\ faults' \in Nat
  BY <1>1, <1>3, InSave, ConstantsAssumption DEF TypeOK
<1>9. CASE ~ok /\ TryFailed
  <2>1. try <= RetryCnt \div 2 =>
          Stuck(flash', wblock, buf) \/ faults' >= try + 1
    BY <1>5, <1>7, <1>8, <1>9
  <2>2. QED
    BY <1>1, <1>3, <1>4, <1>9, <2>1, TryFailedStep
<1>10. ok => \A a \in Start .. addr : flash'[wblock][a] = buf[a]
  <2>1. \A a \in Start .. addr - 1 : flash[wblock][a] = buf[a]
    BY <1>1, InSave DEF SaveInv
  <2>2. \A a \in Start .. addr : a \in Addr /\ (a # addr => a \in Start .. addr - 1)
    BY <1>1, InSave, Basics DEF DataAddr, Addr, Start
  <2>3. QED
    BY <1>3, <1>6, <2>1, <2>2 DEF WordEffect
<1>11. try <= RetryCnt \div 2 => Stuck(flash', wblock, buf) \/ faults' >= try
  BY <1>5, <1>6, <1>7, <1>8
<1>12. CASE /\ ok /\ addr < Start + NWords - 1 /\ addr' = addr + 1
            /\ UNCHANGED <<pc, wblock, try, ret>>
  <2>1. addr' \in DataAddr /\ addr' - 1 = addr
    BY <1>1, <1>12, InSave, Basics DEF DataAddr, Start
  <2>2. SaveInv'
    BY <1>1, <1>4, <1>10, <1>11, <1>12, <2>1, InSave DEF SaveInv, Paid, call
  <2>3. TypeOK'
    BY <1>1, <1>3, <1>12, <2>1, InSave DEF TypeOK, call, FlashType
  <2>4. Stored' \in {before', buf'}
    BY <1>1, <1>4, InSave, KeptIsStored, StoredIs DEF call
  <2>5. QED
    BY <1>1, <1>12, <2>2, <2>3, <2>4, InSave DEF IInv, InitInv, call
<1>13. CASE ok /\ addr = Start + NWords - 1 /\ Goto("codeLo")
  <2>1. DataOf(flash'[wblock]) = buf
    <3>1. DataAddr = Start .. addr
      BY <1>13 DEF DataAddr
    <3>2. QED
      BY <1>1, <1>10, <1>13, <3>1, InSave DEF DataOf, Image
  <2>2. SaveInv'
    BY <1>1, <1>4, <1>11, <1>13, <2>1, InSave DEF SaveInv, Paid, call, Goto, locals
  <2>3. QED
    BY <1>1, <1>3, <1>4, <1>13, <2>2, GotoStep DEF SavePc
<1>14. QED
  BY <1>2, <1>9, <1>12, <1>13

LEMMA ProgramCodeLoStep == IInv /\ ProgramCodeLo => IInv'
<1> SUFFICES ASSUME IInv, ProgramCodeLo PROVE IInv'
  OBVIOUS
<1>1. pc = "codeLo" /\ pc \in SavePc /\ UNCHANGED call /\ Goto("codeHi")
  BY DEF ProgramCodeLo, SavePc
<1>2. PICK ok \in BOOLEAN : ProgramWord(wblock, CodeLo, "code", ok)
  BY DEF ProgramCodeLo
<1>3. WordEffect(flash, flash', wblock, CodeLo, "code")
      /\ flash' \in FlashType /\ faults' \in 0 .. MaxFaults
  BY <1>1, <1>2, InSave, Basics, ProgramWordEffect, ProgramWordType
<1>4. Kept(flash', wblock, before, buf) /\ DataOf(flash'[wblock]) = buf
  BY <1>1, <1>3, InSave, ProgramCodeKeeps DEF SaveInv
<1>5. /\ Stuck(flash, wblock, buf) => Stuck(flash', wblock, buf)
      /\ flash'[wblock][CodeLo] # "code" =>
           Stuck(flash', wblock, buf) \/ faults' = faults + 1
  BY <1>1, <1>2, InSave, StaysStuckCode
<1>6. faults' >= faults
  BY <1>1, <1>2, InSave, Basics, ProgramWordCost
<1>7. try <= RetryCnt \div 2 => Stuck(flash, wblock, buf) \/ faults >= try
  BY <1>1, InSave DEF SaveInv, Paid
<1>8. try \in Nat /\ faults \in Nat /\ faults' \in Nat
  BY <1>1, <1>3, InSave, ConstantsAssumption DEF TypeOK
<1>9. SaveInv'
  BY <1>1, <1>4, <1>5, <1>6, <1>7, <1>8, InSave
  DEF SaveInv, Paid, call, Goto, locals
<1>10. QED
  BY <1>1, <1>3, <1>4, <1>9, GotoStep DEF SavePc

LEMMA ProgramCodeHiStep == IInv /\ ProgramCodeHi => IInv'
<1> SUFFICES ASSUME IInv, ProgramCodeHi PROVE IInv'
  OBVIOUS
<1>1. pc = "codeHi" /\ pc \in SavePc /\ UNCHANGED call
      /\ IF HasCode(flash'[wblock]) THEN Goto("oldLo") ELSE TryFailed
  BY DEF ProgramCodeHi, SavePc
<1>2. PICK ok \in BOOLEAN : ProgramWord(wblock, CodeHi, "code", ok)
  BY DEF ProgramCodeHi
<1>3. WordEffect(flash, flash', wblock, CodeHi, "code")
      /\ flash' \in FlashType /\ faults' \in 0 .. MaxFaults
  BY <1>1, <1>2, InSave, Basics, ProgramWordEffect, ProgramWordType
<1>4. Kept(flash', wblock, before, buf) /\ DataOf(flash'[wblock]) = buf
  BY <1>1, <1>3, InSave, ProgramCodeKeeps DEF SaveInv
<1>5. /\ Stuck(flash, wblock, buf) => Stuck(flash', wblock, buf)
      /\ flash'[wblock][CodeHi] # "code" =>
           Stuck(flash', wblock, buf) \/ faults' = faults + 1
  BY <1>1, <1>2, InSave, StaysStuckCode
<1>6. faults' >= faults
  BY <1>1, <1>2, InSave, Basics, ProgramWordCost
<1>7. /\ try <= RetryCnt \div 2 => Stuck(flash, wblock, buf) \/ faults >= try
      /\ \/ flash[wblock][CodeLo] = "code"
         \/ try <= RetryCnt \div 2 => Stuck(flash, wblock, buf) \/ faults >= try + 1
  BY <1>1, InSave DEF SaveInv, Paid
<1>8. try \in Nat /\ faults \in Nat /\ faults' \in Nat
  BY <1>1, <1>3, InSave, ConstantsAssumption DEF TypeOK
<1>9. CASE HasCode(flash'[wblock])
  <2>1. SaveInv'
    BY <1>1, <1>4, <1>5, <1>6, <1>7, <1>8, <1>9, InSave
    DEF SaveInv, Paid, call, Goto, locals, Complete
  <2>2. QED
    BY <1>1, <1>3, <1>4, <1>9, <2>1, GotoStep DEF SavePc
<1>10. CASE ~HasCode(flash'[wblock])
  <2>1. flash'[wblock][CodeLo] = flash[wblock][CodeLo]
    BY <1>3, Basics DEF WordEffect, CodeLo, CodeHi
  <2>2. try <= RetryCnt \div 2 =>
          Stuck(flash', wblock, buf) \/ faults' >= try + 1
    BY <1>5, <1>6, <1>7, <1>8, <1>10, <2>1 DEF HasCode
  <2>3. QED
    BY <1>1, <1>3, <1>4, <1>10, <2>2, TryFailedStep
<1>11. QED
  BY <1>9, <1>10

LEMMA ZeroOldLoStep == IInv /\ ZeroOldLo => IInv'
<1> SUFFICES ASSUME IInv, ZeroOldLo PROVE IInv'
  OBVIOUS
<1>1. pc = "oldLo" /\ pc \in SavePc /\ UNCHANGED call /\ Goto("oldHi")
  BY DEF ZeroOldLo, SavePc
<1>2. PICK ok \in BOOLEAN : ProgramWord(NextBlock(wblock), CodeLo, "zero", ok)
  BY DEF ZeroOldLo
<1>3. WordEffect(flash, flash', NextBlock(wblock), CodeLo, "zero")
      /\ flash' \in FlashType /\ faults' \in 0 .. MaxFaults
  BY <1>1, <1>2, InSave, Basics, ProgramWordEffect, ProgramWordType
<1>4. Kept(flash', wblock, before, buf) /\ Complete(flash', wblock, buf)
  BY <1>1, <1>3, InSave, ZeroOldKeeps DEF SaveInv
<1>5. faults' >= faults
      /\ (flash'[NextBlock(wblock)][CodeLo] = "zero" \/ faults' = faults + 1)
  BY <1>1, <1>2, InSave, Basics, ZeroWordCost
<1>6. flash'[wblock] = flash[wblock]
  BY <1>1, <1>3, InSave, BlocksType DEF WordEffect
<1>7. try <= RetryCnt \div 2 => Stuck(flash, wblock, buf) \/ faults >= try
  BY <1>1, InSave DEF SaveInv, Paid
<1>8. Stuck(flash, wblock, buf) => Stuck(flash', wblock, buf)
  BY <1>6 DEF Stuck
<1>9. try \in Nat /\ faults \in Nat /\ faults' \in Nat
  BY <1>1, <1>3, InSave, ConstantsAssumption DEF TypeOK
<1>10. SaveInv'
  BY <1>1, <1>4, <1>5, <1>7, <1>8, <1>9, InSave
  DEF SaveInv, Paid, call, Goto, locals
<1>11. QED
  BY <1>1, <1>3, <1>4, <1>10, GotoStep DEF SavePc

LEMMA ZeroOldHiStep == IInv /\ ZeroOldHi => IInv'
<1> SUFFICES ASSUME IInv, ZeroOldHi PROVE IInv'
  OBVIOUS
<1>1. pc = "oldHi" /\ pc \in SavePc /\ UNCHANGED call
      /\ IF IsZeroed(flash'[NextBlock(wblock)]) THEN Goto("eraseOld1")
         ELSE TryFailed
  BY DEF ZeroOldHi, SavePc
<1>2. PICK ok \in BOOLEAN : ProgramWord(NextBlock(wblock), CodeHi, "zero", ok)
  BY DEF ZeroOldHi
<1>3. WordEffect(flash, flash', NextBlock(wblock), CodeHi, "zero")
      /\ flash' \in FlashType /\ faults' \in 0 .. MaxFaults
  BY <1>1, <1>2, InSave, Basics, ProgramWordEffect, ProgramWordType
<1>4. Kept(flash', wblock, before, buf) /\ Complete(flash', wblock, buf)
  BY <1>1, <1>3, InSave, ZeroOldKeeps DEF SaveInv
<1>5. faults' >= faults
      /\ (flash'[NextBlock(wblock)][CodeHi] = "zero" \/ faults' = faults + 1)
  BY <1>1, <1>2, InSave, Basics, ZeroWordCost
<1>6. flash'[wblock] = flash[wblock]
      /\ flash'[NextBlock(wblock)][CodeLo] = flash[NextBlock(wblock)][CodeLo]
  BY <1>1, <1>3, InSave, Basics, BlocksType DEF WordEffect, CodeLo, CodeHi
<1>7. /\ try <= RetryCnt \div 2 => Stuck(flash, wblock, buf) \/ faults >= try
      /\ \/ flash[NextBlock(wblock)][CodeLo] = "zero"
         \/ try <= RetryCnt \div 2 => Stuck(flash, wblock, buf) \/ faults >= try + 1
  BY <1>1, InSave DEF SaveInv, Paid
<1>8. Stuck(flash, wblock, buf) => Stuck(flash', wblock, buf)
  BY <1>6 DEF Stuck
<1>9. try \in Nat /\ faults \in Nat /\ faults' \in Nat
  BY <1>1, <1>3, InSave, ConstantsAssumption DEF TypeOK
<1>10. CASE IsZeroed(flash'[NextBlock(wblock)])
  <2>1. NewThere(flash', wblock, buf)
    BY <1>4, <1>10 DEF NewThere, HasCode, IsZeroed
  <2>2. SaveInv'
    BY <1>1, <1>4, <1>10, <2>1, InSave DEF SaveInv, Paid, call, Goto, locals
  <2>3. QED
    BY <1>1, <1>3, <1>4, <1>10, <2>2, GotoStep DEF SavePc
<1>11. CASE ~IsZeroed(flash'[NextBlock(wblock)])
  <2>1. try <= RetryCnt \div 2 =>
          Stuck(flash', wblock, buf) \/ faults' >= try + 1
    BY <1>5, <1>6, <1>7, <1>8, <1>9, <1>11 DEF IsZeroed
  <2>2. QED
    BY <1>1, <1>3, <1>4, <1>11, <2>1, TryFailedStep
<1>12. QED
  BY <1>10, <1>11

(* Too few chip failures to have paid for the tries: a word is stuck, the   *)
(* write block is not complete and the re-erase hits no data.               *)
LEMMA ReEraseStep == FewFaults /\ IInv /\ ReErase => IInv'
<1> SUFFICES ASSUME FewFaults, IInv, ReErase PROVE IInv'
  OBVIOUS
<1>1. pc = "reErase" /\ pc \in SavePc /\ UNCHANGED call /\ NextTry
  BY DEF ReErase, SavePc
<1>2. PICK ok \in BOOLEAN : EraseBlock(wblock, ok)
  BY DEF ReErase
<1>3. EraseEffect(flash, flash', wblock)
      /\ flash' \in FlashType /\ faults' \in 0 .. MaxFaults
  BY <1>1, <1>2, InSave, EraseBlockEffect, EraseBlockType
<1>4. try = RetryCnt \div 2 /\ (Stuck(flash, wblock, buf) \/ faults >= try + 1)
  <2>1. try = RetryCnt \div 2 /\ Paid(try + 1)
    BY <1>1, InSave DEF SaveInv
  <2>2. RetryCnt \div 2 \in Int
    BY ConstantsAssumption
  <2>3. QED
    BY <2>1, <2>2 DEF Paid
<1>5. Stuck(flash, wblock, buf)
  BY <1>1, <1>4, InSave, ConstantsAssumption DEF FewFaults
<1>6. ~Complete(flash, wblock, buf)
  BY <1>5, Basics DEF Stuck, Complete, HasCode, DataOf
<1>7. Kept(flash', wblock, before, buf)
  BY <1>1, <1>3, <1>6, InSave, ReEraseKeeps DEF SaveInv
<1>8. ~(try + 1 <= RetryCnt \div 2)
  BY <1>4, ConstantsAssumption
<1>9. QED
  BY <1>1, <1>3, <1>7, <1>8, NextTryStep

LEMMA EraseOldStep == IInv /\ EraseOld => IInv'
<1> SUFFICES ASSUME IInv, EraseOld PROVE IInv'
  OBVIOUS
<1>1. pc = "eraseOld1" /\ pc \in SavePc /\ UNCHANGED call
  BY DEF EraseOld, SavePc
<1>2. PICK ok \in BOOLEAN : /\ EraseBlock(NextBlock(wblock), ok)
                            /\ IF ok THEN Return(TRUE) ELSE Goto("eraseOld2")
  BY DEF EraseOld
<1>3. EraseEffect(flash, flash', NextBlock(wblock))
      /\ flash' \in FlashType /\ faults' \in 0 .. MaxFaults
  BY <1>1, <1>2, InSave, EraseBlockEffect, EraseBlockType
<1>4. NewThere(flash', wblock, buf) /\ Kept(flash', wblock, before, buf)
  BY <1>1, <1>3, InSave, EraseOldKeeps DEF SaveInv, Kept
<1>5. CASE ok
  BY <1>1, <1>2, <1>3, <1>4, <1>5, ReturnStep
<1>6. CASE ~ok
  <2>1. SaveInv'
    BY <1>1, <1>2, <1>4, <1>6, InSave DEF SaveInv, Paid, call, Goto, locals
  <2>2. QED
    BY <1>1, <1>2, <1>3, <1>4, <1>6, <2>1, GotoStep DEF SavePc
<1>7. QED
  BY <1>5, <1>6

LEMMA EraseOldAgainStep == IInv /\ EraseOldAgain => IInv'
<1> SUFFICES ASSUME IInv, EraseOldAgain PROVE IInv'
  OBVIOUS
<1>1. pc = "eraseOld2" /\ pc \in SavePc /\ UNCHANGED call
  BY DEF EraseOldAgain, SavePc
<1>2. PICK ok \in BOOLEAN : EraseBlock(NextBlock(wblock), ok) /\ Return(ok)
  BY DEF EraseOldAgain
<1>3. EraseEffect(flash, flash', NextBlock(wblock))
      /\ flash' \in FlashType /\ faults' \in 0 .. MaxFaults
  BY <1>1, <1>2, InSave, EraseBlockEffect, EraseBlockType
<1>4. Kept(flash', wblock, before, buf)
  BY <1>1, <1>3, InSave, EraseOldKeeps DEF SaveInv, Kept
<1>5. QED
  BY <1>1, <1>2, <1>3, <1>4, ReturnStep

-----------------------------------------------------------------------------
(* The other steps.                                                         *)

LEMMA InitStep == Init => IInv
<1> SUFFICES ASSUME Init PROVE IInv
  OBVIOUS
<1>1. ~AnyValid
  BY Basics DEF Init, AnyValid, IsValid, HasCode, Erased
<1>2. TypeOK
  BY Basics, Zeros DEF Init, TypeOK, Erased, Block, Block1, Cell, Marks
<1>3. QED
  BY <1>1, <1>2 DEF Init, IInv, InitInv, SavePc, Stored

(* An erase of a block that is not looked at, and one with nothing valid.   *)
LEMMA EraseOtherKeeps ==
  ASSUME NEW f, NEW g,
         \/ HasCode(f[Block1]) /\ EraseEffect(f, g, Block2)
         \/ ~HasCode(f[Block1]) /\ HasCode(f[Block2]) /\ EraseEffect(f, g, Block1)
         \/ /\ ~HasCode(f[Block1]) /\ ~HasCode(f[Block2])
            /\ \E b \in Block : EraseEffect(f, g, b)
  PROVE  StoredIn(f) = StoredIn(g)
BY DEF EraseEffect, StoredIn, Block, Block1, Block2

LEMMA BeginStep ==
  ASSUME TypeOK, NEW name \in {"init", "erase"}, Begin(name, NONE),
         UNCHANGED <<flash, locals>>, back' \in {"boot", "idle"},
         pc' \in {"boot", "bootErase", "clear1"},
         pc' = "bootErase" => name = "init" /\ AnyValid,
         pc' = "clear1" /\ name = "init" => ~AnyValid
  PROVE  IInv'
<1>1. before' \in [DataAddr -> Cell] \cup {NONE} /\ before' = Stored
  BY StoredType DEF Begin, TypeOK, FlashType
<1>2. TypeOK'
  BY <1>1, Zeros DEF TypeOK, Begin, locals
<1>3. Stored' = Stored /\ (AnyValid' <=> AnyValid)
  BY DEF Stored, AnyValid, IsValid, ValidBlock
<1>4. QED
  BY <1>1, <1>2, <1>3 DEF IInv, InitInv, SavePc, Begin

LEMMA PowerOnStep == IInv /\ PowerOn => IInv'
BY BeginStep DEF PowerOn, IInv, TypeOK, locals

LEMMA InitFlashStep == IInv /\ InitFlash => IInv'
BY BeginStep DEF InitFlash, IInv, locals

LEMMA EraseFlashBlockStep == IInv /\ EraseFlashBlock => IInv'
BY BeginStep DEF EraseFlashBlock, IInv, locals

LEMMA SaveDataStep ==
  ASSUME IInv, NEW image \in Image, SaveData(image)
  PROVE  IInv'
<1>1. TypeOK /\ flash' = flash /\ wblock' = NextBlock(ValidBlock) /\ buf' = image
      /\ before' = Stored /\ op' = "save" /\ pc' = "program" /\ try' = 0
      /\ faults' = 0 /\ addr' = Start
  BY DEF IInv, SaveData, Begin
<1>2. wblock' \in Block /\ before' \in [DataAddr -> Cell] \cup {NONE}
  BY <1>1, BlocksType, StoredType DEF TypeOK, FlashType
<1>3. TypeOK'
  BY <1>1, <1>2, Basics, Zeros DEF TypeOK, SaveData, Begin
<1>4. OldThere(flash', wblock', before', buf')
  BY <1>1, BlocksType
  DEF OldThere, Complete, Stored, AnyValid, IsValid, ValidBlock, NextBlock,
      Block, Block1, Block2
<1>5. Stored' \in {before', buf'}
  BY <1>1 DEF Stored, AnyValid, IsValid, ValidBlock
<1>6. SaveInv'
  BY <1>1, <1>4 DEF SaveInv, Paid, Kept, Start
<1>7. QED
  BY <1>1, <1>3, <1>5, <1>6 DEF IInv, InitInv

(* One erase of Init or of EraseFlashBlock, complete or cut short.          *)
LEMMA ClearStep ==
  ASSUME IInv, pc \in {"bootErase", "clear1", "clear2"}, NEW b \in Block,
         EraseEffect(flash, flash', b), UNCHANGED <<op, buf, before>>,
         pc = "bootErase" => b = NextBlock(ValidBlock),
         TypeOK', pc' \in {"off", "boot", "idle", "clear2"},
         pc' = "clear2" => pc = "clear1"
  PROVE  IInv'
<1>1. op \in {"init", "erase"} /\ (pc = "bootErase" => op = "init" /\ AnyValid)
  BY DEF IInv, InitInv
<1>2. CASE op = "init"
  <2>1. StoredIn(flash) = StoredIn(flash')
    <3>1. CASE pc = "bootErase"
      BY <1>1, <3>1, EraseOtherKeeps
      DEF AnyValid, IsValid, ValidBlock, NextBlock, Block, Block1, Block2
    <3>2. CASE pc # "bootErase"
      BY <1>2, <3>2, EraseOtherKeeps
      DEF IInv, InitInv, AnyValid, IsValid, Block, Block1, Block2
    <3>3. QED
      BY <3>1, <3>2
  <2>2. ~AnyValid => ~AnyValid'
    BY DEF EraseEffect, AnyValid, IsValid
  <2>3. Stored' = before'
    BY <1>2, <2>1, StoredIs DEF IInv, InitInv
  <2>4. QED
    BY <1>2, <2>2, <2>3 DEF IInv, InitInv, SavePc
<1>3. CASE op = "erase"
  BY <1>3 DEF IInv, InitInv, SavePc
<1>4. QED
  BY <1>1, <1>2, <1>3

LEMMA ClearType ==
  ASSUME TypeOK, flash' \in FlashType, faults' \in 0 .. MaxFaults,
         UNCHANGED <<call, locals, ret>>,
         pc' \in {"boot", "idle", "clear2"}
  PROVE  TypeOK'
BY DEF TypeOK, FlashType, call, locals

LEMMA BootEraseStep == IInv /\ BootErase => IInv'
<1> SUFFICES ASSUME IInv, BootErase PROVE IInv'
  OBVIOUS
<1>1. PICK ok \in BOOLEAN : EraseBlock(NextBlock(ValidBlock), ok)
  BY DEF BootErase
<1>2. TypeOK /\ flash \in FlashType /\ faults \in 0 .. MaxFaults
      /\ NextBlock(ValidBlock) \in Block
  BY BlocksType DEF IInv, TypeOK, FlashType
<1>3. EraseEffect(flash, flash', NextBlock(ValidBlock))
      /\ flash' \in FlashType /\ faults' \in 0 .. MaxFaults
  BY <1>1, <1>2, EraseBlockEffect, EraseBlockType
<1>4. TypeOK'
  BY <1>2, <1>3, ClearType DEF BootErase
<1>5. QED
  BY <1>2, <1>3, <1>4, ClearStep DEF BootErase, call

LEMMA ClearBlockStep == IInv /\ (ClearBlock1 \/ ClearBlock2) => IInv'
<1> SUFFICES ASSUME IInv, ClearBlock1 \/ ClearBlock2 PROVE IInv'
  OBVIOUS
<1>1. PICK b \in Block, ok \in BOOLEAN : EraseBlock(b, ok)
  BY DEF ClearBlock1, ClearBlock2, Block
<1>2. TypeOK /\ flash \in FlashType /\ faults \in 0 .. MaxFaults
      /\ back \in {"boot", "idle"}
  BY DEF IInv, TypeOK, FlashType
<1>3. EraseEffect(flash, flash', b)
      /\ flash' \in FlashType /\ faults' \in 0 .. MaxFaults
  BY <1>1, <1>2, EraseBlockEffect, EraseBlockType
<1>4. UNCHANGED <<call, locals, ret>> /\ pc \in {"clear1", "clear2"}
      /\ pc' \in {"boot", "idle", "clear2"} /\ (pc' = "clear2" => pc = "clear1")
  BY <1>2 DEF ClearBlock1, ClearBlock2
<1>5. TypeOK'
  BY <1>2, <1>3, <1>4, ClearType
<1>6. QED
  BY <1>3, <1>4, <1>5, ClearStep DEF call

(* Power fails at any command: the same effects, and the RAM is gone.       *)
LEMMA PowerFailStep == FewFaults /\ IInv /\ PowerFail => IInv'
<1> SUFFICES ASSUME FewFaults, IInv, PowerFail PROVE IInv'
  OBVIOUS
<1>1. TypeOK /\ flash \in FlashType /\ pc' = "off" /\ UNCHANGED <<op, buf, before>>
  BY DEF IInv, TypeOK, FlashType, PowerFail
<1>2. flash' \in FlashType => TypeOK'
  BY <1>1, Basics, Zeros DEF TypeOK, FlashType, PowerFail, NoLocals, Block
<1>3. CASE pc \in {"boot", "idle"}
  <2>1. flash' = flash
    BY <1>3 DEF PowerFail
  <2>2. Stored' = Stored
    BY <2>1 DEF Stored, AnyValid, IsValid, ValidBlock
  <2>3. QED
    BY <1>1, <1>2, <2>1, <2>2 DEF IInv, InitInv, SavePc
<1>4. CASE pc \in {"bootErase", "clear1", "clear2"}
  <2>1. PICK b \in Block : CutErase(b) /\ (pc = "bootErase" => b = NextBlock(ValidBlock))
    BY <1>4, BlocksType DEF PowerFail, Block
  <2>2. EraseEffect(flash, flash', b) /\ flash' \in FlashType
    BY <1>1, <2>1, CutEraseEffect, CutEraseType
  <2>3. QED
    BY <1>1, <1>2, <1>4, <2>1, <2>2, ClearStep
<1>5. CASE pc \in SavePc
  <2>1. Kept(flash', wblock, before, buf) /\ flash' \in FlashType
    <3>1. CASE pc = "program"
      <4>1. CutWord(wblock, addr, buf[addr])
        BY <3>1 DEF PowerFail
      <4>2. WordEffect(flash, flash', wblock, addr, buf[addr]) /\ flash' \in FlashType
        BY <1>5, <4>1, InSave, CutWordEffect, CutWordType
      <4>3. QED
        BY <1>5, <4>2, InSave, ProgramDataKeeps DEF SaveInv
    <3>2. CASE pc \in {"codeLo", "codeHi"}
      <4>1. PICK a \in {CodeLo, CodeHi} : CutWord(wblock, a, "code")
        BY <3>2 DEF PowerFail
      <4>2. WordEffect(flash, flash', wblock, a, "code") /\ flash' \in FlashType
        BY <1>5, <4>1, InSave, Basics, CutWordEffect, CutWordType
      <4>3. QED
        BY <1>5, <3>2, <4>2, InSave, ProgramCodeKeeps DEF SaveInv
    <3>3. CASE pc \in {"oldLo", "oldHi"}
      <4>1. PICK a \in {CodeLo, CodeHi} : CutWord(NextBlock(wblock), a, "zero")
        BY <3>3 DEF PowerFail
      <4>2. WordEffect(flash, flash', NextBlock(wblock), a, "zero")
            /\ flash' \in FlashType
        BY <1>5, <4>1, InSave, Basics, CutWordEffect, CutWordType
      <4>3. QED
        BY <1>5, <3>3, <4>2, InSave, ZeroOldKeeps DEF SaveInv
    <3>4. CASE pc = "reErase"
      <4>1. CutErase(wblock)
        BY <3>4 DEF PowerFail
      <4>2. EraseEffect(flash, flash', wblock) /\ flash' \in FlashType
        BY <1>5, <4>1, InSave, CutEraseEffect, CutEraseType
      <4>3. try = RetryCnt \div 2 /\ Paid(try + 1) /\ RetryCnt \div 2 \in Int
        BY <1>5, <3>4, InSave, ConstantsAssumption DEF SaveInv
      <4>4. Stuck(flash, wblock, buf)
        BY <1>5, <4>3, InSave, ConstantsAssumption DEF Paid, FewFaults
      <4>5. ~Complete(flash, wblock, buf)
        BY <4>4, Basics DEF Stuck, Complete, HasCode, DataOf
      <4>6. QED
        BY <1>5, <4>2, <4>5, InSave, ReEraseKeeps DEF SaveInv
    <3>5. CASE pc \in {"eraseOld1", "eraseOld2"}
      <4>1. CutErase(NextBlock(wblock))
        BY <3>5 DEF PowerFail
      <4>2. EraseEffect(flash, flash', NextBlock(wblock)) /\ flash' \in FlashType
        BY <1>5, <4>1, InSave, CutEraseEffect, CutEraseType
      <4>3. QED
        BY <1>5, <3>5, <4>2, InSave, EraseOldKeeps DEF SaveInv, Kept
    <3>6. QED
      BY <1>5, <3>1, <3>2, <3>3, <3>4, <3>5 DEF SavePc
  <2>2. Stored' \in {before', buf'}
    BY <1>1, <1>5, <2>1, InSave, KeptIsStored, StoredIs
  <2>3. QED
    BY <1>1, <1>2, <1>5, <2>1, <2>2, InSave DEF IInv, InitInv, SavePc
<1>6. QED
  BY <1>1, <1>3, <1>4, <1>5 DEF PowerFail, SavePc

LEMMA StutterStep == IInv /\ UNCHANGED vars => IInv'
BY DEF IInv, TypeOK, InitInv, SaveInv, Paid, Stored, AnyValid, IsValid,
       ValidBlock, vars

-----------------------------------------------------------------------------
LEMMA Inductive == FewFaults /\ IInv /\ [Next]_vars => IInv'
<1> SUFFICES ASSUME FewFaults, IInv, [Next]_vars PROVE IInv'
  OBVIOUS
<1>1. CASE PowerOn \/ InitFlash \/ EraseFlashBlock
  BY <1>1, PowerOnStep, InitFlashStep, EraseFlashBlockStep
<1>2. CASE \E image \in Image : SaveData(image)
  BY <1>2, SaveDataStep
<1>3. CASE Command
  BY <1>3, BootEraseStep, ClearBlockStep, ProgramDataStep, ProgramCodeLoStep,
     ProgramCodeHiStep, ZeroOldLoStep, ZeroOldHiStep, ReEraseStep, EraseOldStep,
     EraseOldAgainStep
  DEF Command
<1>4. CASE PowerFail
  BY <1>4, PowerFailStep
<1>5. CASE UNCHANGED vars
  BY <1>5, StutterStep
<1>6. QED
  BY <1>1, <1>2, <1>3, <1>4, <1>5 DEF Next

(* The variables have their types in every reachable state, as long as the  *)
(* chip fails at most RETRY_CNT/2 times in a call.                          *)
THEOREM TypeCorrect ==
  ASSUME FewFaults
  PROVE  Spec => []TypeOK
<1>1. IInv => TypeOK
  BY DEF IInv
<1>2. IInv /\ [Next]_vars => IInv'
  BY Inductive
<1>3. QED
  BY <1>1, <1>2, InitStep, PTL DEF Spec

(* Power failures at any command and up to RETRY_CNT/2 chip failures per    *)
(* call: reading returns the data of before the save or the data of the     *)
(* save, and a boot changes nothing (FlashControl::SaveData, Init).         *)
THEOREM NothingIsLost ==
  ASSUME FewFaults
  PROVE  Spec => []NothingLost
<1>1. IInv => NothingLost
  BY DEF IInv, InitInv, NothingLost
<1>2. IInv /\ [Next]_vars => IInv'
  BY Inductive
<1>3. QED
  BY <1>1, <1>2, InitStep, PTL DEF Spec

-----------------------------------------------------------------------------
(* FlashControl implements NonVolatileStore.  What a command of SaveData    *)
(* adds to Kept: once the new data is read, it is read from then on.        *)

LEMMA ProgramDataStays ==
  ASSUME NEW f, NEW g, NEW w \in Block, NEW new \in Image, NEW a \in DataAddr,
         WordEffect(f, g, w, a, new[a]), StoredIn(f) = new
  PROVE  StoredIn(g) = new
<1>1. \A b \in Block : HasCode(g[b]) = HasCode(f[b])
  BY Basics DEF WordEffect, HasCode
<1>2. g[NextBlock(w)] = f[NextBlock(w)]
  BY BlocksType DEF WordEffect
<1>3. DataOf(f[w]) = new => DataOf(g[w]) = new
  BY Basics DEF WordEffect, DataOf, Image
<1> QED
  BY <1>1, <1>2, <1>3 DEF StoredIn, NextBlock, Block, Block1, Block2

LEMMA ProgramCodeStays ==
  ASSUME NEW f, NEW g, NEW w \in Block, NEW new \in Image, NEW a \in {CodeLo, CodeHi},
         WordEffect(f, g, w, a, "code"), DataOf(f[w]) = new, StoredIn(f) = new
  PROVE  StoredIn(g) = new
<1>1. DataOf(g[w]) = DataOf(f[w])
  BY Basics DEF WordEffect, DataOf
<1>2. g[NextBlock(w)] = f[NextBlock(w)]
  BY BlocksType DEF WordEffect
<1>3. HasCode(f[w]) => HasCode(g[w])
  BY Basics DEF WordEffect, HasCode
<1> QED
  BY <1>1, <1>2, <1>3 DEF StoredIn, NextBlock, Block, Block1, Block2

LEMMA ZeroOldStays ==
  ASSUME NEW f, NEW g, NEW w \in Block, NEW new \in Image, NEW a \in {CodeLo, CodeHi},
         WordEffect(f, g, NextBlock(w), a, "zero"), Complete(f, w, new), StoredIn(f) = new
  PROVE  StoredIn(g) = new
<1>1. DataOf(g[NextBlock(w)]) = DataOf(f[NextBlock(w)])
  BY Basics, BlocksType DEF WordEffect, DataOf
<1>2. g[w] = f[w]
  BY BlocksType DEF WordEffect
<1>3. HasCode(g[NextBlock(w)]) => HasCode(f[NextBlock(w)])
  BY Basics, BlocksType DEF WordEffect, HasCode
<1> QED
  BY <1>1, <1>2, <1>3 DEF StoredIn, Complete, NextBlock, Block, Block1, Block2

LEMMA ReEraseStays ==
  ASSUME NEW f, NEW g, NEW w \in Block, NEW old, NEW new,
         EraseEffect(f, g, w), Kept(f, w, old, new), ~Complete(f, w, new), StoredIn(f) = new
  PROVE  StoredIn(g) = new
BY DEF Kept, OldThere, NewThere, Complete, EraseEffect, StoredIn, NextBlock, Block, Block1, Block2

LEMMA NewIsStored ==
  ASSUME NEW f, NEW w \in Block, NEW new, NewThere(f, w, new)
  PROVE  StoredIn(f) = new
BY DEF NewThere, Complete, StoredIn, NextBlock, Block, Block1, Block2

(* The re-erase never hits a complete block.                                *)
LEMMA ReEraseIncomplete ==
  ASSUME FewFaults, IInv, pc = "reErase"
  PROVE  ~Complete(flash, wblock, buf)
<1>1. pc \in SavePc
  BY DEF SavePc
<1>2. try = RetryCnt \div 2 /\ Paid(try + 1) /\ RetryCnt \div 2 \in Int
  BY <1>1, InSave, ConstantsAssumption DEF SaveInv
<1>3. Stuck(flash, wblock, buf)
  BY <1>1, <1>2, InSave, ConstantsAssumption DEF Paid, FewFaults
<1> QED
  BY <1>3, Basics DEF Stuck, Complete, HasCode, DataOf

(* A command of SaveData, complete, failed or cut short, leaves what is     *)
(* read as it was or replaces it by the new data.                           *)
LEMMA CommandCommits ==
  ASSUME FewFaults, IInv, pc \in SavePc, Command \/ PowerFail, Stored = buf
  PROVE  Stored' = buf
<1>1. TypeOK /\ SaveInv /\ Kept(flash, wblock, before, buf) /\ StoredIn(flash) = buf
  BY InSave, StoredIs DEF SaveInv
<1>2. SUFFICES StoredIn(flash') = buf
  BY StoredIs
<1>3. CASE pc = "program"
  <2>1. (\E ok \in BOOLEAN : ProgramWord(wblock, addr, buf[addr], ok))
        \/ CutWord(wblock, addr, buf[addr])
    BY <1>3 DEF Command, PowerFail, BootErase, ClearBlock1, ClearBlock2, ProgramData, ProgramCodeLo,
       ProgramCodeHi, ZeroOldLo, ZeroOldHi, ReErase, EraseOld, EraseOldAgain
  <2>2. WordEffect(flash, flash', wblock, addr, buf[addr])
    BY <2>1, InSave, ProgramWordEffect, CutWordEffect
  <2> QED
    BY <1>1, <2>2, InSave, ProgramDataStays
<1>4. CASE pc \in {"codeLo", "codeHi"}
  <2>1. PICK a \in {CodeLo, CodeHi} :
          (\E ok \in BOOLEAN : ProgramWord(wblock, a, "code", ok)) \/ CutWord(wblock, a, "code")
    BY <1>4 DEF Command, PowerFail, BootErase, ClearBlock1, ClearBlock2, ProgramData, ProgramCodeLo,
       ProgramCodeHi, ZeroOldLo, ZeroOldHi, ReErase, EraseOld, EraseOldAgain
  <2>2. WordEffect(flash, flash', wblock, a, "code")
    BY <2>1, InSave, Basics, ProgramWordEffect, CutWordEffect
  <2> QED
    BY <1>1, <1>4, <2>2, InSave, ProgramCodeStays DEF SaveInv
<1>5. CASE pc \in {"oldLo", "oldHi"}
  <2>1. PICK a \in {CodeLo, CodeHi} :
          \/ \E ok \in BOOLEAN : ProgramWord(NextBlock(wblock), a, "zero", ok)
          \/ CutWord(NextBlock(wblock), a, "zero")
    BY <1>5 DEF Command, PowerFail, BootErase, ClearBlock1, ClearBlock2, ProgramData, ProgramCodeLo,
       ProgramCodeHi, ZeroOldLo, ZeroOldHi, ReErase, EraseOld, EraseOldAgain
  <2>2. WordEffect(flash, flash', NextBlock(wblock), a, "zero")
    BY <2>1, InSave, Basics, ProgramWordEffect, CutWordEffect
  <2> QED
    BY <1>1, <1>5, <2>2, InSave, ZeroOldStays DEF SaveInv
<1>6. CASE pc = "reErase"
  <2>1. (\E ok \in BOOLEAN : EraseBlock(wblock, ok)) \/ CutErase(wblock)
    BY <1>6 DEF Command, PowerFail, BootErase, ClearBlock1, ClearBlock2, ProgramData, ProgramCodeLo,
       ProgramCodeHi, ZeroOldLo, ZeroOldHi, ReErase, EraseOld, EraseOldAgain
  <2>2. EraseEffect(flash, flash', wblock)
    BY <2>1, InSave, EraseBlockEffect, CutEraseEffect
  <2> QED
    BY <1>1, <1>6, <2>2, InSave, ReEraseIncomplete, ReEraseStays
<1>7. CASE pc \in {"eraseOld1", "eraseOld2"}
  <2>1. (\E ok \in BOOLEAN : EraseBlock(NextBlock(wblock), ok)) \/ CutErase(NextBlock(wblock))
    BY <1>7 DEF Command, PowerFail, BootErase, ClearBlock1, ClearBlock2, ProgramData, ProgramCodeLo,
       ProgramCodeHi, ZeroOldLo, ZeroOldHi, ReErase, EraseOld, EraseOldAgain
  <2>2. EraseEffect(flash, flash', NextBlock(wblock))
    BY <2>1, InSave, EraseBlockEffect, CutEraseEffect
  <2>3. NewThere(flash', wblock, buf)
    BY <1>1, <1>7, <2>2, InSave, EraseOldKeeps DEF SaveInv
  <2> QED
    BY <2>3, InSave, NewIsStored
<1> QED
  BY <1>3, <1>4, <1>5, <1>6, <1>7 DEF SavePc

(* What the value of the store makes of it.                                 *)
LEMMA SameValue ==
  ASSUME TypeOK, TypeOK', Stored' = Stored
  PROVE  StoreValue' = StoreValue
<1>1. flash \in FlashType /\ flash' \in FlashType
  BY DEF TypeOK, FlashType
<1>2. \A b \in Block : DataOf(flash[b]) # NONE /\ DataOf(flash'[b]) # NONE
  BY <1>1, Basics, NoneAssumption DEF DataOf, FlashType
<1>3. (AnyValid <=> Stored # NONE) /\ (AnyValid' <=> Stored' # NONE)
  <2>1. ValidBlock \in Block /\ ValidBlock' \in Block
    BY DEF ValidBlock, Block, Block1, Block2
  <2> QED
    BY <1>2, <2>1 DEF Stored
<1> QED
  BY <1>3 DEF StoreValue, Damaged

LEMMA NewValue ==
  ASSUME buf \in Image, Stored' = buf
  PROVE  StoreValue' = buf
BY DEF StoreValue, Damaged

LEMMA ValueType == StoreValue' \in Image \cup {NONE, DAMAGED}
<1>1. CASE Damaged'
  BY <1>1 DEF StoreValue
<1>2. CASE ~Damaged'
  BY <1>2 DEF StoreValue, Damaged, Stored
<1> QED
  BY <1>1, <1>2

LEMMA StoreStep ==
  ASSUME FewFaults, IInv, IInv', [Next]_vars
  PROVE  [Store!Next]_(Store!vars)
<1>1. TypeOK /\ TypeOK'
  BY DEF IInv
<1>2. CASE pc \in SavePc /\ (Command \/ PowerFail)
  <2>1. op = "save" /\ op' = "save" /\ buf \in Image /\ buf' = buf /\ before' = before
    BY <1>2, InSave DEF Command, PowerFail, BootErase, ClearBlock1, ClearBlock2, ProgramData, ProgramCodeLo,
       ProgramCodeHi, ZeroOldLo, ZeroOldHi, ReErase, EraseOld, EraseOldAgain, call
  <2>2. Stored \in {before, buf} /\ Stored' \in {before, buf}
    BY <2>1 DEF IInv
  <2>3. Stored' \in {Stored, buf}
    BY <1>2, <2>2, CommandCommits
  <2>4. StoreValue' = StoreValue \/ StoreValue' = buf
    BY <1>1, <2>1, <2>3, SameValue, NewValue
  <2>5. StoreSaving = buf /\ buf # NONE
    <3>1. buf \in [DataAddr -> Cell]
      BY <2>1, Basics DEF Image
    <3> QED
      BY <1>2, <2>1, <3>1, NoneAssumption DEF StoreSaving, SavePc
  <2>6. StoreErasing = FALSE /\ StoreErasing' = FALSE
    BY <2>1 DEF StoreErasing
  <2>7. CASE pc' \in {"idle", "off"}
    <3>1. StoreSaving' = NONE
      BY <2>7 DEF StoreSaving
    <3>2. Store!EndSave
      BY <2>4, <2>5, <2>6, <3>1 DEF Store!EndSave
    <3> QED
      BY <3>2 DEF Store!Next
  <2>8. CASE pc' \notin {"idle", "off"}
    <3>1. StoreSaving' = buf
      BY <2>1, <2>8 DEF StoreSaving
    <3>2. Store!Commit \/ UNCHANGED Store!vars
      BY <2>4, <2>5, <2>6, <3>1 DEF Store!Commit, Store!vars
    <3> QED
      BY <3>2 DEF Store!Next
  <2> QED
    BY <2>7, <2>8
<1>3. CASE \E image \in Image : SaveData(image)
  <2>1. PICK image \in Image : SaveData(image)
    BY <1>3
  <2>2. Stored' = Stored
    BY <2>1 DEF SaveData, Stored, AnyValid, IsValid, ValidBlock
  <2>3. StoreValue' = StoreValue
    BY <1>1, <2>2, SameValue
  <2>4. StoreSaving = NONE /\ StoreSaving' = image
    BY <2>1 DEF SaveData, Begin, StoreSaving
  <2>5. StoreErasing = FALSE /\ StoreErasing' = FALSE
    BY <2>1 DEF SaveData, Begin, StoreErasing
  <2>6. Store!BeginSave(image)
    BY <2>3, <2>4, <2>5 DEF Store!BeginSave
  <2> QED
    BY <2>6 DEF Store!Next
<1>4. CASE EraseFlashBlock
  <2>1. Stored' = Stored
    BY <1>4 DEF EraseFlashBlock, Stored, AnyValid, IsValid, ValidBlock
  <2>2. StoreValue' = StoreValue
    BY <1>1, <2>1, SameValue
  <2>3. StoreSaving = NONE /\ StoreSaving' = NONE
    <3>1. pc = "idle" \/ op # "save"
      BY <1>4 DEF EraseFlashBlock, IInv, InitInv
    <3> QED
      BY <1>4, <3>1 DEF EraseFlashBlock, Begin, StoreSaving
  <2>4. StoreErasing = FALSE /\ StoreErasing' = TRUE
    BY <1>4 DEF EraseFlashBlock, Begin, StoreErasing
  <2>5. Store!BeginErase
    BY <2>2, <2>3, <2>4 DEF Store!BeginErase
  <2> QED
    BY <2>5 DEF Store!Next
<1>5. CASE pc \in {"bootErase", "clear1", "clear2"} /\ (Command \/ PowerFail)
  <2>1. op \in {"init", "erase"} /\ op' = op /\ (pc = "bootErase" => op = "init")
    BY <1>5 DEF IInv, InitInv, Command, PowerFail, BootErase, ClearBlock1, ClearBlock2, ProgramData,
       ProgramCodeLo, ProgramCodeHi, ZeroOldLo, ZeroOldHi, ReErase, EraseOld, EraseOldAgain, call
  <2>2. StoreSaving = NONE /\ StoreSaving' = NONE
    BY <2>1 DEF StoreSaving
  <2>3. CASE op = "init"
    <3>1. Stored' = Stored /\ StoreErasing' = StoreErasing
      <4>1. before' = before
        BY <1>5 DEF Command, PowerFail, BootErase, ClearBlock1, ClearBlock2, ProgramData,
           ProgramCodeLo, ProgramCodeHi, ZeroOldLo, ZeroOldHi, ReErase, EraseOld, EraseOldAgain, call
      <4> QED
        BY <2>1, <2>3, <4>1 DEF IInv, InitInv, StoreErasing
    <3>2. UNCHANGED Store!vars
      BY <1>1, <2>2, <3>1, SameValue DEF Store!vars
    <3> QED
      BY <3>2
  <2>4. CASE op = "erase"
    <3>1. StoreErasing = TRUE /\ StoreErasing' \in BOOLEAN
      BY <1>5, <2>1, <2>4 DEF StoreErasing
    <3>2. Store!Erase
      BY <2>2, <3>1, ValueType DEF Store!Erase
    <3> QED
      BY <3>2 DEF Store!Next
  <2> QED
    BY <2>1, <2>3, <2>4
<1>6. CASE PowerOn \/ InitFlash \/ UNCHANGED vars \/ (pc \in {"boot", "idle"} /\ PowerFail)
  <2>1. flash' = flash
    BY <1>6 DEF PowerOn, InitFlash, PowerFail, vars
  <2>2. StoreValue' = StoreValue
    BY <1>1, <2>1, SameValue DEF Stored, AnyValid, IsValid, ValidBlock
  <2>3. StoreSaving' = StoreSaving /\ StoreErasing' = StoreErasing
    BY <1>6 DEF PowerOn, InitFlash, PowerFail, Begin, vars, IInv, InitInv, StoreSaving, StoreErasing
  <2> QED
    BY <2>2, <2>3 DEF Store!vars
<1>7. Command => pc \in SavePc \cup {"bootErase", "clear1", "clear2"}
  BY DEF Command, BootErase, ClearBlock1, ClearBlock2, ProgramData,
     ProgramCodeLo, ProgramCodeHi, ZeroOldLo, ZeroOldHi, ReErase, EraseOld, EraseOldAgain, SavePc
<1>8. PowerFail => pc \in SavePc \cup {"bootErase", "clear1", "clear2", "boot", "idle"}
  BY DEF PowerFail, SavePc
<1> QED
  BY <1>2, <1>3, <1>4, <1>5, <1>6, <1>7, <1>8 DEF Next

(* The two blocks behave as one cell that a save replaces at one instant or *)
(* not at all, whatever command the power or the chip fails at, and that    *)
(* never goes back to what it held before the instant                       *)
(* (FlashControl::SaveData, WriteValidCode).                                *)
THEOREM ItIsAStore ==
  ASSUME FewFaults
  PROVE  Spec => ImplementsStore
<1>1. Init => Store!Init
  <2> SUFFICES ASSUME Init PROVE Store!Init
    OBVIOUS
  <2>1. ~AnyValid
    BY Basics DEF Init, AnyValid, IsValid, HasCode, Erased
  <2>2. StoreValue = NONE /\ StoreSaving = NONE /\ StoreErasing = FALSE
    BY <2>1 DEF Init, StoreValue, StoreSaving, StoreErasing, Damaged, Stored
  <2> QED
    BY <2>2 DEF Store!Init
<1>2. IInv /\ [Next]_vars => IInv'
  BY Inductive
<1>3. IInv /\ IInv' /\ [Next]_vars => [Store!Next]_(Store!vars)
  BY StoreStep
<1> QED
  BY <1>1, <1>2, <1>3, InitStep, PTL DEF Spec, ImplementsStore, Store!Spec

-----------------------------------------------------------------------------
(* What a call returns is so.  Without a chip failure a try after the       *)
(* re-erase meets no stuck word, and so is the last; the erases do what     *)
(* they should.                                                             *)
Half == RetryCnt \div 2

ReturnInv ==
  /\ pc \in {"program", "codeLo", "codeHi", "oldLo", "oldHi"} /\ faults = 0 /\ try > Half =>
       /\ ~Stuck(flash, wblock, buf)
       /\ pc = "codeHi" => flash[wblock][CodeLo] = "code"
  /\ pc = "oldHi" /\ faults = 0 => flash[NextBlock(wblock)][CodeLo] = "zero"
  /\ pc = "eraseOld2" => faults > 0
  /\ pc = "clear2" /\ op = "erase" /\ faults = 0 => ~HasCode(flash[Block1])
  /\ ReturnIsTrue

LEMMA HalfFits == RetryCnt >= 3 => Half \in Nat /\ Half + 1 < RetryCnt
BY ConstantsAssumption DEF Half

(* A word that is not stuck is right after a command without a failure.     *)
LEMMA WordIsRight ==
  ASSUME TypeOK, NEW b \in Block, NEW a \in Addr, NEW ok \in BOOLEAN,
         NEW y \in Val \cup {"code"}, ProgramWord(b, a, y, ok), faults' = 0,
         flash[b][a] \in {"erased", y}
  PROVE  ok /\ flash'[b][a] = y /\ faults = 0
<1>1. Programmed(flash[b][a], y) = y
  BY DEF Programmed
<1>2. flash \in FlashType /\ faults \in Nat
  BY ConstantsAssumption DEF TypeOK, FlashType
<1> QED
  BY <1>1, <1>2 DEF ProgramWord, FlashType

LEMMA StaysFree ==
  ASSUME IInv, pc \in SavePc, NEW ok \in BOOLEAN, faults' = 0, ~Stuck(flash, wblock, buf),
         NEW a \in Addr, NEW y \in Val \cup {"code"}, ProgramWord(wblock, a, y, ok),
         (a \in DataAddr /\ y = buf[a]) \/ (a \in {CodeLo, CodeHi} /\ y = "code")
  PROVE  ok /\ flash'[wblock][a] = y /\ ~Stuck(flash', wblock, buf) /\ faults = 0
<1>1. y \in Cell /\ TypeOK
  BY Basics, InSave DEF Marks
<1>2. flash[wblock][a] \in {"erased", y}
  BY InSave DEF Stuck
<1>3. ok /\ flash'[wblock][a] = y /\ faults = 0
  BY <1>1, <1>2, InSave, WordIsRight
<1>4. WordEffect(flash, flash', wblock, a, y)
  BY <1>1, InSave, ProgramWordEffect
<1>5. ~Stuck(flash', wblock, buf)
  BY <1>2, <1>3, <1>4, Basics DEF WordEffect, Stuck
<1> QED
  BY <1>3, <1>5

LEMMA NextTryReturns ==
  ASSUME RetryCnt >= 3, IInv, pc \in SavePc, NextTry, UNCHANGED call,
         faults' \in 0 .. MaxFaults,
         faults' = 0 => try + 1 < RetryCnt,
         faults' = 0 /\ try + 1 > Half => ~Stuck(flash', wblock, buf)
  PROVE  ReturnInv'
<1>1. op' = "save" /\ buf' = buf
  BY InSave DEF call
<1>2. CASE try + 1 < RetryCnt
  BY <1>1, <1>2 DEF NextTry, ReturnInv, ReturnIsTrue, AcknowledgedIsStored, FailureNeedsFault, EraseClears
<1>3. CASE ~(try + 1 < RetryCnt)
  <2>1. pc' = "idle" /\ ret' = FALSE /\ faults' > 0
    BY <1>3, ConstantsAssumption DEF NextTry, Return
  <2> QED
    BY <1>1, <2>1 DEF ReturnInv, ReturnIsTrue, AcknowledgedIsStored, FailureNeedsFault, EraseClears
<1> QED
  BY <1>2, <1>3

LEMMA TryFailedReturns ==
  ASSUME RetryCnt >= 3, IInv, pc \in SavePc, TryFailed, UNCHANGED call,
         faults' \in 0 .. MaxFaults, faults' = 0 => try <= Half
  PROVE  ReturnInv'
<1>1. op' = "save" /\ try \in Nat /\ Half \in Nat
  BY InSave, HalfFits DEF call, TypeOK
<1>2. CASE try = Half
  BY <1>1, <1>2 DEF Half, TryFailed, ReturnInv, ReturnIsTrue, AcknowledgedIsStored, FailureNeedsFault,
     EraseClears
<1>3. CASE try # Half
  <2>1. NextTry /\ (faults' = 0 => try < Half)
    BY <1>1, <1>3 DEF Half, TryFailed
  <2>2. faults' = 0 => try + 1 < RetryCnt /\ ~(try + 1 > Half)
    BY <1>1, <2>1, HalfFits, ConstantsAssumption
  <2> QED
    BY <2>1, <2>2, NextTryReturns
<1> QED
  BY <1>2, <1>3

(* A step to the next command.                                              *)
LEMMA GotoReturns ==
  ASSUME IInv, pc \in SavePc, NEW label \in SavePc, pc' = label, op' = op,
         UNCHANGED <<wblock, try, buf>>,
         faults' = 0 /\ try > Half =>
           /\ ~Stuck(flash', wblock, buf) \/ label \in {"eraseOld1", "eraseOld2"}
           /\ label = "codeHi" => flash'[wblock][CodeLo] = "code",
         label = "oldHi" /\ faults' = 0 => flash'[NextBlock(wblock)][CodeLo] = "zero",
         label = "eraseOld2" => faults' > 0
  PROVE  ReturnInv'
<1>1. op' = "save"
  BY InSave
<1> QED
  BY <1>1 DEF ReturnInv, ReturnIsTrue, AcknowledgedIsStored, FailureNeedsFault, EraseClears, SavePc, NextBlock

LEMMA ProgramDataReturns ==
  ASSUME RetryCnt >= 3, IInv, ReturnInv, ProgramData
  PROVE  ReturnInv'
<1>1. pc = "program" /\ pc \in SavePc /\ UNCHANGED call
  BY DEF ProgramData, SavePc
<1>2. PICK ok \in BOOLEAN :
        /\ ProgramWord(wblock, addr, buf[addr], ok)
        /\ \/ ~ok /\ TryFailed
           \/ ok /\ addr < Start + NWords - 1 /\ addr' = addr + 1
              /\ UNCHANGED <<pc, wblock, try, ret>>
           \/ ok /\ addr = Start + NWords - 1 /\ Goto("codeLo")
  BY DEF ProgramData
<1>3. faults' \in 0 .. MaxFaults
  BY <1>1, <1>2, InSave, ProgramWordType
<1>4. faults' = 0 => faults = 0
  BY <1>1, <1>2, InSave, ConstantsAssumption DEF ProgramWord
<1>5. faults' = 0 /\ try > Half => ok /\ ~Stuck(flash', wblock, buf)
  <2>1. ProgramWord(wblock, addr, buf[addr], ok) /\ addr \in Addr /\ addr \in DataAddr
        /\ buf[addr] \in Val \cup {"code"}
    BY <1>1, <1>2, InSave
  <2>2. faults' = 0 /\ try > Half => ~Stuck(flash, wblock, buf)
    BY <1>1, <1>4 DEF ReturnInv
  <2> QED
    BY <1>1, <2>1, <2>2, StaysFree
<1>6. try \in Nat /\ (RetryCnt >= 3 => Half \in Nat)
  BY <1>1, InSave, HalfFits DEF TypeOK
<1>7. CASE ~ok /\ TryFailed
  BY <1>1, <1>3, <1>5, <1>6, <1>7, TryFailedReturns
<1>8. CASE ok /\ UNCHANGED <<pc, wblock, try>>
  BY <1>1, <1>5, <1>8, GotoReturns DEF call
<1>9. CASE ok /\ Goto("codeLo")
  BY <1>1, <1>5, <1>9, GotoReturns DEF call, Goto, locals, SavePc
<1> QED
  BY <1>2, <1>7, <1>8, <1>9

LEMMA ProgramCodeReturns ==
  ASSUME RetryCnt >= 3, IInv, ReturnInv, ProgramCodeLo \/ ProgramCodeHi
  PROVE  ReturnInv'
<1>1. pc \in {"codeLo", "codeHi"} /\ pc \in SavePc /\ UNCHANGED call
  BY DEF ProgramCodeLo, ProgramCodeHi, SavePc
<1>2. PICK a \in {CodeLo, CodeHi}, ok \in BOOLEAN :
        ProgramWord(wblock, a, "code", ok) /\ a = (IF pc = "codeLo" THEN CodeLo ELSE CodeHi)
  BY DEF ProgramCodeLo, ProgramCodeHi
<1>3. faults' \in 0 .. MaxFaults /\ WordEffect(flash, flash', wblock, a, "code")
  BY <1>1, <1>2, InSave, Basics, ProgramWordType, ProgramWordEffect
<1>4. faults' = 0 => faults = 0
  BY <1>1, <1>2, InSave, ConstantsAssumption DEF ProgramWord
<1>5. faults' = 0 /\ try > Half => flash'[wblock][a] = "code" /\ ~Stuck(flash', wblock, buf)
  BY <1>1, <1>2, <1>4, InSave, Basics, StaysFree DEF ReturnInv
<1>6. try \in Nat /\ (RetryCnt >= 3 => Half \in Nat)
  BY <1>1, InSave, HalfFits DEF TypeOK
<1>7. CASE pc = "codeLo"
  BY <1>1, <1>2, <1>5, <1>7, GotoReturns DEF ProgramCodeLo, ProgramCodeHi, call, Goto, locals, SavePc
<1>8. CASE pc = "codeHi" /\ HasCode(flash'[wblock])
  BY <1>1, <1>2, <1>5, <1>8, GotoReturns DEF ProgramCodeLo, ProgramCodeHi, call, Goto, locals, SavePc
<1>9. CASE pc = "codeHi" /\ ~HasCode(flash'[wblock])
  <2>1. TryFailed
    BY <1>9 DEF ProgramCodeLo, ProgramCodeHi
  <2>2. a = CodeHi /\ flash'[wblock][CodeLo] = flash[wblock][CodeLo]
    BY <1>2, <1>3, <1>9, Basics DEF WordEffect, CodeLo, CodeHi
  <2>3. ~(faults' = 0 /\ try > Half)
    BY <1>4, <1>5, <1>9, <2>2 DEF HasCode, ReturnInv
  <2> QED
    BY <1>1, <1>3, <1>6, <2>1, <2>3, TryFailedReturns
<1> QED
  BY <1>1, <1>7, <1>8, <1>9

LEMMA ZeroOldReturns ==
  ASSUME RetryCnt >= 3, IInv, ReturnInv, ZeroOldLo \/ ZeroOldHi
  PROVE  ReturnInv'
<1>1. pc \in {"oldLo", "oldHi"} /\ pc \in SavePc /\ UNCHANGED call
  BY DEF ZeroOldLo, ZeroOldHi, SavePc
<1>2. PICK a \in {CodeLo, CodeHi}, ok \in BOOLEAN :
        /\ ProgramWord(NextBlock(wblock), a, "zero", ok)
        /\ a = (IF pc = "oldLo" THEN CodeLo ELSE CodeHi)
  BY DEF ZeroOldLo, ZeroOldHi
<1>3. /\ faults' \in 0 .. MaxFaults
      /\ WordEffect(flash, flash', NextBlock(wblock), a, "zero")
  BY <1>1, <1>2, InSave, Basics, ProgramWordType, ProgramWordEffect
<1>4. /\ faults' = 0 => faults = 0 /\ flash'[NextBlock(wblock)][a] = "zero"
      /\ flash'[wblock] = flash[wblock]
  <2>1. flash'[NextBlock(wblock)][a] = "zero" \/ faults' = faults + 1
    BY <1>1, <1>2, InSave, Basics, ZeroWordCost
  <2>2. faults' \in {faults, faults + 1} /\ faults \in Nat
    BY <1>1, <1>2, InSave, Basics, ZeroWordCost, ConstantsAssumption
  <2>3. flash'[wblock] = flash[wblock]
    BY <1>1, <1>3, InSave, BlocksType DEF WordEffect
  <2> QED
    BY <2>1, <2>2, <2>3
<1>5. faults' = 0 /\ try > Half => ~Stuck(flash', wblock, buf)
  BY <1>1, <1>4 DEF ReturnInv, Stuck
<1>6. CASE pc = "oldLo"
  BY <1>1, <1>2, <1>4, <1>5, <1>6, GotoReturns DEF ZeroOldLo, ZeroOldHi, call, Goto, locals, SavePc
<1>7. CASE pc = "oldHi" /\ IsZeroed(flash'[NextBlock(wblock)])
  BY <1>1, <1>7, GotoReturns DEF ZeroOldLo, ZeroOldHi, call, Goto, locals, SavePc
<1>8. CASE pc = "oldHi" /\ ~IsZeroed(flash'[NextBlock(wblock)])
  <2>1. TryFailed
    BY <1>8 DEF ZeroOldLo, ZeroOldHi
  <2>2. a = CodeHi /\ flash'[NextBlock(wblock)][CodeLo] = flash[NextBlock(wblock)][CodeLo]
    BY <1>2, <1>3, <1>8, Basics DEF WordEffect, CodeLo, CodeHi
  <2>3. faults' # 0
    BY <1>4, <1>8, <2>2 DEF IsZeroed, ReturnInv
  <2> QED
    BY <1>1, <1>3, <2>1, <2>3, TryFailedReturns
<1> QED
  BY <1>1, <1>6, <1>7, <1>8

LEMMA ReErased ==
  ASSUME TypeOK, NEW b \in Block, NEW ok \in BOOLEAN, EraseBlock(b, ok)
  PROVE  /\ ok => flash'[b] = Erased
         /\ ~ok => faults' > 0
         /\ faults' = 0 => faults = 0 /\ flash'[b] = Erased
<1>1. flash \in FlashType /\ faults \in Nat
  BY ConstantsAssumption DEF TypeOK, FlashType
<1> QED
  BY <1>1 DEF EraseBlock, FlashType

LEMMA ReEraseReturns ==
  ASSUME RetryCnt >= 3, IInv, ReturnInv, ReErase
  PROVE  ReturnInv'
<1>1. pc = "reErase" /\ pc \in SavePc /\ UNCHANGED call /\ NextTry
  BY DEF ReErase, SavePc
<1>2. PICK ok \in BOOLEAN : EraseBlock(wblock, ok)
  BY DEF ReErase
<1>3. try = Half /\ faults' \in 0 .. MaxFaults
  BY <1>1, <1>2, InSave, EraseBlockType DEF SaveInv, Half
<1>4. faults' = 0 => flash'[wblock] = Erased
  BY <1>1, <1>2, InSave, ReErased
<1>5. faults' = 0 => ~Stuck(flash', wblock, buf)
  BY <1>4, Basics DEF Stuck, Erased
<1> QED
  BY <1>1, <1>3, <1>5, HalfFits, NextTryReturns

(* The end of SaveData.                                                     *)
LEMMA EraseOldReturns ==
  ASSUME IInv, ReturnInv, EraseOld \/ EraseOldAgain
  PROVE  ReturnInv'
<1>1. pc \in {"eraseOld1", "eraseOld2"} /\ pc \in SavePc /\ UNCHANGED call
  BY DEF EraseOld, EraseOldAgain, SavePc
<1>2. PICK ok \in BOOLEAN :
        /\ EraseBlock(NextBlock(wblock), ok)
        /\ Return(ok) \/ (~ok /\ Goto("eraseOld2"))
  <2>1. CASE EraseOld
    <3>1. PICK ok \in BOOLEAN : /\ EraseBlock(NextBlock(wblock), ok)
                                /\ IF ok THEN Return(TRUE) ELSE Goto("eraseOld2")
      BY <2>1 DEF EraseOld
    <3>2. ok => ok = TRUE
      BY Zenon
    <3> QED
      BY <3>1, <3>2
  <2>2. CASE EraseOldAgain
    BY <2>2 DEF EraseOldAgain
  <2> QED
    BY <2>1, <2>2
<1>3. /\ ok => flash'[NextBlock(wblock)] = Erased
      /\ ~ok => faults' > 0
  BY <1>1, <1>2, InSave, ReErased
<1>4. CASE Return(ok)
  <2>1. pc' = "idle" /\ (ret' <=> ok) /\ op' = "save" /\ buf' = buf
    BY <1>1, <1>4, InSave DEF Return, call
  <2>2. ok => Stored' = buf /\ flash'[NextBlock(ValidBlock')] = Erased
    <3>1. SUFFICES ASSUME ok PROVE Stored' = buf /\ flash'[NextBlock(ValidBlock')] = Erased
      OBVIOUS
    <3>2. EraseEffect(flash, flash', NextBlock(wblock))
      BY <1>1, <1>2, InSave, EraseBlockEffect
    <3>3. NewThere(flash', wblock, buf)
      BY <1>1, <3>2, InSave, EraseOldKeeps DEF SaveInv
    <3>4. wblock \in Block /\ ValidBlock' = wblock
      BY <1>1, <3>3, InSave DEF NewThere, Complete, ValidBlock, IsValid, NextBlock, Block, Block1, Block2
    <3> QED
      BY <1>3, <3>1, <3>3, <3>4, NewIsStored, StoredIs
  <2> QED
    BY <1>3, <2>1, <2>2 DEF ReturnInv, ReturnIsTrue, AcknowledgedIsStored, FailureNeedsFault, EraseClears,
       NextBlock
<1>5. CASE ~ok /\ Goto("eraseOld2")
  BY <1>1, <1>3, <1>5, GotoReturns DEF Goto, locals, call, SavePc
<1> QED
  BY <1>2, <1>4, <1>5

(* EraseFlashBlock, and the erases of Init.                                 *)
LEMMA ClearReturns ==
  ASSUME IInv, ReturnInv, BootErase \/ ClearBlock1 \/ ClearBlock2
  PROVE  ReturnInv'
<1>1. TypeOK /\ op' = op /\ op \in {"init", "erase"} /\ (pc = "bootErase" => op = "init")
  BY DEF IInv, InitInv, BootErase, ClearBlock1, ClearBlock2, call
<1>2. ~HasCode(Erased) /\ Block1 \in Block /\ Block2 \in Block /\ Block1 # Block2
  BY Basics DEF HasCode, Erased, Block, Block1, Block2
<1>3. CASE BootErase
  BY <1>1, <1>3 DEF BootErase, ReturnInv, ReturnIsTrue, AcknowledgedIsStored, FailureNeedsFault, EraseClears
<1>4. CASE ClearBlock1
  <2>1. PICK ok \in BOOLEAN : EraseBlock(Block1, ok)
    BY <1>4 DEF ClearBlock1
  <2>2. faults' = 0 => ~HasCode(flash'[Block1])
    BY <1>1, <1>2, <2>1, ReErased
  <2> QED
    BY <1>1, <1>4, <2>2 DEF ClearBlock1, ReturnInv, ReturnIsTrue, AcknowledgedIsStored, FailureNeedsFault,
       EraseClears
<1>5. CASE ClearBlock2
  <2>1. PICK ok \in BOOLEAN : EraseBlock(Block2, ok)
    BY <1>5 DEF ClearBlock2
  <2>2. faults' = 0 => faults = 0 /\ ~HasCode(flash'[Block2])
    BY <1>1, <1>2, <2>1, ReErased
  <2>3. flash'[Block1] = flash[Block1]
    <3>1. flash \in FlashType /\ faults \in 0 .. MaxFaults
      BY <1>1 DEF TypeOK, FlashType
    <3> QED
      BY <1>2, <2>1, <3>1, EraseBlockEffect DEF EraseEffect
  <2>4. faults' = 0 /\ op = "erase" => Stored' = NONE
    BY <1>5, <2>2, <2>3, StoredIs DEF ClearBlock2, ReturnInv, StoredIn
  <2>5. pc' \in {"boot", "idle"}
    BY <1>1, <1>5 DEF ClearBlock2, TypeOK
  <2> QED
    BY <1>1, <2>4, <2>5 DEF ReturnInv, ReturnIsTrue, AcknowledgedIsStored, FailureNeedsFault, EraseClears
<1> QED
  BY <1>3, <1>4, <1>5

LEMMA NextReturns ==
  ASSUME RetryCnt >= 3, IInv, ReturnInv, [Next]_vars
  PROVE  ReturnInv'
<1>1. CASE Command
  BY <1>1, ProgramDataReturns, ProgramCodeReturns, ZeroOldReturns, ReEraseReturns, EraseOldReturns,
     ClearReturns DEF Command
<1>2. CASE PowerOn \/ InitFlash \/ EraseFlashBlock \/ PowerFail
  <2>1. pc' \in {"off", "boot", "bootErase", "clear1"} /\ (pc' = "boot" => op' = "init")
    BY <1>2 DEF PowerOn, InitFlash, EraseFlashBlock, PowerFail, Begin
  <2> QED
    BY <2>1 DEF ReturnInv, ReturnIsTrue, AcknowledgedIsStored, FailureNeedsFault, EraseClears
<1>3. CASE \E image \in Image : SaveData(image)
  <2>1. pc' = "program" /\ try' = 0 /\ ~(0 > Half)
    BY <1>3, HalfFits DEF SaveData
  <2> QED
    BY <2>1 DEF ReturnInv, ReturnIsTrue, AcknowledgedIsStored, FailureNeedsFault, EraseClears
<1>4. CASE UNCHANGED vars
  BY <1>4 DEF vars, ReturnInv, ReturnIsTrue, AcknowledgedIsStored, FailureNeedsFault, EraseClears, Stored,
     AnyValid, IsValid, ValidBlock, Stuck, NextBlock
<1> QED
  BY <1>1, <1>2, <1>3, <1>4 DEF Next

(* SaveData returns true only when its data is what reading returns and the *)
(* other block is ready for the next save; it returns false, and            *)
(* EraseFlashBlock leaves something to read, only if the chip failed during *)
(* that very call (FlashControl.cpp:205-230, :302).  A try has to be left   *)
(* after the re-erase.                                                      *)
THEOREM ReturnsAreTrue ==
  ASSUME FewFaults, RetryCnt >= 3
  PROVE  Spec => []ReturnIsTrue
<1>1. Init => ReturnInv
  BY DEF Init, ReturnInv, ReturnIsTrue, AcknowledgedIsStored, FailureNeedsFault, EraseClears
<1>2. IInv /\ [Next]_vars => IInv'
  BY Inductive
<1>3. IInv /\ ReturnInv /\ [Next]_vars => ReturnInv'
  BY NextReturns
<1>4. ReturnInv => ReturnIsTrue
  BY DEF ReturnInv
<1> QED
  BY <1>1, <1>2, <1>3, <1>4, InitStep, PTL DEF Spec

=============================================================================
