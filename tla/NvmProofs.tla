------------------------------ MODULE NvmProofs ------------------------------
(***************************************************************************)
(* Theorems about Nvm, for any words, sizes and pages: type correctness;   *)
(* for variables that fit in one page (LastPage = 0), that a good copy is  *)
(* kept whenever the other one is touched, and that the two roms implement *)
(* one disk.  With two pages both are false: see NvmPages.cfg.             *)
(***************************************************************************)
EXTENDS Nvm, TLAPS

(* What Program, ErasePage and Torn leave is a rom of words. *)
LEMMA ImageType == TypeOK => Image \in [Cell -> Word]
  BY NvmAssumption DEF TypeOK, Image, Images, Data, Cell, MAGIC, SIZE

LEMMA AfterType ==
  ASSUME NEW c \in Cell, NEW f \in BOOLEAN PROVE After(c, f) \in Cell
  BY NvmAssumption DEF After, Cell, MAGIC, SIZE

LEMMA ProgramType ==
  ASSUME TypeOK, NEW r \in {1, 2}, Program(r), k \in Cell
  PROVE  rom' \in [{1, 2} -> [Cell -> Word]]
  BY ImageType DEF TypeOK, Program

LEMMA EraseType ==
  ASSUME TypeOK, NEW r \in {1, 2},
         rom' = [rom EXCEPT ![r] = [c \in Cell |-> IF Page[c] = k THEN Blank ELSE @[c]]]
  PROVE  rom' \in [{1, 2} -> [Cell -> Word]]
  BY NvmAssumption DEF TypeOK

LEMMA TornType ==
  ASSUME TypeOK, NEW r \in {1, 2}, Torn(r), k \in Cell
  PROVE  rom' \in [{1, 2} -> [Cell -> Word]]
  BY DEF TypeOK, Torn

LEMMA Bounds == 0 \in 0 .. LastPage /\ SIZE \in Cell /\ MAGIC \in Cell /\ Data \subseteq Cell
  BY NvmAssumption DEF Cell, SIZE, MAGIC, Data

LEMMA ReadType ==
  ASSUME TypeOK, NEW r \in {1, 2} PROVE Read(r) \in Images
  BY Bounds DEF TypeOK, Read, Images

(* Every function and every loss of power keeps the types. *)
LEMMA TypeStep == TypeOK /\ [Next]_vars => TypeOK'
<1> SUFFICES ASSUME TypeOK, [Next]_vars PROVE TypeOK'
  OBVIOUS
<1> USE Bounds, NvmAssumption
<1>1. CASE InitRom1
  BY <1>1, ReadType DEF InitRom1, Goto, TypeOK
<1>2. CASE InitJunk
  BY <1>2 DEF InitJunk, Goto, TypeOK
<1>3. CASE InitDrop
  BY <1>3, EraseType DEF InitDrop, ErasePage, Goto, TypeOK
<1>4. CASE InitRom2
  BY <1>4, ReadType DEF InitRom2, Goto, TypeOK
<1>5. CASE SaveRom1
  <2>1. k \in Cell
    BY <1>5 DEF SaveRom1, TypeOK
  <2>2. rom' \in [{1, 2} -> [Cell -> Word]]
    BY <1>5, <2>1, ProgramType DEF SaveRom1, Write
  <2> QED BY <1>5, <2>1, <2>2, AfterType DEF SaveRom1, Write, Goto, TypeOK
<1>6. CASE EraseRom2
  BY <1>6, EraseType DEF EraseRom2, ErasePage, Goto, TypeOK
<1>7. CASE WriteRom2
  <2>1. k \in Cell
    BY <1>7 DEF WriteRom2, TypeOK
  <2>2. rom' \in [{1, 2} -> [Cell -> Word]]
    BY <1>7, <2>1, ProgramType DEF WriteRom2, Write
  <2> QED BY <1>7, <2>1, <2>2, AfterType DEF WriteRom2, Write, Goto, TypeOK
<1>8. CASE EraseRom1
  <2>1. rom' \in [{1, 2} -> [Cell -> Word]] /\ null' \in BOOLEAN
    BY <1>8, EraseType DEF EraseRom1, ErasePage, TypeOK
  <2>2. CASE k = LastPage
    BY <1>8, <2>1, <2>2 DEF EraseRom1, ErasePage, Goto, TypeOK
  <2>3. CASE k # LastPage
    BY <1>8, <2>1, <2>3 DEF EraseRom1, ErasePage, Goto, TypeOK
  <2> QED BY <2>2, <2>3
<1>9. CASE Edit
  BY <1>9 DEF Edit, TypeOK
<1>10. CASE Call
  BY <1>10 DEF Call, Goto, TypeOK
<1>11. CASE PowerOff
  <2>1. rom' \in [{1, 2} -> [Cell -> Word]]
    <3>1. CASE pc = "write1"
      BY <1>11, <3>1, TornType DEF PowerOff, TypeOK
    <3>2. CASE pc = "write2"
      BY <1>11, <3>2, TornType DEF PowerOff, TypeOK
    <3>3. CASE pc \notin {"write1", "write2"}
      BY <1>11, <3>3 DEF PowerOff, TypeOK
    <3> QED BY <3>1, <3>2, <3>3
  <2> QED BY <1>11, <2>1 DEF PowerOff, Goto, TypeOK
<1>12. CASE PowerOn
  BY <1>12 DEF PowerOn, Goto, TypeOK
<1>13. CASE UNCHANGED vars
  BY <1>13 DEF vars, TypeOK
<1> QED BY <1>1, <1>2, <1>3, <1>4, <1>5, <1>6, <1>7, <1>8, <1>9, <1>10, <1>11, <1>12, <1>13
        DEF Next, Step

LEMMA TypeInit == Init => TypeOK
<1> SUFFICES ASSUME Init PROVE TypeOK
  OBVIOUS
<1>1. rom \in [{1, 2} -> [Cell -> Word]]
  BY NvmAssumption DEF Init
<1> QED BY <1>1, Bounds DEF Init, TypeOK

(* The roms, the variables and the place in nvm.c keep their types, and no *)
(* function writes or erases beyond a rom, for any number of pages.        *)
THEOREM TypeCorrect == Spec => []TypeOK
  BY TypeInit, TypeStep, PTL DEF Spec

-----------------------------------------------------------------------------
OnePage == LastPage = 0

(* A rom is blank, an image, or the beginning of one: the words *)
(* before k in the order of the writes.                                    *)
BlankRom == [c \in Cell |-> Blank]
Before(c) == IF k = MAGIC THEN c # MAGIC ELSE c # MAGIC /\ c < k
Begun(r) == \A c \in Cell : rom[r][c] = IF Before(c) THEN Image[c] ELSE Blank

(* Which function is where. *)
Control ==
    /\ pc = "none" <=> op \in {"off", "idle"}
    /\ pc \in {"rom1", "drop1", "rom2"} => op = "init"
    /\ pc = "write1" => op = "save"
    /\ pc = "write2" => op \in {"init", "save"}

(* OtherCorrect says nothing of what nvm_init finds.  Junk in rom 1 is     *)
(* seen by its size, and rom 1 is blank when the program runs.             *)
IInv ==
    /\ TypeOK /\ Control
    /\ rom[1][SIZE] = Blank => rom[1] = BlankRom
    /\ op \in {"idle", "clear"} \/ pc = "rom2" => rom[1] = BlankRom
    /\ pc = "drop1" => ~Good(1)
    /\ pc = "write1" => Begun(1)
    /\ pc = "write2" => Begun(2)
    /\ pc = "erase1" => IF op = "clear" THEN rom[2] = BlankRom ELSE rom[1] = Image
    /\ OtherCorrect

(* An erase of the only page leaves a blank rom. *)
LEMMA EraseWhole ==
  ASSUME LastPage = 0, TypeOK, NEW r \in {1, 2}, k \in 0 .. LastPage,
         rom' = [rom EXCEPT ![r] = [c \in Cell |-> IF Page[c] = k THEN Blank ELSE @[c]]]
  PROVE  rom' = [rom EXCEPT ![r] = BlankRom]
<1>1. \A c \in Cell : Page[c] = k
  BY NvmAssumption
<1> QED BY <1>1 DEF BlankRom, TypeOK

(* The word that was due is written, and the next one is due. *)
LEMMA ProgramDue ==
  ASSUME TypeOK, NEW r \in {1, 2}, k \in Cell, Begun(r), Program(r)
  PROVE  rom[r][k] = Blank /\ rom' = [rom EXCEPT ![r] = [@ EXCEPT ![k] = Image[k]]]
<1>1. ~Before(k)
  BY NvmAssumption DEF Before, Cell, MAGIC
<1> QED BY <1>1 DEF Begun, Program

LEMMA ProgramNext ==
  ASSUME TypeOK, NEW r \in {1, 2}, k \in Cell, k # MAGIC, Begun(r), Program(r),
         k' = After(k, rom[r][k] # Blank), UNCHANGED ram
  PROVE  Begun(r)'
<1>1. rom[r][k] = Blank /\ rom' = [rom EXCEPT ![r] = [@ EXCEPT ![k] = Image[k]]]
  BY ProgramDue
<1>2. k' = IF k = NData + 1 THEN 0 ELSE k + 1
  BY <1>1 DEF After, MAGIC, SIZE
<1>3. \A c \in Cell : Before(c)' <=> Before(c) \/ c = k
  BY <1>2, NvmAssumption DEF Before, Cell, MAGIC
<1>4. Image' = Image
  BY DEF Image
<1>5. \A c \in Cell : rom'[r][c] = IF c = k THEN Image[k] ELSE rom[r][c]
  BY <1>1 DEF TypeOK
<1>6. ASSUME NEW c \in Cell PROVE rom'[r][c] = IF Before(c)' THEN Image'[c] ELSE Blank
  <2>1. rom[r][c] = IF Before(c) THEN Image[c] ELSE Blank
    BY DEF Begun
  <2> QED BY <1>3, <1>4, <1>5, <2>1
<1> QED BY <1>6 DEF Begun

LEMMA ProgramLast ==
  ASSUME TypeOK, NEW r \in {1, 2}, k = MAGIC, Begun(r), Program(r)
  PROVE  rom' = [rom EXCEPT ![r] = Image]
<1>1. k \in Cell
  BY Bounds
<1>2. rom' = [rom EXCEPT ![r] = [@ EXCEPT ![k] = Image[k]]]
  BY <1>1, ProgramDue
<1>3. \A c \in Cell : c # MAGIC => rom[r][c] = Image[c]
  BY DEF Begun, Before
<1>4. rom[r] \in [Cell -> Word] /\ Image \in [Cell -> Word]
  BY ImageType DEF TypeOK
<1>5. [rom[r] EXCEPT ![k] = Image[k]] = Image
  BY <1>1, <1>3, <1>4
<1> QED BY <1>2, <1>5 DEF TypeOK

(* Nothing of a blank rom is behind SIZE, where the writes begin. *)
LEMMA BegunBlank ==
  ASSUME TypeOK, NEW r \in {1, 2}, rom[r] = BlankRom, k = SIZE PROVE Begun(r)
  BY NvmAssumption DEF Begun, Before, BlankRom, Cell, SIZE, MAGIC

LEMMA ImageGood ==
  ASSUME TypeOK PROVE Image[MAGIC] = NvmMagic /\ Image[SIZE] = SzRam /\ Image[SIZE] # Blank
  BY Bounds, NvmAssumption DEF Image, MAGIC, SIZE

(* A copy that is good is the image of the variables read from it. *)
LEMMA GoodImage ==
  ASSUME TypeOK, Good(1), ram' = Read(1) PROVE rom[1] = Image'
<1>1. rom[1] \in [Cell -> Word]
  BY DEF TypeOK
<1>2. \A c \in Cell : rom[1][c] = Image'[c]
  BY NvmAssumption DEF Good, Read, Image, Cell, Data, MAGIC, SIZE
<1>3. Image' = [c \in Cell |-> Image'[c]]
  BY DEF Image
<1> QED BY <1>1, <1>2, <1>3

LEMMA InitIInv == Init => IInv
<1> SUFFICES ASSUME Init PROVE IInv
  OBVIOUS
<1>1. TypeOK
  BY TypeInit
<1>2. rom[1] = BlankRom /\ pc = "none" /\ op = "off"
  BY DEF Init, BlankRom
<1> QED BY <1>1, <1>2 DEF IInv, Control, OtherCorrect

LEMMA NextIInv == OnePage /\ IInv /\ [Next]_vars => IInv'
<1> SUFFICES ASSUME LastPage = 0, IInv, [Next]_vars PROVE IInv'
  BY DEF OnePage
<1>t. TypeOK /\ TypeOK' /\ rom \in [{1, 2} -> [Cell -> Word]]
  BY TypeStep DEF IInv, TypeOK
<1>b. BlankRom[SIZE] = Blank /\ BlankRom[MAGIC] = Blank /\ NvmMagic # Blank
  BY Bounds, NvmAssumption DEF BlankRom
<1>1. CASE InitRom1
  <2>1. rom[1] = Image'
    BY <1>1, <1>t, GoodImage DEF InitRom1
  <2> QED BY <1>1, <1>t, <2>1 DEF InitRom1, Goto, IInv, Control, OtherCorrect
<1>2. CASE InitJunk
  BY <1>2, <1>t DEF InitJunk, Goto, IInv, Control, OtherCorrect, Good
<1>3. CASE InitDrop
  <2>1. rom' = [rom EXCEPT ![1] = BlankRom]
    BY <1>3, <1>t, EraseWhole DEF InitDrop, ErasePage, TypeOK
  <2>2. pc' = "rom2" /\ op' = "init"
    BY <1>3, <1>t DEF InitDrop, ErasePage, Goto, TypeOK, IInv, Control
  <2> QED BY <1>t, <2>1, <2>2 DEF IInv, Control, OtherCorrect
<1>4. CASE InitRom2
  BY <1>4, <1>t DEF InitRom2, Goto, IInv, Control, OtherCorrect
<1>5. CASE SaveRom1
  <2>1. k \in Cell /\ Begun(1) /\ Program(1) /\ op = "save"
    BY <1>5, <1>t DEF SaveRom1, Write, IInv, Control, TypeOK
  <2>2. CASE k = MAGIC
    <3>1. rom' = [rom EXCEPT ![1] = Image] /\ Image' = Image
      BY <1>5, <1>t, <2>1, <2>2, ProgramLast DEF SaveRom1, Image
    <3>2. pc' = "erase2" /\ op' = "save"
      BY <1>5, <2>1, <2>2 DEF SaveRom1, Write, Goto
    <3> QED BY <1>t, <3>1, <3>2, ImageGood DEF IInv, Control, OtherCorrect
  <2>3. CASE k # MAGIC
    <3>1. Begun(1)'
      BY <1>5, <1>t, <2>1, <2>3, ProgramNext DEF SaveRom1, Write
    <3>2. rom' = [rom EXCEPT ![1] = [@ EXCEPT ![k] = Image[k]]] /\ rom[1][k] = Blank
      BY <1>t, <2>1, ProgramDue
    <3>3. rom'[1][SIZE] # Blank
      <4>1. CASE k = SIZE
        BY <1>t, <3>2, <4>1, Bounds, ImageGood
      <4>2. CASE k # SIZE
        <5>1. rom[1][SIZE] = Image[SIZE]
          BY <2>1, <2>3, <4>2, Bounds, NvmAssumption DEF Begun, Before, Cell, SIZE, MAGIC
        <5> QED BY <1>t, <3>2, <4>2, <5>1, Bounds, ImageGood
      <4> QED BY <4>1, <4>2
    <3>4. pc' = "write1" /\ op' = "save"
      BY <1>5, <2>1, <2>3 DEF SaveRom1, Write
    <3> QED BY <1>t, <3>1, <3>3, <3>4 DEF IInv, Control, OtherCorrect
  <2> QED BY <2>2, <2>3
<1>6. CASE EraseRom2
  <2>1. rom' = [rom EXCEPT ![2] = BlankRom] /\ Image' = Image
    BY <1>6, <1>t, EraseWhole DEF EraseRom2, ErasePage, TypeOK, Image
  <2>2. CASE op = "clear"
    <3>1. pc' = "erase1" /\ op' = "clear"
      BY <1>6, <1>t, <2>2 DEF EraseRom2, ErasePage, Goto, TypeOK
    <3> QED BY <1>t, <2>1, <2>2, <3>1 DEF IInv, Control, OtherCorrect
  <2>3. CASE op # "clear"
    <3>1. pc' = "write2" /\ op' = op /\ k' = SIZE /\ op \in {"init", "save"}
      BY <1>6, <1>t, <2>3 DEF EraseRom2, ErasePage, Goto, TypeOK, IInv, Control
    <3>2. Begun(2)'
      BY <1>t, <2>1, <3>1, NvmAssumption DEF Begun, Before, BlankRom, Cell, SIZE, MAGIC
    <3>3. rom'[1] = Image'
      BY <1>6, <1>t, <2>1, <2>3 DEF EraseRom2, IInv, OtherCorrect
    <3> QED BY <1>t, <2>1, <3>1, <3>2, <3>3, <1>6 DEF EraseRom2, IInv, Control, OtherCorrect
  <2> QED BY <2>2, <2>3
<1>7. CASE WriteRom2
  <2>1. k \in Cell /\ Begun(2) /\ Program(2) /\ op \in {"init", "save"} /\ rom[1] = Image
    BY <1>7, <1>t DEF WriteRom2, Write, IInv, Control, OtherCorrect, TypeOK
  <2>2. Image' = Image /\ op' = op
    BY <1>7 DEF WriteRom2, Image
  <2>3. CASE k = MAGIC
    <3>1. rom' = [rom EXCEPT ![2] = Image]
      BY <1>t, <2>1, <2>3, ProgramLast
    <3>2. pc' = "erase1"
      BY <1>7, <2>3 DEF WriteRom2, Write, Goto
    <3> QED BY <1>t, <2>1, <2>2, <3>1, <3>2, ImageGood DEF IInv, Control, OtherCorrect
  <2>4. CASE k # MAGIC
    <3>1. Begun(2)'
      BY <1>7, <1>t, <2>1, <2>4, ProgramNext DEF WriteRom2, Write
    <3>2. rom'[1] = rom[1]
      BY <1>t, <2>1 DEF Program
    <3>3. pc' = "write2"
      BY <1>7, <2>4 DEF WriteRom2, Write
    <3> QED BY <1>t, <2>1, <2>2, <3>1, <3>2, <3>3 DEF IInv, Control, OtherCorrect
  <2> QED BY <2>3, <2>4
<1>8. CASE EraseRom1
  <2>1. rom' = [rom EXCEPT ![1] = BlankRom]
    BY <1>8, <1>t, EraseWhole DEF EraseRom1, ErasePage, TypeOK
  <2>2. pc' = "none" /\ op' = "idle"
    BY <1>8, <1>t DEF EraseRom1, ErasePage, Goto, TypeOK
  <2> QED BY <1>t, <2>1, <2>2 DEF IInv, Control, OtherCorrect
<1>9. CASE Edit
  BY <1>9, <1>t DEF Edit, IInv, Control, OtherCorrect
<1>10. CASE Call
  <2>1. pc' = "write1" => Begun(1)'
    BY <1>10, <1>t, NvmAssumption
       DEF Call, Goto, IInv, Begun, Before, BlankRom, Cell, SIZE, MAGIC
  <2> QED BY <1>10, <1>t, <2>1 DEF Call, Goto, IInv, Control, OtherCorrect
<1>11. CASE PowerOff
  <2>1. rom'[1][SIZE] = Blank => rom'[1] = BlankRom
    <3>1. CASE pc = "write1"
      <4>1. k \in Cell /\ Begun(1)
        BY <1>t, <3>1 DEF IInv, TypeOK
      <4>2. PICK w \in Word :
               rom' = IF rom[1][k] = Blank THEN [rom EXCEPT ![1] = [@ EXCEPT ![k] = w]] ELSE rom
        BY <1>11, <3>1 DEF PowerOff, Torn
      <4>3. CASE k = SIZE
        <5>1. rom[1] = BlankRom
          <6>1. \A c \in Cell : rom[1][c] = Blank
            BY <4>1, <4>3, NvmAssumption DEF Begun, Before, Cell, SIZE, MAGIC
          <6> QED BY <1>t, <6>1 DEF BlankRom
        <5> QED BY <1>t, <4>1, <4>2, <4>3, <5>1 DEF BlankRom
      <4>4. CASE k # SIZE
        <5>1. rom[1][SIZE] = Image[SIZE]
          BY <4>1, <4>4, Bounds, NvmAssumption DEF Begun, Before, Cell, SIZE, MAGIC
        <5> QED BY <1>t, <4>1, <4>2, <4>4, <5>1, Bounds, ImageGood
      <4> QED BY <4>3, <4>4
    <3>2. CASE pc = "write2"
      BY <1>11, <1>t, <3>2 DEF PowerOff, Torn, IInv
    <3>3. CASE pc \notin {"write1", "write2"}
      BY <1>11, <3>3 DEF PowerOff, IInv
    <3> QED BY <3>1, <3>2, <3>3
  <2> QED BY <1>11, <1>t, <2>1 DEF PowerOff, Goto, IInv, Control, OtherCorrect
<1>12. CASE PowerOn
  BY <1>12, <1>t DEF PowerOn, Goto, IInv, Control, OtherCorrect
<1>13. CASE UNCHANGED vars
  BY <1>13, <1>t DEF vars, IInv, Control, OtherCorrect, Good, Begun, Before, Image
<1> QED BY <1>1, <1>2, <1>3, <1>4, <1>5, <1>6, <1>7, <1>8, <1>9, <1>10, <1>11, <1>12, <1>13
        DEF Next, Step

(* At every step of nvm.c, with the power failing anywhere, the place in    *)
(* the function tells which copy is whole and how far the other one is.     *)
THEOREM Inductive == OnePage /\ Spec => []IInv
<1> SUFFICES ASSUME OnePage PROVE Spec => []IInv
  OBVIOUS
<1>1. IInv /\ [Next]_vars => IInv'
  BY NextIInv
<1> QED BY InitIInv, <1>1, PTL DEF Spec

(* "The other rom contains correct data before erase operation" (nvm.c:5), *)
(* whenever and however often the power fails, for variables that fit in   *)
(* one page.                                                               *)
THEOREM OtherRomCorrect == OnePage /\ Spec => []OtherCorrect
<1>1. IInv => OtherCorrect
  BY DEF IInv
<1> QED BY <1>1, Inductive, PTL

-----------------------------------------------------------------------------
(* The two roms as one disk. *)

LEMMA ImageRead ==
  ASSUME TypeOK, NEW r \in {1, 2}, rom[r] = Image PROVE Good(r) /\ Read(r) = ram
<1>1. Good(r)
  BY ImageGood DEF Good
<1>2. \A c \in Data : Image[c] = ram[c]
  BY NvmAssumption DEF Image, Cell, Data, MAGIC, SIZE
<1>3. Read(r) = [c \in Data |-> ram[c]]
  BY <1>2 DEF Read
<1> QED BY <1>1, <1>3 DEF TypeOK, Images

LEMMA ImageReadNext ==
  ASSUME TypeOK', NEW r \in {1, 2}, (rom[r] = Image)' PROVE Good(r)' /\ Read(r)' = ram'
<1>1. Image'[MAGIC] = NvmMagic /\ Image'[SIZE] = SzRam
  BY Bounds, NvmAssumption DEF Image, MAGIC, SIZE
<1>2. \A c \in Data : Image'[c] = ram'[c]
  BY NvmAssumption DEF Image, Cell, Data, MAGIC, SIZE
<1>3. Read(r)' = [c \in Data |-> ram'[c]]
  BY <1>2 DEF Read
<1> QED BY <1>1, <1>3 DEF TypeOK, Images, Good

LEMMA BlankBad ==
  ASSUME NEW r \in {1, 2}, rom[r] = BlankRom PROVE ~Good(r)
  BY Bounds, NvmAssumption DEF Good, BlankRom

(* A rom whose writes have begun and not ended is not good. *)
LEMMA BegunBad ==
  ASSUME NEW r \in {1, 2}, Begun(r) PROVE ~Good(r)
<1>1. rom[r][MAGIC] = Blank
  BY Bounds DEF Begun, Before
<1> QED BY <1>1, NvmAssumption DEF Good

LEMMA StoreInit == Init => Store!Init
<1> SUFFICES ASSUME Init PROVE Store!Init
  OBVIOUS
<1>1. rom[1] = BlankRom /\ rom[2] = BlankRom
  BY DEF Init, BlankRom
<1>2. Disk = {}
  BY <1>1, BlankBad DEF Disk
<1> QED BY <1>2 DEF Init, Store!Init

LEMMA StoreNext ==
  ASSUME OnePage, IInv, IInv', [Next]_vars PROVE [Store!Next]_(Store!vars)
<1>t. TypeOK /\ TypeOK' /\ rom \in [{1, 2} -> [Cell -> Word]]
  BY DEF IInv, TypeOK
<1>l. LastPage = 0
  BY DEF OnePage
<1> USE DEF Store!Next, Store!vars
<1>1. CASE InitRom1
  <2>1. Store!Fetch
    BY <1>1, <1>t DEF InitRom1, Goto, Store!Fetch, Disk, Good, Read, TypeOK, IInv, Control
  <2> QED BY <2>1
<1>2. CASE InitJunk
  BY <1>2 DEF InitJunk, Goto, Disk, Good, Read
<1>3. CASE InitDrop
  <2>1. ~Good(1) /\ ~Good(1)'
    <3>1. rom' = [rom EXCEPT ![1] = BlankRom]
      BY <1>3, <1>t, <1>l, EraseWhole DEF InitDrop, ErasePage, TypeOK
    <3>2. ~Good(1)'
      BY <1>t, <3>1, Bounds, NvmAssumption DEF Good, BlankRom
    <3> QED BY <1>3, <3>2 DEF InitDrop, IInv
  <2>2. rom'[2] = rom[2]
    BY <1>3, <1>t DEF InitDrop, ErasePage
  <2>3. Disk' = Disk
    BY <2>1, <2>2 DEF Disk, Good, Read
  <2> QED BY <1>3, <2>3 DEF InitDrop
<1>4. CASE InitRom2
  <2>1. ~Good(1) /\ op = "init"
    BY <1>4, BlankBad DEF InitRom2, IInv, Control
  <2>2. Disk = IF Good(2) THEN {Read(2)} ELSE {}
    BY <2>1 DEF Disk
  <2>3. Disk' = Disk
    BY <1>4 DEF InitRom2, Disk, Good, Read
  <2>4. Store!Load
    BY <1>4, <1>t, <2>1, <2>2, <2>3 DEF InitRom2, Goto, Store!Load, TypeOK
  <2> QED BY <2>4
<1>5. CASE SaveRom1
  <2>1. op = "save" /\ op' = "save" /\ Begun(1) /\ ~Good(1)
    BY <1>5, BegunBad DEF SaveRom1, IInv, Control
  <2>2. CASE k = MAGIC
    <3>1. rom'[1] = Image'
      BY <1>5, <2>1, <2>2 DEF SaveRom1, Write, Goto, IInv, OtherCorrect
    <3>2. Good(1)' /\ Read(1)' = ram'
      BY <1>t, <3>1, ImageRead, ImageReadNext
    <3>3. Store!Commit
      BY <1>5, <2>1, <3>2 DEF SaveRom1, Disk, Store!Commit
    <3> QED BY <3>3
  <2>3. CASE k # MAGIC
    <3>1. ~Good(1)' /\ rom'[2] = rom[2]
      BY <1>5, <1>t, <2>1, <2>3, NvmAssumption, Bounds
         DEF SaveRom1, Write, Program, Good, Begun, Before
    <3>2. Disk' = Disk
      BY <2>1, <3>1 DEF Disk, Good, Read
    <3> QED BY <1>5, <2>1, <3>2 DEF SaveRom1
  <2> QED BY <2>2, <2>3
<1>6. CASE EraseRom2
  <2>1. rom'[1] = rom[1]
    BY <1>6, <1>t DEF EraseRom2, ErasePage
  <2>2. CASE op = "clear"
    <3>1. pc' = "erase1" /\ op' = "clear"
      BY <1>6, <1>t, <1>l, <2>2 DEF EraseRom2, ErasePage, Goto, TypeOK
    <3>2. rom'[1] = BlankRom /\ rom'[2] = BlankRom
      BY <3>1 DEF IInv
    <3>3. Disk' = {}
      BY <3>2, Bounds, NvmAssumption DEF Disk, Good, BlankRom
    <3>4. Store!Erase
      BY <1>6, <2>2, <3>1, <3>3 DEF EraseRom2, Store!Erase
    <3> QED BY <3>4
  <2>3. CASE op # "clear"
    <3>1. Good(1)
      BY <1>6, <1>t, <2>3, ImageRead DEF EraseRom2, IInv, OtherCorrect
    <3>2. Disk' = Disk
      BY <2>1, <3>1 DEF Disk, Good, Read
    <3> QED BY <1>6, <3>2 DEF EraseRom2
  <2> QED BY <2>2, <2>3
<1>7. CASE WriteRom2
  <2>1. Good(1) /\ rom'[1] = rom[1]
    BY <1>7, <1>t, ImageRead DEF WriteRom2, Write, Program, IInv, Control, OtherCorrect
  <2>2. Disk' = Disk
    BY <2>1 DEF Disk, Good, Read
  <2> QED BY <1>7, <2>2 DEF WriteRom2
<1>8. CASE EraseRom1
  <2>1. op' = "idle" /\ rom'[2] = rom[2] /\ ram' = ram
    BY <1>8, <1>t, <1>l DEF EraseRom1, ErasePage, TypeOK
  <2>2. ~Good(1)'
    BY <2>1, Bounds, NvmAssumption DEF IInv, Good, BlankRom
  <2>3. CASE op = "clear"
    <3>1. ~Good(1) /\ ~Good(2)
      BY <1>8, <2>3, BlankBad DEF EraseRom1, IInv
    <3>2. Disk = {} /\ Disk' = {}
      BY <2>1, <2>2, <3>1 DEF Disk, Good
    <3>3. Store!Finish
      BY <1>8, <2>1, <2>3, <3>2 DEF EraseRom1, Store!Finish
    <3> QED BY <3>3
  <2>4. CASE op # "clear"
    <3>1. Disk = {ram}
      BY <1>8, <1>t, <2>4, ImageRead DEF EraseRom1, IInv, Disk
    <3>2. Good(2) /\ Read(2) = ram /\ Good(2)' /\ Read(2)' = Read(2)
      <4>1. rom[2] = Image
        BY <1>8, <2>4 DEF EraseRom1, IInv, OtherCorrect
      <4> QED BY <1>t, <2>1, <4>1, ImageRead DEF Good, Read
    <3>3. Disk' = {ram}
      BY <2>2, <3>2 DEF Disk
    <3>4. CASE op = "init"
      <4>1. Store!Load
        BY <1>8, <1>t, <1>l, <2>1, <3>1, <3>3, <3>4 DEF EraseRom1, ErasePage, Store!Load, TypeOK
      <4> QED BY <4>1
    <3>5. CASE op = "save"
      <4>1. Store!Finish
        BY <1>8, <1>t, <1>l, <2>1, <3>1, <3>3, <3>5 DEF EraseRom1, ErasePage, Store!Finish, TypeOK
      <4> QED BY <4>1
    <3> QED BY <1>8, <1>t, <2>4, <3>4, <3>5 DEF EraseRom1, TypeOK, IInv, Control
  <2> QED BY <2>3, <2>4
<1>9. CASE Edit
  <2>1. Store!Edit
    BY <1>9 DEF Edit, Store!Edit, Disk, Good, Read
  <2> QED BY <2>1
<1>10. CASE Call
  <2>1. Store!Start
    BY <1>10 DEF Call, Store!Start, Disk, Good, Read
  <2> QED BY <2>1
<1>11. CASE PowerOff
  <2>1. Disk' \in {Disk} \cup (IF op = "save" THEN {{ram}} ELSE {})
    <3>1. CASE pc = "write1"
      <4>1. k \in Cell /\ Begun(1) /\ ~Good(1) /\ op = "save"
        BY <1>t, <3>1, BegunBad DEF IInv, Control, TypeOK
      <4>2. PICK w \in Word : rom' = [rom EXCEPT ![1] = [@ EXCEPT ![k] = w]] \/ rom' = rom
        BY <1>11, <3>1 DEF PowerOff, Torn
      <4>3. rom'[2] = rom[2]
        BY <1>t, <4>2
      <4>4. CASE ~Good(1)'
        BY <4>1, <4>3, <4>4 DEF Disk, Good, Read
      <4>5. CASE Good(1)'
        <5>1. k = MAGIC
          BY <1>t, <4>1, <4>2, <4>5, NvmAssumption, Bounds DEF Good, Begun, Before
        <5>2. \A c \in Data : rom'[1][c] = ram[c]
          BY <1>t, <4>1, <4>2, <5>1, NvmAssumption
             DEF Begun, Before, Image, Cell, Data, MAGIC, SIZE
        <5>3. Read(1)' = ram
          BY <1>t, <5>2 DEF Read, TypeOK, Images
        <5> QED BY <4>1, <4>5, <5>3 DEF Disk
      <4> QED BY <4>4, <4>5
    <3>2. CASE pc = "write2"
      <4>1. Good(1)
        BY <1>t, <3>2, ImageRead DEF IInv, OtherCorrect, Control
      <4>2. rom'[1] = rom[1]
        BY <1>11, <1>t, <3>2 DEF PowerOff, Torn
      <4> QED BY <4>1, <4>2 DEF Disk, Good, Read
    <3>3. CASE pc \notin {"write1", "write2"}
      BY <1>11, <3>3 DEF PowerOff, Disk, Good, Read
    <3> QED BY <3>1, <3>2, <3>3
  <2>2. Store!PowerFail
    BY <1>11, <2>1 DEF PowerOff, Store!PowerFail
  <2> QED BY <2>2
<1>12. CASE PowerOn
  <2>1. Store!Fetch
    BY <1>12 DEF PowerOn, Store!Fetch, Disk, Good, Read
  <2> QED BY <2>1
<1>13. CASE UNCHANGED vars
  BY <1>13 DEF vars, Disk, Good, Read
<1> QED BY <1>1, <1>2, <1>3, <1>4, <1>5, <1>6, <1>7, <1>8, <1>9, <1>10, <1>11, <1>12, <1>13
        DEF Next, Step

(* Programs may rely on one disk whose image is replaced at one moment of  *)
(* nvm_save and survives any loss of power, while it fits in one page.     *)
THEOREM TwoRomsOneDisk == OnePage /\ Spec => ImplementsStore
<1> SUFFICES ASSUME OnePage PROVE Spec => ImplementsStore
  OBVIOUS
<1>1. IInv /\ IInv' /\ [Next]_vars => [Store!Next]_(Store!vars)
  BY StoreNext
<1> QED BY <1>1, StoreInit, Inductive, PTL DEF Spec, ImplementsStore, Store!Spec
=============================================================================
