--------------------------- MODULE SinkNodeProof ---------------------------
(***************************************************************************)
(* A restart of the sink loads what was saved (RestartLoadsSaved), for every  *)
(* configuration, width of a byte and place of the reset; every variable of   *)
(* the sink keeps its type (TypeOK); and a byte lost on its serial line costs *)
(* the message it is lost from (OneLossOneMessage).                          *)
(***************************************************************************)
EXTENDS NeighboursProof, SerialLineProof, FiniteSetTheorems

Fields == {Field[i] : i \in 1..6}

Saving ==
  cell # 0 => /\ power = "on" /\ ~torn /\ set # Nothing /\ config = set
              /\ cell > 1 => eeprom[0] = TAG
              /\ \A i \in 1..6 : i < cell - 1 => eeprom[i] = set[Field[i]]
Saved ==
  (cell = 0 /\ ~torn /\ set # Nothing)
    => /\ eeprom[0] = TAG
       /\ \A i \in 1..6 : eeprom[i] = set[Field[i]]
       /\ eeprom[7] = CheckValue(set)
NeverSaved == set = Nothing => eeprom[0] # TAG /\ ~torn /\ previous = Nothing
OldChecksum ==
  (cell # 0 \/ torn) /\ previous # Nothing => eeprom[7] = CheckValue(previous)
ConfigShape ==
  /\ config \in Config /\ set \in Config \cup {Nothing}
  /\ DOMAIN eeprom = 0..7 /\ \A i \in 1..6 : eeprom[i] \in 0..BYTE - 1
  /\ cell \in 0..8

ConfigInv == ConfigShape /\ Saving /\ Saved /\ NeverSaved /\ OldChecksum

\* The cells are numbered as the fields are.
LEMMA FieldFacts ==
  /\ Len(Field) = 6 /\ DOMAIN Field = 1..6 /\ Checksum = 7
  /\ \A i, j \in 1..6 : Field[i] = Field[j] => i = j
PROOF BY DEF Field, Checksum

\* A configuration gives every field a byte.
LEMMA ConfigIsFunction == Config = [Fields -> 0..BYTE - 1]
PROOF BY FieldFacts DEF Config, Fields

\* What LoadCONFIG reads is a configuration, and is c when the cells hold c.
LEMMA CopyIsConfig ==
  ASSUME ConfigShape
  PROVE  /\ Copy \in Config
         /\ \A c \in Config : (\A i \in 1..6 : eeprom[i] = c[Field[i]]) => Copy = c
<1> DEFINE Cell(f) == CHOOSE i \in DOMAIN Field : Field[i] = f
<1>1. \A f \in Fields : Cell(f) \in 1..6 /\ Field[Cell(f)] = f
  BY FieldFacts DEF Fields
<1>2. Copy = [f \in Fields |-> eeprom[Cell(f)]]
  BY ConfigIsFunction DEF Copy, ConfigShape
<1> HIDE DEF Cell
<1>3. Copy \in Config
  BY <1>1, <1>2, ConfigIsFunction DEF ConfigShape
<1>4. ASSUME NEW c \in Config, \A i \in 1..6 : eeprom[i] = c[Field[i]]
      PROVE  Copy = c
  <2>1. \A f \in Fields : eeprom[Cell(f)] = c[f]
    BY <1>1, <1>4
  <2> QED
    BY <1>2, <2>1, ConfigIsFunction
<1> QED
  BY <1>3, <1>4

\* A new node: the EEPROM was never written.
LEMMA ConfigStarts == Init => ConfigInv
<1> SUFFICES ASSUME Init PROVE ConfigInv
  OBVIOUS
<1>1. Blank # TAG /\ Blank \in 0..BYTE - 1
  BY ConfigAssumption DEF TAG, Blank
<1>2. /\ config = Sketch /\ eeprom = [i \in 0..7 |-> Blank]
      /\ cell = 0 /\ set = Nothing /\ previous = Nothing /\ torn = FALSE
  BY FieldFacts DEF Init, ConfigInit
<1>3. ConfigShape
  BY <1>1, <1>2, ConfigAssumption DEF ConfigShape
<1>4. NeverSaved
  BY <1>1, <1>2 DEF NeverSaved
<1> QED
  BY <1>2, <1>3, <1>4 DEF ConfigInv, Saving, Saved, OldChecksum

\* Both the configuration of a node that has forgotten and what begin makes of a
\* loaded one are configurations.
LEMMA BegunIsConfig ==
  /\ Forgotten \in Config /\ \A c \in Config : Begun(c) \in Config
<1>1. 0 \in 0..BYTE - 1
  BY ConfigAssumption DEF TAG, Blank
<1>2. \A c \in Config, f \in {"dataupload_interval", "broadcastInterval"},
         v \in 0..BYTE - 1 : [c EXCEPT ![f] = v] \in Config
  BY ConfigIsFunction
<1>3. Forgotten \in Config
  BY <1>1, <1>2, ConfigAssumption DEF Forgotten
<1> QED
  BY <1>1, <1>2, <1>3 DEF Begun

\* SaveCONFIG begins, of a node that was not saving.
LEMMA SaveBegins ==
  ASSUME ConfigInv, cell = 0, power' = "on",
         NEW c \in Config, config' = c, SaveCONFIG(c)
  PROVE  ConfigInv'
<1>1. c # Nothing /\ eeprom' = eeprom /\ cell' = 1 /\ set' = c /\ torn' = FALSE
  BY ConfigAssumption DEF SaveCONFIG
<1>2. ConfigShape'
  BY <1>1 DEF ConfigInv, ConfigShape
<1>3. Saving'
  BY <1>1 DEF Saving
<1>4. OldChecksum'
  BY <1>1 DEF ConfigInv, OldChecksum, Saved, SaveCONFIG, ConfigShape
<1> QED
  BY <1>1, <1>2, <1>3, <1>4 DEF ConfigInv, Saved, NeverSaved

\* A step of SaveCONFIG: the invariant moves on by one cell.
LEMMA SaveGoesOn ==
  ASSUME ConfigInv, WriteCell, power' = power
  PROVE  ConfigInv'
<1> DEFINE v == IF cell = 1 THEN TAG
                ELSE IF cell - 1 = 7 THEN CheckValue(config)
                ELSE config[Field[cell - 1]]
<1>1. /\ cell # 0 /\ cell \in 1..8 /\ set # Nothing /\ config = set /\ set \in Config
      /\ eeprom' = [eeprom EXCEPT ![cell - 1] = v]
      /\ cell' = IF cell = 8 THEN 0 ELSE cell + 1
      /\ config' = config /\ set' = set /\ previous' = previous /\ torn' = torn
      /\ ~torn /\ power = "on"
  BY FieldFacts DEF WriteCell, ConfigInv, ConfigShape, Saving
<1>2. \A f \in Fields : config[f] \in 0..BYTE - 1
  BY <1>1, ConfigIsFunction
<1>3. \A i \in 0..7 : eeprom'[i] = IF i = cell - 1 THEN v ELSE eeprom[i]
  BY <1>1 DEF ConfigInv, ConfigShape
<1>4. cell \in 2..7 => v = set[Field[cell - 1]] /\ v \in 0..BYTE - 1
  BY <1>1, <1>2 DEF Fields
<1>5. cell = 1 => v = TAG
  OBVIOUS
<1>6. cell = 8 => v = CheckValue(set)
  BY <1>1
<1> HIDE DEF v
<1>7. ConfigShape'
  BY <1>1, <1>3, <1>4 DEF ConfigInv, ConfigShape
<1>8. Saving'
  BY <1>1, <1>3, <1>4, <1>5 DEF ConfigInv, ConfigShape, Saving
<1>9. Saved'
  BY <1>1, <1>3, <1>4, <1>5, <1>6 DEF ConfigInv, ConfigShape, Saving, Saved
<1>10. NeverSaved'
  BY <1>1 DEF NeverSaved
<1>11. OldChecksum'
  BY <1>1, <1>3 DEF ConfigInv, ConfigShape, OldChecksum
<1> QED
  BY <1>7, <1>8, <1>9, <1>10, <1>11 DEF ConfigInv

\* A step of the configuration's own: whatever else a step of the sink does, it
\* does one of these or leaves the configuration alone.
LEMMA ConfigSteps ==
  ASSUME [Next]_vars
  PROVE  \/ power = "off" /\ power' = "on" /\ Begin
         \/ /\ power = "on" /\ cell = 0
            /\ \/ \E c \in Config : SetConfig(c) /\ power' = power
               \/ \E low \in {0, 1} : SetLowPower(low) /\ power' = power
         \/ WriteCell /\ power' = power
         \/ power' = "off" /\ Forget
         \/ UNCHANGED configvars /\ (power' = power \/ cell = 0)
<1>1. CASE Start
  BY <1>1 DEF Start
<1>2. CASE \E m \in Message : package_recieve(m)
  BY <1>2, SinkAssumption DEF package_recieve, Serving, Idle
<1>3. CASE Computer \/ Poll \/ Return \/ Read \/ Enter \/ Interrupt
  BY <1>3 DEF Computer, Poll, Return, Read, Enter, Interrupt, sinkvars
<1>4. CASE Save
  BY <1>4 DEF Save, sinkvars
<1>5. CASE Reset
  BY <1>5 DEF Reset
<1>6. CASE UNCHANGED vars
  BY <1>6 DEF vars, sinkvars
<1> QED
  BY <1>1, <1>2, <1>3, <1>4, <1>5, <1>6 DEF Next

\* Every step of the sink keeps configuration and EEPROM in step.
LEMMA ConfigKept == ConfigInv /\ [Next]_vars => ConfigInv'
<1> SUFFICES ASSUME ConfigInv, [Next]_vars PROVE ConfigInv'
  OBVIOUS
<1>1. CASE power = "off" /\ power' = "on" /\ Begin
  <2>1. cell = 0
    BY <1>1 DEF ConfigInv, Saving
  <2>2. CASE eeprom[0] # TAG /\ config' = Forgotten /\ SaveCONFIG(Forgotten)
    BY <1>1, <2>1, <2>2, SaveBegins, BegunIsConfig
  <2>3. CASE /\ config' = IF Intact THEN Begun(Copy) ELSE Forgotten
             /\ UNCHANGED <<eeprom, cell, set, previous, torn>>
    <3>1. config' \in Config
      BY <2>3, CopyIsConfig, BegunIsConfig DEF ConfigInv
    <3> QED
      BY <2>1, <2>3, <3>1
      DEF ConfigInv, ConfigShape, Saving, Saved, NeverSaved, OldChecksum
  <2> QED
    BY <1>1, <2>2, <2>3 DEF Begin
<1>2. ASSUME NEW c \in Config, power = "on", cell = 0, SetConfig(c), power' = power
      PROVE  ConfigInv'
  BY <1>2, SaveBegins DEF SetConfig
<1>3. ASSUME NEW low \in {0, 1}, cell = 0, SetLowPower(low)
      PROVE  ConfigInv'
  <2>1. low \in 0..BYTE - 1
    BY ConfigAssumption DEF TAG, Blank
  <2>2. config' \in Config
    BY <1>3, <2>1, ConfigIsFunction DEF SetLowPower, ConfigInv, ConfigShape
  <2> QED
    BY <1>3, <2>2
    DEF SetLowPower, ConfigInv, ConfigShape, Saving, Saved, NeverSaved, OldChecksum
<1>4. CASE WriteCell /\ power' = power
  BY <1>4, SaveGoesOn
<1>5. CASE power' = "off" /\ Forget
  <2>1. /\ config' = Sketch /\ cell' = 0 /\ eeprom' = eeprom /\ set' = set
        /\ previous' = previous
    BY <1>5 DEF Forget
  <2>2. torn' <=> torn \/ cell # 0
    BY <1>5, Zenon DEF Forget
  <2>3. ConfigShape'
    BY <2>1, ConfigAssumption DEF ConfigInv, ConfigShape
  <2>4. NeverSaved'
    BY <2>1, <2>2 DEF ConfigInv, NeverSaved, Saving
  <2> QED
    BY <2>1, <2>2, <2>3, <2>4 DEF ConfigInv, Saving, Saved, OldChecksum
<1>6. CASE UNCHANGED configvars /\ (power' = power \/ cell = 0)
  BY <1>6
  DEF configvars, ConfigInv, ConfigShape, Saving, Saved, NeverSaved, OldChecksum
<1> QED
  BY <1>1, <1>2, <1>3, <1>4, <1>5, <1>6, ConfigSteps

(* While SaveCONFIG runs the cells before the one it writes hold what it saves,  *)
(* once it has run they all do, and until then the checksum is the last one's.   *)
THEOREM ConfigInvariant == Spec => []ConfigInv
PROOF BY ConfigStarts, ConfigKept, PTL DEF Spec

(* A restart loads what was saved last, and falls back on the sketch, or on a   *)
(* mixture with the checksum of the configuration before, only if the saving    *)
(* was cut short.  The steps that could be taken for begin are those that       *)
(* change the configuration alone; none of them is taken while it is saved.     *)
LEMMA BeginLoadsSaved ==
  ASSUME ConfigInv, [Next]_vars, Begin, eeprom[0] = TAG, ~UNCHANGED configvars
  PROVE  IF torn
         THEN \/ config' = Forgotten \/ previous = Nothing
              \/ config' = Begun(Copy) /\ CheckValue(Copy) = CheckValue(previous)
         ELSE config' = Begun(set)
<1>1. /\ config' = IF Intact THEN Begun(Copy) ELSE Forgotten
      /\ UNCHANGED <<eeprom, cell, set, previous, torn>>
  BY DEF Begin
<1>2. cell = 0
  <2>1. ~WriteCell
    BY <1>1 DEF WriteCell, ConfigInv, ConfigShape, Saving
  <2>2. power = "off" => cell = 0
    BY DEF ConfigInv, Saving
  <2>3. Forget => cell = 0
    BY <1>1 DEF Forget
  <2> QED
    BY <2>1, <2>2, <2>3, ConfigSteps
<1>3. CASE torn
  <2>1. CASE Intact /\ previous # Nothing
    BY <1>1, <1>3, <2>1, FieldFacts DEF Intact, ConfigInv, OldChecksum
  <2> QED
    BY <1>1, <1>3, <2>1
<1>4. CASE ~torn
  <2>1. set # Nothing /\ set \in Config
    BY <1>4 DEF ConfigInv, NeverSaved, ConfigShape
  <2>2. Copy = set
    BY <1>2, <1>4, <2>1, CopyIsConfig DEF ConfigInv, Saved
  <2>3. Intact
    BY <1>2, <1>4, <2>1, <2>2, FieldFacts DEF Intact, ConfigInv, Saved
  <2> QED
    BY <1>1, <1>4, <2>2, <2>3
<1> QED
  BY <1>3, <1>4

THEOREM RestartIsFaithful == Spec => RestartLoadsSaved
<1> DEFINE Loads ==
      Begin /\ eeprom[0] = TAG =>
        IF torn
        THEN \/ config' = Forgotten \/ previous = Nothing
             \/ config' = Begun(Copy) /\ CheckValue(Copy) = CheckValue(previous)
        ELSE config' = Begun(set)
<1>1. ConfigInv /\ [Next]_vars => [Loads]_configvars
  BY BeginLoadsSaved
<1> QED
  BY <1>1, ConfigInvariant, PTL DEF Spec, RestartLoadsSaved
-----------------------------------------------------------------------------
(* Sums and sequences, of any number of items: the library defines both by    *)
(* recursion, so that there are such functions has to be shown.               *)

\* The recursion of FoldFunction over c, of which g has every value.
Pick(s) == CHOOSE x \in s : TRUE
SumOf(c, g) ==
  [s \in SUBSET DOMAIN c |-> IF s = {} THEN TAG ELSE c[Pick(s)] + g[s \ {Pick(s)}]]

LEMMA SumUnfolds == \A c : FoldFunction(+, TAG, c) = (CHOOSE g : g = SumOf(c, g))[DOMAIN c]
BY DEF FoldFunction, FoldFunctionOnSet, MapThenFoldSet, Pick, SumOf

(* The recursion ends.                                                        *)
LEMMA SumExists ==
  ASSUME NEW c, IsFiniteSet(DOMAIN c)
  PROVE  \E g : g = SumOf(c, g)
<1> DEFINE D == DOMAIN c
           Step(g, s) == IF s = {} THEN TAG ELSE c[Pick(s)] + g[s \ {Pick(s)}]
           Upto(g, n) == \A s \in SUBSET D : Cardinality(s) <= n => g[s] = Step(g, s)
           I == {n \in Nat : \E g : Upto(g, n)}
<1>1. \A s \in SUBSET D : IsFiniteSet(s) /\ Cardinality(s) \in Nat /\ Cardinality(s) <= Cardinality(D)
  BY FS_Subset, FS_CardinalityType
<1>2. ASSUME NEW s \in SUBSET D, s # {}
      PROVE  s \ {Pick(s)} \in SUBSET D /\ Cardinality(s \ {Pick(s)}) = Cardinality(s) - 1
  <2>1. Pick(s) \in s
    BY <1>2 DEF Pick
  <2> QED
    BY <1>1, <2>1, FS_RemoveElement
<1>3. 0 \in I
  <2>1. \A s \in SUBSET D : Cardinality(s) <= 0 => s = {}
    BY <1>1, FS_EmptySet
  <2>2. PICK g : g = [s \in SUBSET D |-> TAG]
    OBVIOUS
  <2>3. \A s \in SUBSET D : Cardinality(s) <= 0 => g[s] = Step(g, s)
    BY <2>1, <2>2
  <2> QED
    BY <2>3
<1>4. ASSUME NEW n \in Nat, n \in I PROVE n + 1 \in I
  <2>1. PICK g : \A s \in SUBSET D : Cardinality(s) <= n => g[s] = Step(g, s)
    BY <1>4
  <2>2. PICK h : h = [s \in SUBSET D |-> Step(g, s)]
    OBVIOUS
  <2>3. ASSUME NEW s \in SUBSET D, Cardinality(s) <= n + 1 PROVE h[s] = Step(h, s)
    <3>1. CASE s = {}
      BY <2>2, <3>1
    <3>2. CASE s # {}
      <4>1. PICK r : r = s \ {Pick(s)}
        OBVIOUS
      <4>2. r \in SUBSET D /\ Cardinality(r) <= n
        BY <1>1, <1>2, <2>3, <3>2, <4>1
      <4>3. h[r] = g[r]
        BY <2>1, <2>2, <4>2
      <4>4. h[s] = c[Pick(s)] + g[r]
        BY <2>2, <3>2, <4>1
      <4>5. Step(h, s) = c[Pick(s)] + h[r]
        BY <3>2, <4>1
      <4> QED
        BY <4>3, <4>4, <4>5
    <3> QED
      BY <3>1, <3>2
  <2>4. Upto(h, n + 1)
    BY <2>3
  <2> HIDE DEF Upto
  <2> QED
    BY <2>4
<1> HIDE DEF I
<1>5. Cardinality(D) \in I
  BY <1>1, <1>3, <1>4, EveryNat
<1>6. PICK g : \A s \in SUBSET D : g[s] = Step(g, s)
  BY <1>1, <1>5 DEF I
<1>7. PICK h : h = [s \in SUBSET D |-> g[s]]
  OBVIOUS
<1>8. ASSUME NEW s \in SUBSET D PROVE h[s] = Step(h, s)
  <2>1. s \ {Pick(s)} \in SUBSET D
    OBVIOUS
  <2> QED
    BY <1>6, <1>7, <2>1
<1>9. h = [s \in SUBSET D |-> Step(h, s)]
  BY <1>7, <1>8
<1> QED
  BY <1>9 DEF SumOf

(* A sum of numbers is one.                                                   *)
LEMMA SumIsInt ==
  ASSUME NEW c, IsFiniteSet(DOMAIN c), \A x \in DOMAIN c : c[x] \in Int
  PROVE  FoldFunction(+, TAG, c) \in Int
<1> DEFINE D == DOMAIN c
<1>1. PICK g : g = SumOf(c, g) /\ FoldFunction(+, TAG, c) = g[D]
  <2>1. PICK g : g = (CHOOSE h : h = SumOf(c, h))
    OBVIOUS
  <2>2. g = SumOf(c, g)
    BY <2>1, SumExists
  <2> QED
    BY <2>1, <2>2, SumUnfolds
<1>2. \A s \in SUBSET D : g[s] = IF s = {} THEN TAG ELSE c[Pick(s)] + g[s \ {Pick(s)}]
  BY <1>1 DEF SumOf
<1> DEFINE I == {n \in Nat : \A s \in SUBSET D : Cardinality(s) = n => g[s] \in Int}
<1>3. \A s \in SUBSET D : IsFiniteSet(s) /\ Cardinality(s) \in Nat
  BY FS_Subset, FS_CardinalityType
<1>4. 0 \in I
  <2>1. \A s \in SUBSET D : Cardinality(s) = 0 => s = {}
    BY <1>3, FS_EmptySet
  <2>2. g[{}] \in Int
    BY <1>2 DEF TAG
  <2> QED
    BY <2>1, <2>2
<1>5. ASSUME NEW n \in Nat, n \in I PROVE n + 1 \in I
  <2>1. ASSUME NEW s \in SUBSET D, Cardinality(s) = n + 1 PROVE g[s] \in Int
    <3>1. s # {}
      BY <1>3, <2>1, FS_EmptySet
    <3>2. Pick(s) \in s
      BY <3>1 DEF Pick
    <3>3. s \ {Pick(s)} \in SUBSET D /\ Cardinality(s \ {Pick(s)}) = n
      <4>1. IsFiniteSet(s)
        BY <1>3
      <4>2. Cardinality(s \ {Pick(s)}) = Cardinality(s) - 1
        BY <3>2, <4>1, FS_RemoveElement
      <4>3. Cardinality(s) - 1 = n
        BY <2>1
      <4> QED
        BY <4>2, <4>3
    <3>4. g[s \ {Pick(s)}] \in Int
      BY <1>5, <3>3
    <3>5. c[Pick(s)] \in Int
      BY <3>2
    <3>6. g[s] = c[Pick(s)] + g[s \ {Pick(s)}]
      BY <1>2, <3>1
    <3> QED
      BY <3>4, <3>5, <3>6
  <2> QED
    BY <2>1
<1> HIDE DEF I
<1>6. Cardinality(D) \in I
  BY <1>3, <1>4, <1>5, EveryNat
<1> QED
  BY <1>1, <1>3, <1>6 DEF I

-----------------------------------------------------------------------------
-----------------------------------------------------------------------------
(* The types of the rest.                                                   *)

(* A checksum is a byte.                                                      *)
LEMMA CheckValueIsByte ==
  ASSUME NEW c \in Config
  PROVE  CheckValue(c) \in 0..BYTE - 1
<1>1. DOMAIN c = Fields /\ \A f \in Fields : c[f] \in 0..BYTE - 1
  BY ConfigIsFunction
<1>2. IsFiniteSet(Fields)
  <2>1. IsFiniteSet(1..6)
    BY FS_Interval, 1 \in Int, 6 \in Int
  <2>2. PICK image : image = [i \in 1..6 |-> Field[i]]
    OBVIOUS
  <2>3. image \in Surjection(1..6, Fields)
    BY <2>2 DEF Surjection, Fields
  <2> QED
    BY <2>1, <2>3, FS_Surjection
<1>3. \A f \in Fields : c[f] \in Int
  BY <1>1
<1>4. FoldFunction(+, TAG, c) \in Int
  BY <1>1, <1>2, <1>3, SumIsInt
<1>5. BYTE \in Nat \ {0}
  BY ConfigAssumption DEF TAG, Blank
<1>6. \A x \in Int : x % BYTE \in 0..BYTE - 1
  BY <1>5
<1> QED
  BY <1>4, <1>6 DEF CheckValue

\* The cells hold bytes, those of the tag and the checksum too.
Cells ==
  /\ eeprom \in [0..7 -> 0..BYTE - 1]
  /\ previous \in Config \cup {Nothing} /\ torn \in BOOLEAN

(* Whatever is done to the configuration, that remains so.                    *)
LEMMA CellsKept ==
  ASSUME ConfigInv, Cells, [Next]_vars
  PROVE  Cells'
<1>1. cell \in 0..8 /\ config \in Config /\ set \in Config \cup {Nothing}
  BY DEF ConfigInv, ConfigShape
<1>2. ASSUME NEW c, SaveCONFIG(c) PROVE Cells'
  BY <1>1, <1>2 DEF SaveCONFIG, Cells
<1>3. ASSUME UNCHANGED <<eeprom, previous>>, torn' \in BOOLEAN PROVE Cells'
  BY <1>3 DEF Cells
<1>4. CASE Begin
  BY <1>2, <1>3, <1>4 DEF Begin, Cells
<1>5. CASE \E c \in Config : SetConfig(c)
  BY <1>2, <1>5 DEF SetConfig
<1>6. CASE \E low \in {0, 1} : SetLowPower(low)
  BY <1>3, <1>6 DEF SetLowPower, Cells
<1>7. CASE WriteCell
  <2>1. PICK x : /\ eeprom' = [eeprom EXCEPT ![cell - 1] = x]
                 /\ x = IF cell = 1 THEN TAG
                        ELSE IF cell - 1 = Checksum THEN CheckValue(config)
                        ELSE config[Field[cell - 1]]
    BY <1>7 DEF WriteCell
  <2>2. TAG \in 0..BYTE - 1
    BY ConfigAssumption DEF TAG, Blank
  <2>3. CheckValue(config) \in 0..BYTE - 1
    BY <1>1, CheckValueIsByte
  <2>4. ASSUME cell # 1, cell - 1 # Checksum PROVE config[Field[cell - 1]] \in 0..BYTE - 1
    <3>1. cell - 1 \in 1..6
      BY <1>1, <1>7, <2>4, FieldFacts DEF WriteCell
    <3>2. Field[cell - 1] \in Fields
      BY <3>1 DEF Fields
    <3> QED
      BY <1>1, <3>2, ConfigIsFunction
  <2>5. x \in 0..BYTE - 1
    BY <2>1, <2>2, <2>3, <2>4
  <2> QED
    BY <1>7, <2>1, <2>5 DEF WriteCell, Cells
<1>8. CASE Forget
  <2>1. torn' \in BOOLEAN
    BY <1>8, Zenon DEF Forget
  <2> QED
    BY <1>3, <1>8, <2>1 DEF Forget
<1>9. CASE UNCHANGED configvars
  BY <1>3, <1>9 DEF configvars, Cells
<1> QED
  BY <1>4, <1>5, <1>6, <1>7, <1>8, <1>9, ConfigSteps

\* An entry has no signal strength but one of a node.
RssiKnown == \A i \in Slot : neigbour[i].rssi \in {0} \cup {rssi[n] : n \in Neighbour}

(* Whatever is done to the table, that remains so.                            *)
LEMMA RssiKept ==
  ASSUME NbInv, RssiKnown, Ranged, [Next]_vars
  PROVE  RssiKnown'
<1>1. /\ neigbour \in [Slot -> Entry]
      /\ entering # NoEntry => entering.slot \in Slot /\ entering.node \in Neighbour
      /\ entering.placed => entering # NoEntry
  BY DEF NbInv, NbShape, NoEntry
<1>2. CASE neigbour' = neigbour
  BY <1>2 DEF RssiKnown
<1>3. CASE Place
  BY <1>1, <1>3 DEF Place, RssiKnown, Entry
<1>4. CASE FinishHearing
  BY <1>1, <1>4 DEF FinishHearing, RssiKnown, Entry
<1>5. CASE broadcast_neigbour
  <2>1. ASSUME NEW i \in Slot PROVE neigbour'[i].rssi \in {0, neigbour[i].rssi}
    <3>1. neigbour'[i] = Older(neigbour[i])
      BY <1>5 DEF broadcast_neigbour
    <3>2. neigbour[i] \in Entry
      BY <1>1
    <3> QED
      BY <3>1, <3>2 DEF Older, Free, Entry
  <2> QED
    BY <2>1 DEF RssiKnown
<1>6. CASE ForgetNeighbours
  BY <1>6 DEF ForgetNeighbours, RssiKnown, Free
<1> QED
  BY <1>2, <1>3, <1>4, <1>5, <1>6, NbSteps DEF Hear, nbvars

\* What turns the sink off and on.
PowerOK ==
  /\ power \in {"off", "on", "halted"} /\ reading \in BOOLEAN
  /\ setting \in Setting /\ resets \in 0..setting.resets

(* A step of the line's own, or none; and power and resets.                   *)
LEMMA LineSteps ==
  ASSUME LineInv, PowerOK, [Next]_vars
  PROVE  LineInv' /\ PowerOK'
<1>1. ASSUME UNCHANGED linevars PROVE LineInv'
  BY <1>1 DEF linevars, reader, harm, LineInv
<1>2. CASE Start \/ Poll \/ Return \/ Save \/ Enter \/ Interrupt
  BY <1>1, <1>2 DEF Start, Poll, Return, Save, Enter, Interrupt, sinkvars, PowerOK
<1>3. CASE Computer
  BY <1>3, SendKeeps, LossKeeps DEF Computer, sinkvars, PowerOK
<1>4. CASE Read
  BY <1>4, ReadKeeps DEF Read, sinkvars, PowerOK
<1>5. CASE \E m \in Message : package_recieve(m)
  <2>1. LineInv'
    BY <1>5, ReadKeeps DEF package_recieve
  <2>2. PowerOK'
    BY <1>5 DEF package_recieve, PowerOK
  <2> QED
    BY <2>1, <2>2
<1>6. CASE Reset
  <2>1. LineInv'
    BY <1>6, LossKeeps DEF Reset
  <2>2. PowerOK'
    <3>1. setting.resets \in Nat /\ setting' = setting
      BY <1>6, SinkAssumption DEF Reset, PowerOK
    <3>2. reading' \in BOOLEAN /\ power' \in {"off", "on", "halted"}
      BY <1>6 DEF Reset
    <3>3. resets' \in 0..setting.resets
      BY <1>6, <3>1 DEF Reset, PowerOK
    <3> QED
      BY <3>1, <3>2, <3>3 DEF PowerOK
  <2> QED
    BY <2>1, <2>2
<1>7. CASE UNCHANGED vars
  BY <1>1, <1>7 DEF vars, sinkvars, PowerOK
<1> QED
  BY <1>2, <1>3, <1>4, <1>5, <1>6, <1>7 DEF Next

\* Everything together.
SinkInv == ConfigInv /\ Cells /\ NbInv /\ RssiKnown /\ Ranged /\ LineInv /\ PowerOK

(* Every variable of the sink keeps its type: cells and checksum are bytes, the *)
(* index stays within rxserialbuf, and a byte on the line belongs to a message. *)
THEOREM SinkTypes == Spec => []TypeOK
<1>1. Init => SinkInv
  <2> SUFFICES ASSUME Init PROVE SinkInv
    OBVIOUS
  <2>1. Cells
    <3>1. Blank \in 0..BYTE - 1
      BY ConfigAssumption DEF TAG, Blank
    <3> QED
      BY <3>1, FieldFacts DEF Init, ConfigInit, Cells
  <2>2. RssiKnown
    BY DEF Init, NbInit, RssiKnown, Free
  <2>3. Ranged /\ PowerOK
    <3>1. setting \in Setting /\ setting.resets \in Nat
      BY SinkAssumption DEF Init
    <3>2. power \in {"off", "on", "halted"} /\ reading \in BOOLEAN
      BY Zenon DEF Init
    <3>3. resets \in 0..setting.resets
      BY <3>1 DEF Init
    <3> QED
      BY <3>1, <3>2, <3>3, Zenon DEF Ranged, PowerOK
  <2> QED
    BY <2>1, <2>2, <2>3, ConfigStarts, NbStarts, LineStarts DEF Init, SinkInv
<1>2. SinkInv /\ [Next]_vars => SinkInv'
  BY ConfigKept, CellsKept, NbKept, RssiKept, LineSteps DEF SinkInv
<1>3. SinkInv => TypeOK
  <2> SUFFICES ASSUME SinkInv PROVE TypeOK
    OBVIOUS
  <2>1. ConfigTypeOK
    BY FieldFacts DEF SinkInv, Cells, ConfigInv, ConfigShape, ConfigTypeOK
  <2>2. NbTypeOK
    BY DEF SinkInv, NbInv, NbShape, RssiKnown, Entry, NbTypeOK
  <2>3. LineTypeOK
    BY LenProperties DEF SinkInv, LineInv, LineTypeOK
  <2> QED
    BY <2>1, <2>2, <2>3 DEF SinkInv, PowerOK, Ranged, TypeOK
<1> QED
  BY <1>1, <1>2, <1>3, PTL DEF Spec
-----------------------------------------------------------------------------
(* Every step of the sink is one of the line or leaves the line alone.        *)
LEMMA SinkLineSteps == Next => LineStep \/ UNCHANGED linevars
<1> SUFFICES ASSUME Next PROVE LineStep \/ UNCHANGED linevars
  OBVIOUS
<1>1. CASE Start \/ Poll \/ Return \/ Save \/ Enter \/ Interrupt
  BY <1>1 DEF Start, Poll, Return, Save, Enter, Interrupt
<1>2. CASE Computer
  BY <1>2 DEF Computer, LineStep
<1>3. CASE Read
  BY <1>3 DEF Read, LineStep
<1>4. CASE \E m \in Message : package_recieve(m)
  BY <1>4 DEF package_recieve, LineStep
<1>5. CASE Reset
  BY <1>5 DEF Reset, LineStep
<1> QED
  BY <1>1, <1>2, <1>3, <1>4, <1>5 DEF Next

LEMMA StepInvAlone ==
  ASSUME StepInv, UNCHANGED linevars PROVE StepInv'
<1>1. UNCHANGED <<line, rxserialbuf, escaped, sent, handled, harmed, outOfStep>>
  BY DEF linevars, reader, harm
<1>2. \A n, k : OnLine(n, k)' <=> OnLine(n, k)
  BY <1>1 DEF OnLine
<1>3. ASSUME NEW d \in Nat, NEW p \in Nat, Reached(d, p) PROVE Reached(d, p)'
  <2>1. OfMessages(d, p)'
    BY <1>1, <1>3 DEF Reached, OfMessages
  <2>2. EndsThere(d, p)' /\ EscapedThere'
    BY <1>1, <1>2, <1>3 DEF Reached, EndsThere, EscapedThere
  <2>3. UnharmedThere(d, p)' /\ HarmedLack(d, p)'
    BY <1>1, <1>2, <1>3 DEF Reached, UnharmedThere, HarmedLack
  <2> QED
    BY <1>1, <1>3, <2>1, <2>2, <2>3 DEF Reached
<1>4. ASSUME NEW d \in Nat, NEW p \in Nat, NEW u \in Nat, Within(d, p, u)
      PROVE  Within(d, p, u)'
  BY <1>1, <1>2, <1>4 DEF Within
<1>5. \A p : Between(p) => Between(p)'
  BY <1>1 DEF Between
<1>6. \A d : (handled = Unharmed(d)) => (handled = Unharmed(d))'
  BY <1>1 DEF Unharmed
<1>7. \A d, p \in Nat : InStep(d, p) => InStep(d, p)'
  BY <1>3, <1>4, <1>5, <1>6 DEF InStep
<1> QED
  BY <1>1, <1>7 DEF StepInv

(* A lost byte that is no end of a frame costs the message it was lost from and  *)
(* no other, when no message can be left of another one: the sink handles all   *)
(* others as they were sent, in order, through restarts, escapes and the bound   *)
(* of the buffer (handleserialrx, MxBmesh.cpp:699-731).                         *)
THEOREM OneLossCostsOne ==
  ASSUME NoneLeftOfAnother PROVE Spec => []OneLossOneMessage
<1> DEFINE Inv == LineInv /\ StepInv
<1>1. Init => Inv
  BY LineStarts, StepStarts DEF Init
<1>2. Inv /\ [Next]_vars => Inv'
  <2> SUFFICES ASSUME Inv, [Next]_vars PROVE Inv'
    OBVIOUS
  <2>1. CASE LineStep
    BY <2>1, LineInvKept, StepKept
  <2>2. CASE UNCHANGED linevars
    <3>1. StepInv'
      BY <2>2, StepInvAlone
    <3>2. LineInv'
      BY <2>2 DEF LineInv, linevars, reader, harm
    <3> QED
      BY <3>1, <3>2
  <2>3. UNCHANGED vars => UNCHANGED linevars
    BY DEF vars
  <2> QED
    BY <2>1, <2>2, <2>3, SinkLineSteps
<1>3. Inv => OneLossOneMessage
  BY StepSuffices
<1> HIDE DEF Inv
<1> QED
  BY <1>1, <1>2, <1>3, PTL DEF Spec
=============================================================================
