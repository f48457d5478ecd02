----------------------------- MODULE NodeConfig -----------------------------
(***************************************************************************)
(* The configuration of a node and its copy in the EEPROM                   *)
(* (src/MxBmesh/MxBMeshConfig.cpp), as begin and SETCONFIG use them.        *)
(* SaveCONFIG writes byte by byte over the last copy, the checksum last, and *)
(* a reset may come between two bytes.                                      *)
(*                                                                          *)
(* dataupload_interval takes one cell here.  The path, between txPower and   *)
(* the checksum, is left out: a sink's is empty.                            *)
(***************************************************************************)
EXTENDS Integers, Sequences, Functions

CONSTANTS
  BYTE,            \* values of a byte (256)
  Sketch,          \* configuration before LoadCONFIG: the sketch's and the statics
  DefaultInterval, \* broadcastInterval of a node that has forgotten (90)
  Nothing

Field == <<"localAddress", "localChannel", "broadcastInterval",
           "dataupload_interval", "islowpower", "txPower">>   \* as they are stored
Config == [{Field[i] : i \in DOMAIN Field} -> 0..BYTE - 1]
TAG == 187                                 \* BMESHCONFIGTAG
Unset == BYTE - 1                          \* a dataupload_interval of 0xffff
Blank == BYTE - 1                          \* a cell never written

ASSUME ConfigAssumption ==
  /\ BYTE \in Nat /\ TAG < Blank /\ Sketch \in Config
  /\ DefaultInterval \in 0..BYTE - 1 /\ Nothing \notin Config

VARIABLES
  config,          \* MXBMESHCONFIG's statics
  eeprom,          \* the EEPROM, a function on 0..Checksum
  cell,            \* what SaveCONFIG writes next; 0 when it is not running
  set,             \* history: the configuration last saved, or being saved
  previous,        \* history: the one whose checksum is stored until then
  torn             \* history: a reset cut the saving of set short

configvars == <<config, eeprom, cell, set, previous, torn>>

\* Addresses: the tag is at 0 and called cell 1 while it is written.
Checksum == Len(Field) + 1
CheckValue(c) == FoldFunction(+, TAG, c) % BYTE
Copy == [f \in DOMAIN config |->
           eeprom[CHOOSE i \in DOMAIN Field : Field[i] = f]]
Forgotten == [Sketch EXCEPT !["dataupload_interval"] = 0,
                            !["broadcastInterval"] = DefaultInterval]
\* What begin makes of a configuration it has loaded.
Begun(c) == IF c["dataupload_interval"] = Unset
            THEN [c EXCEPT !["dataupload_interval"] = 0] ELSE c

ConfigInit ==
  /\ config = Sketch
  /\ eeprom = [i \in 0..Checksum |-> Blank]
  /\ cell = 0 /\ set = Nothing /\ previous = Nothing /\ torn = FALSE

Unchecked == eeprom[0] = TAG               \* mutant: the checksum is not compared
Intact == eeprom[0] = TAG /\ eeprom[Checksum] = CheckValue(Copy)

\* SaveCONFIG of configuration c begins.
SaveCONFIG(c) ==
  /\ cell' = 1
  /\ set' = c /\ torn' = FALSE
  /\ previous' = IF torn THEN previous ELSE set
  /\ UNCHANGED eeprom

\* It writes a cell.
WriteCell ==
  /\ cell # 0
  /\ eeprom' = [eeprom EXCEPT ![cell - 1] =
                  IF cell = 1 THEN TAG
                  ELSE IF cell - 1 = Checksum THEN CheckValue(config)
                  ELSE config[Field[cell - 1]]]
  /\ cell' = IF cell - 1 = Checksum THEN 0 ELSE cell + 1
  /\ UNCHANGED <<config, set, previous, torn>>

\* begin: LoadCONFIG, and SaveCONFIG if there was nothing to load.  Of what it
\* has loaded LoadCONFIG returns no value (MxBMeshConfig.cpp:56-69); to save the
\* same bytes again, which begin then may or may not do, changes nothing.
Begin ==
  \/ /\ eeprom[0] # TAG
     /\ config' = Forgotten /\ SaveCONFIG(Forgotten)
  \/ /\ eeprom[0] = TAG
     /\ config' = IF Intact THEN Begun(Copy) ELSE Forgotten
     /\ UNCHANGED <<eeprom, cell, set, previous, torn>>

\* SETCONFIG.
SetConfig(c) == config' = c /\ SaveCONFIG(c)

\* LOWPOWER and HIGHPOWER, which are not saved.
SetLowPower(low) ==
  /\ config' = [config EXCEPT !["islowpower"] = low]
  /\ UNCHANGED <<eeprom, cell, set, previous, torn>>

\* A reset: the statics are as the program starts with them.
Forget ==
  /\ config' = Sketch /\ cell' = 0
  /\ torn' = (torn \/ cell # 0)
  /\ UNCHANGED <<eeprom, set, previous>>
-----------------------------------------------------------------------------
ConfigTypeOK ==
  /\ config \in Config /\ eeprom \in [0..Checksum -> 0..BYTE - 1]
  /\ cell \in 0..Checksum + 1 /\ {set, previous} \subseteq Config \cup {Nothing}
  /\ torn \in BOOLEAN

(* A node that restarts goes on with the configuration it saved last, and when  *)
(* the reset came while it saved (SaveCONFIG, MxBMeshConfig.cpp:77-105), it      *)
(* falls back on what the sketch gives it; or it goes on with a mixture of the   *)
(* two that has the checksum of the one before by chance.                       *)
RestartLoadsSaved ==
  [][Begin /\ eeprom[0] = TAG =>
       IF torn
       THEN \/ config' = Forgotten \/ previous = Nothing
            \/ config' = Begun(Copy) /\ CheckValue(Copy) = CheckValue(previous)
       ELSE config' = Begun(set)]_configvars
=============================================================================
