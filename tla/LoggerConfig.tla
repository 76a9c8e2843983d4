---------------------------- MODULE LoggerConfig ----------------------------
(***************************************************************************)
(* The general configuration: the copy in RAM that everything goes by      *)
(* (gLoggerManager.Config.General), the copy in EEPROM it is read from at  *)
(* start, and what changes either: the setters, the switch, the server.    *)
(* The copy in EEPROM is written field after field, any of which may fail  *)
(* or be the last before the power goes.  How far the log file has been    *)
(* written is kept beside it, for a server that changes the size of it.    *)
(* The log lies where it lay when the power comes back (FlashLog).         *)
(***************************************************************************)
EXTENDS Integers, Sequences

CONSTANTS
  DEFAULT_ENABLED,  \* LOGGER_CONFIG_DEFAULT_FEATURE_IS_ENABLED
  FirstEeprom,      \* what the EEPROM may hold when the system is first started
  Requests,         \* the configurations the server or the application asks for
  Inputs            \* for each setter, the values it is called with

\* The fields in EEPROM, in the order LoggerWriteGeneralConfig writes them.
Order  == <<"IsEnabled", "IsPrintoutEnabled", "Mode", "LogLevel", "ModuleMask",
            "FlashSize">>
Fields == {Order[i] : i \in 1 .. Len(Order)}

\* Logger_Config.h and Logger_Defs.h.
PUSH       == 0
PULL       == 1
MODE_MAX   == 3
NONE       == 0
FLASH      == 1
SOCKET     == 2
LEVEL_MAX  == 7
BLANK      == 255
BLANK_SIZE == 65535
MIN_KB     == 128
MAX_KB     == 256
SECTOR_KB  == 64

\* What an erased cell of a field reads as; a mask of ones masks no task.
NO_TASK == -1
Blank == [f \in Fields |-> IF f = "FlashSize" THEN BLANK_SIZE
                           ELSE IF f = "ModuleMask" THEN NO_TASK ELSE BLANK]

\* Logger_SetGeneralDefaultConfig.
Default == [IsEnabled |-> DEFAULT_ENABLED, IsPrintoutEnabled |-> 1, Mode |-> PUSH,
            LogLevel |-> LEVEL_MAX - 1, ModuleMask |-> NO_TASK,
            FlashSize |-> MAX_KB, DestType |-> SOCKET]

\* A configuration as it is stored or sent: bytes, a mask, and a uint16.
Stored(c) ==
  /\ \A f \in Fields : c[f] \in Int
  /\ \A f \in Fields \ {"ModuleMask", "FlashSize"} : 0 <= c[f] /\ c[f] <= BLANK
  /\ 0 <= c.FlashSize /\ c.FlashSize <= BLANK_SIZE

\* The EEPROM may hold anything; the setters, which check nothing, are called
\* with the values Logger_Api.c documents (lines 127, 183-185, 205-208, 328).
ASSUME ConfigAssumption ==
  /\ DEFAULT_ENABLED \in {0, 1}
  /\ \A e \in FirstEeprom : e \in [Fields -> Int] /\ Stored(e)
  /\ \A r \in Requests : /\ DOMAIN r = Fields \cup {"erase"}
                         /\ r.erase \in BOOLEAN /\ Stored(r)
  /\ DOMAIN Inputs \subseteq {"IsPrintoutEnabled", "Mode", "LogLevel",
                             "ModuleMask", "DestType"}
  /\ \A f \in DOMAIN Inputs : \A v \in Inputs[f] :
       CASE f = "IsPrintoutEnabled" -> v \in {0, 1}
         [] f = "Mode" -> v \in 0 .. MODE_MAX
         [] f = "LogLevel" -> v \in 0 .. LEVEL_MAX - 1
         [] f = "ModuleMask" -> v \in Int
         [] f = "DestType" -> v \in {NONE, FLASH, SOCKET}

VARIABLES
  ram,     \* Config.General
  eeprom,  \* the copy in EEPROM
  at,      \* 0 when no one writes the EEPROM, else the next field in Order
  new,     \* what is being written, else as eeprom
  by,      \* for the "server", else "switch"
  up,      \* the power is on and Logger_Init has run
  where,   \* KB from the start of the segment to WriteAddr
  saved,   \* ghost: the fields in RAM were read from EEPROM, or written to it
           \* to the last of them, and none was set since
  shrunk   \* ghost: the server made the segment smaller since the start

vars == <<ram, eeprom, at, new, by, up, where, saved, shrunk>>

-----------------------------------------------------------------------------
(* Pure functions.                                                         *)

DestOf(mode) == IF mode = PUSH THEN SOCKET ELSE IF mode = PULL THEN FLASH ELSE NONE

\* Mutant: the size is not checked against the sectors.
MutantSizeError(kb) == FALSE

SizeError(kb) == MIN_KB <= kb /\ kb <= MAX_KB /\ kb % SECTOR_KB # 0

\* What Logger_ValidateGenConfig finds wrong.
IsError(c) == \/ c.IsEnabled \notin {0, 1}
              \/ c.LogLevel >= LEVEL_MAX \/ c.Mode > MODE_MAX
              \/ SizeError(c.FlashSize)

ValidSize(kb) ==
  CASE kb \in {0, BLANK_SIZE} -> MAX_KB
    [] kb # 0 /\ kb < MIN_KB  -> MIN_KB
    [] kb # BLANK_SIZE /\ kb > MAX_KB -> MAX_KB
    [] OTHER -> IF SizeError(kb) THEN MAX_KB ELSE kb

\* Mutant: the level is checked against one too many.
MutantValid(c) ==
  [c EXCEPT !.IsEnabled = IF @ \in {0, 1} THEN @ ELSE DEFAULT_ENABLED,
            !.LogLevel  = IF @ > LEVEL_MAX THEN LEVEL_MAX - 1 ELSE @,
            !.Mode      = IF @ > MODE_MAX THEN PUSH ELSE @,
            !.FlashSize = ValidSize(@)]

\* ... and what it makes of it, in place.
Valid(c) ==
  [c EXCEPT !.IsEnabled = IF @ \in {0, 1} THEN @ ELSE DEFAULT_ENABLED,
            !.LogLevel  = IF @ >= LEVEL_MAX THEN LEVEL_MAX - 1 ELSE @,
            !.Mode      = IF @ > MODE_MAX THEN PUSH ELSE @,
            !.FlashSize = ValidSize(@)]

\* Logger_SetRAMGeneralConfig: a blank field takes its default, but the
\* destination goes by the mode that was given.
Install(c) ==
  [f \in DOMAIN Default |->
     IF f = "DestType" THEN DestOf(c.Mode)
     ELSE IF c[f] = Blank[f] THEN Default[f] ELSE c[f]]

\* What Logger_Init makes of the EEPROM.
Load(e) == Valid(Install(e))

\* Mutant: the pointers are taken as they are.
MutantInitFlash(kb, erase, w) == IF erase THEN 0 ELSE w

\* Logger_InitFlash, as far as WriteAddr goes: pointers that do not lie in the
\* segment are not taken over.
InitFlash(kb, erase, w) == IF erase \/ w > kb THEN 0 ELSE w

\* The high byte of one size and the low byte of another.
Halves(high, low) == ((high \div 256) * 256) + (low % 256)

-----------------------------------------------------------------------------
Init ==
  /\ eeprom \in FirstEeprom /\ ram = Default /\ up = FALSE
  /\ at = 0 /\ new = eeprom /\ by = "switch"
  /\ where = 0 /\ saved = FALSE /\ shrunk = FALSE

idle == up /\ at = 0

\* Logger_Init without a configuration; any field may fail to be read.
Start ==
  /\ ~up /\ up' = TRUE
  /\ \E read \in BOOLEAN :
       /\ ram' = IF read THEN Load(eeprom) ELSE Valid(Default)
       /\ saved' = read
  /\ where' = InitFlash(ram'.FlashSize, FALSE, where)
  /\ shrunk' = FALSE
  /\ UNCHANGED <<eeprom, at, new, by>>

\* Logger_Init with one, which is not saved.
StartWith(c) ==
  /\ ~up /\ up' = TRUE
  /\ ram' = Valid(Install(c))
  /\ where' = InitFlash(ram'.FlashSize, c.erase, where)
  /\ saved' = FALSE /\ shrunk' = FALSE
  /\ UNCHANGED <<eeprom, at, new, by>>

Down ==
  /\ up' = FALSE /\ ram' = Default /\ saved' = FALSE /\ shrunk' = FALSE
  /\ at' = 0 /\ new' = eeprom' /\ by' = "switch"
  /\ UNCHANGED where

PowerLoss == up /\ eeprom' = eeprom /\ Down

\* The power goes between the two bytes of FlashSize.
PowerLossInSize ==
  /\ up /\ at = Len(Order)
  /\ \E half \in {Halves(eeprom.FlashSize, new.FlashSize),
                 Halves(new.FlashSize, eeprom.FlashSize)} :
       eeprom' = [eeprom EXCEPT !.FlashSize = half]
  /\ Down

\* The interrupt writes the log, a sector at a time and around the end.
Log ==
  /\ up /\ ram.IsEnabled = 1 /\ ram.DestType = FLASH /\ where < ram.FlashSize
  /\ where' = (where + SECTOR_KB) % ram.FlashSize
  /\ UNCHANGED <<ram, eeprom, at, new, by, up, saved, shrunk>>

-----------------------------------------------------------------------------
(* Commands of the Logger task.                                            *)

\* Logger_SetLogLevel, SetModuleMask, SetMode, SetDestinationType and
\* SetPrintoutEnDis: RAM only.
Set(f) ==
  /\ idle
  /\ \E v \in Inputs[f] : ram' = [ram EXCEPT ![f] = v]
  /\ saved' = FALSE
  /\ UNCHANGED <<eeprom, at, new, by, up, where, shrunk>>

\* Logger_SwitchOnOff for e_LOGGER_CMD_DIS_EN, up to the call of WriteConfigCb.
\* Switching on drops the log but leaves WriteAddr where it is.
Switch(on) ==
  /\ idle
  /\ ram' = [ram EXCEPT !.IsEnabled = on]
  /\ new' = [f \in Fields |-> ram'[f]]
  /\ at' = 1 /\ by' = "switch" /\ saved' = FALSE
  /\ UNCHANGED <<eeprom, up, where, shrunk>>

\* Logger_HandleServerCmd, up to the call of WriteConfigCb; one with an error
\* in it changes nothing.
Server(c) ==
  /\ idle /\ ~IsError(c)
  /\ ram' = [ram EXCEPT !.IsEnabled = 0]
  /\ new' = Valid(c)
  /\ at' = 1 /\ by' = "server" /\ saved' = FALSE
  /\ UNCHANGED <<eeprom, up, where, shrunk>>

\* Mutant: what is stored is not what was asked for.
MutantWriteField ==
  /\ up /\ at \in 1 .. Len(Order)
  /\ eeprom' = [eeprom EXCEPT ![Order[at]] = ram[Order[at]]]
  /\ at' = at + 1
  /\ UNCHANGED <<ram, new, by, up, where, saved, shrunk>>

\* LoggerWriteGeneralConfig.
WriteField ==
  /\ up /\ at \in 1 .. Len(Order)
  /\ eeprom' = [eeprom EXCEPT ![Order[at]] = new[Order[at]]]
  /\ at' = at + 1
  /\ UNCHANGED <<ram, new, by, up, where, saved, shrunk>>

\* What follows the write, whether it wrote everything or not: the server's
\* configuration is installed after the log was initialised with the old size.
Finish(all) ==
  /\ at' = 0 /\ new' = eeprom /\ by' = "switch"
  /\ saved' = all
  /\ IF by = "switch"
     THEN UNCHANGED <<ram, where, shrunk>>
     ELSE /\ where' = InitFlash(ram.FlashSize, new.erase, where)
          /\ ram' = Install(new)
          /\ shrunk' = (shrunk \/ ram'.FlashSize < ram.FlashSize)
  /\ UNCHANGED <<eeprom, up>>

Written    == up /\ at = Len(Order) + 1 /\ Finish(TRUE)
WriteFails == up /\ at \in 1 .. Len(Order) /\ Finish(FALSE)

-----------------------------------------------------------------------------
Next ==
  \/ Start \/ PowerLoss \/ PowerLossInSize \/ Log \/ WriteField
  \/ Written \/ WriteFails
  \/ \E c \in Requests : StartWith(c) \/ Server(c)
  \/ \E f \in DOMAIN Inputs : Set(f)
  \/ \E on \in {0, 1} : Switch(on)

Spec == Init /\ [][Next]_vars

-----------------------------------------------------------------------------
(* Properties.                                                             *)

\* What runs is a configuration the code knows, whatever the EEPROM held, and
\* at most one write is under way.
TypeOK ==
  /\ DOMAIN ram = DOMAIN Default /\ DOMAIN eeprom = Fields
  /\ ram.IsEnabled \in {0, 1} /\ ram.Mode \in 0 .. MODE_MAX
  /\ ram.LogLevel \in 0 .. LEVEL_MAX - 1 /\ ram.DestType \in {NONE, FLASH, SOCKET}
  /\ at \in 0 .. Len(Order) + 1 /\ by \in {"switch", "server"}
  /\ Fields \subseteq DOMAIN new /\ where \in Nat
  /\ up \in BOOLEAN /\ saved \in BOOLEAN /\ shrunk \in BOOLEAN

\* Whatever the EEPROM holds - nothing yet, a write cut short, half a size -
\* and whatever the server asks for, the segment is a whole number of sectors
\* within its limits (Logger_ValidateGenConfig, lines 1111-1135).
SizeInLimits ==
  up => ram.FlashSize \in {kb \in MIN_KB .. MAX_KB : kb % SECTOR_KB = 0}

\* A configuration that was read, or written to the last field, is the one the
\* next start comes up with, field for field, if that can read it.  This takes
\* IsEnabled in, which a comment of the code wants left out (EnableIsReset),
\* and leaves the destination out, which has no field (DestinationPersists).
RestartRestores ==
  idle /\ saved => \A f \in Fields : Load(eeprom)[f] = ram[f]

\* "for now we want the enable parameter to reset to the hardcoded configuration
\* on every reset, so we dont read this specific parameter from EEPROM"
\* (LoggerReadGeneralConfig, which reads it six lines above).
EnableIsReset == [][Start => ram'.IsEnabled = DEFAULT_ENABLED]_vars

\* "Runtime configuration is supported via API and persists across reboot"
\* (README.md): the destination too, at least when the configuration has been
\* saved since it was set.
DestinationPersists == idle /\ saved => Load(eeprom).DestType = ram.DestType

\* A start with an EEPROM nobody has written gives the defaults, the "default
\* destination type" of Logger_Config.h with them.
BlankGivesDefault == [][Start /\ eeprom = Blank => ram' = Default]_vars

\* The log is written within its segment (the sanity check of
\* Logger_SendPacketFlash, Logger_Utils.c:758), unless the server has made the
\* segment smaller: the pointers were checked against the size before.
WriteInSegment == up /\ ~shrunk => where <= ram.FlashSize
=============================================================================
