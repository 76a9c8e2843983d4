--------------------------- MODULE LoggerConfigMC ---------------------------
(***************************************************************************)
(* LoggerConfig with an EEPROM that is blank or was written before, three  *)
(* requests, one of them wrong, and three setters (the other two are alike). *)
(***************************************************************************)
EXTENDS LoggerConfig

Config(on, pr, mode, level, mask, kb) ==
  [f \in Fields |-> CASE f = "IsEnabled" -> on [] f = "IsPrintoutEnabled" -> pr
                      [] f = "Mode" -> mode [] f = "LogLevel" -> level
                      [] f = "ModuleMask" -> mask [] OTHER -> kb]

Ask(c, erase) == [f \in Fields \cup {"erase"} |-> IF f = "erase" THEN erase ELSE c[f]]

SomeEeprom == {Blank, Config(1, 0, PULL, 7, 1, 192)}

SomeRequests ==
  {Ask(Config(1, BLANK, PULL, 2, 1, 128), FALSE),
   Ask(Config(1, 0, PULL, 2, 1, 1000), TRUE),
   Ask(Config(1, 0, PUSH, 2, 1, 200), FALSE)}

SomeInputs ==
  [f \in {"Mode", "LogLevel", "DestType"} |->
     CASE f = "Mode" -> {PUSH} [] f = "LogLevel" -> {6} [] OTHER -> {NONE}]
=============================================================================
