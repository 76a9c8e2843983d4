------------------------- MODULE LoggerConfigProofs -------------------------
(***************************************************************************)
(* What LoggerConfig promises, for every content of the EEPROM, every      *)
(* request and every value of the setters.  What the interrupted write of  *)
(* the EEPROM has reached is the heart of it: the fields below "at" are    *)
(* the new ones, and the new ones are those that are, or will be, in RAM.  *)
(***************************************************************************)
EXTENDS LoggerConfig, TLAPS

\* The fields of the copy in RAM.
RamFields == DOMAIN Default

\* The sizes of a segment: a whole number of sectors within the limits.
Sizes == {kb \in MIN_KB .. MAX_KB : kb % SECTOR_KB = 0}

\* A configuration the code knows, with nothing in it that reads as blank.
Sound(r) ==
  /\ r \in [RamFields -> Int]
  /\ r.IsEnabled \in {0, 1} /\ r.Mode \in 0 .. MODE_MAX
  /\ r.LogLevel \in 0 .. LEVEL_MAX - 1 /\ r.DestType \in {NONE, FLASH, SOCKET}
  /\ 0 <= r.IsPrintoutEnabled /\ r.IsPrintoutEnabled < BLANK /\ r.FlashSize \in Sizes

\* Both copies, and the variables beside them; Order has six fields.
TypeInv ==
  /\ Sound(ram) /\ eeprom \in [Fields -> Int] /\ Stored(eeprom)
  /\ at \in 0 .. 7 /\ by \in {"switch", "server"} /\ where \in Nat
  /\ up \in BOOLEAN /\ saved \in BOOLEAN /\ shrunk \in BOOLEAN
  /\ Fields \subseteq DOMAIN new /\ Stored(new)

\* A write: who is at it, what is written, and how far it has come.
WriteInv ==
  /\ at > 0 => up /\ ~saved
  /\ at > 0 /\ by = "switch" => \A f \in Fields : new[f] = ram[f]
  /\ at > 0 /\ by = "server" => \E c \in Requests : new = Valid(c)
  /\ \A i \in 1 .. 6 : i < at => eeprom[Order[i]] = new[Order[i]]

\* The inductive invariant.
IInv == TypeInv /\ WriteInv /\ RestartRestores /\ WriteInSegment

-----------------------------------------------------------------------------
(* The fields and the pure functions.                                      *)

\* The order of the write, spelled out.
LEMMA OrderIs ==
  /\ Len(Order) = 6
  /\ Order[1] = "IsEnabled" /\ Order[2] = "IsPrintoutEnabled"
  /\ Order[3] = "Mode" /\ Order[4] = "LogLevel"
  /\ Order[5] = "ModuleMask" /\ Order[6] = "FlashSize"
BY DEF Order

\* ... and how far it goes.
LEMMA AtRange == 0 .. Len(Order) + 1 = 0 .. 7 /\ 1 .. Len(Order) = 1 .. 6
<1>1. Len(Order) + 1 = 7 /\ Len(Order) = 6
  BY OrderIs
<1> QED BY <1>1

\* The fields, spelled out.
LEMMA FieldsAre ==
  Fields = {"IsEnabled", "IsPrintoutEnabled", "Mode", "LogLevel", "ModuleMask",
            "FlashSize"}
<1>1. \A i \in 1 .. 6 : i = 1 \/ i = 2 \/ i = 3 \/ i = 4 \/ i = 5 \/ i = 6
  OBVIOUS
<1> QED BY <1>1, OrderIs DEF Fields

\* The fields of the copy in RAM are those and the destination.
LEMMA RamFieldsAre ==
  RamFields = {"IsEnabled", "IsPrintoutEnabled", "Mode", "LogLevel",
               "ModuleMask", "FlashSize", "DestType"}
BY DEF RamFields, Default

\* Whatever number is given for a size, what the validation makes of it is a
\* size, and it leaves a size alone (Logger_ValidateGenConfig, lines 1111-1135).
LEMMA ValidSizeIsSize ==
  ASSUME NEW kb \in Int
  PROVE  ValidSize(kb) \in Sizes /\ (kb \in Sizes => ValidSize(kb) = kb)
BY DEF ValidSize, SizeError, Sizes, MIN_KB, MAX_KB, SECTOR_KB, BLANK_SIZE

\* There are three of them.
LEMMA SizesAre == Sizes = {128, 192, 256}
BY DEF Sizes, MIN_KB, MAX_KB, SECTOR_KB

\* Bytes of two sizes make a size of sixteen bits.
LEMMA HalvesFit ==
  ASSUME NEW a \in Int, 0 <= a, a <= BLANK_SIZE,
         NEW b \in Int, 0 <= b, b <= BLANK_SIZE
  PROVE  /\ Halves(a, b) \in Int
         /\ 0 <= Halves(a, b) /\ Halves(a, b) <= BLANK_SIZE
<1>1. PICK h \in Int : h = a \div 256
  OBVIOUS
<1>2. PICK l \in Int : l = b % 256
  OBVIOUS
<1>3. h >= 0 /\ h <= 255
  BY <1>1 DEF BLANK_SIZE
<1>4. l >= 0 /\ l <= 255
  BY <1>2
<1>5. Halves(a, b) = h * 256 + l
  BY <1>1, <1>2 DEF Halves
<1> QED BY <1>3, <1>4, <1>5 DEF BLANK_SIZE

\* The defaults are sound.
LEMMA DefaultSound == Sound(Default)
BY ConfigAssumption, RamFieldsAre
   DEF Sound, Default, Sizes, MIN_KB, MAX_KB, SECTOR_KB, BLANK, PUSH, SOCKET,
       MODE_MAX, LEVEL_MAX, NO_TASK, NONE, FLASH

\* What the blank configuration and the default one hold.
LEMMA BlankIs ==
  /\ \A f \in Fields : Blank[f] = IF f = "FlashSize" THEN 65535
                                  ELSE IF f = "ModuleMask" THEN -1 ELSE 255
BY DEF Blank, BLANK, BLANK_SIZE, NO_TASK

\* What Logger_SetRAMGeneralConfig installs, field by field.
LEMMA InstallIs ==
  ASSUME NEW c
  PROVE  /\ DOMAIN Install(c) = RamFields
         /\ Install(c).IsEnabled =
              IF c.IsEnabled = 255 THEN DEFAULT_ENABLED ELSE c.IsEnabled
         /\ Install(c).IsPrintoutEnabled =
              IF c.IsPrintoutEnabled = 255 THEN 1 ELSE c.IsPrintoutEnabled
         /\ Install(c).Mode = IF c.Mode = 255 THEN 0 ELSE c.Mode
         /\ Install(c).LogLevel = IF c.LogLevel = 255 THEN 6 ELSE c.LogLevel
         /\ Install(c).ModuleMask =
              IF c.ModuleMask = -1 THEN -1 ELSE c.ModuleMask
         /\ Install(c).FlashSize =
              IF c.FlashSize = 65535 THEN 256 ELSE c.FlashSize
         /\ Install(c).DestType = DestOf(c.Mode)
<1>1. DOMAIN Install(c) = RamFields
  BY DEF Install, RamFields
<1>2. \A f \in RamFields :
        Install(c)[f] = IF f = "DestType" THEN DestOf(c.Mode)
                        ELSE IF c[f] = Blank[f] THEN Default[f] ELSE c[f]
  BY DEF Install, RamFields
<1>3. /\ Default.IsEnabled = DEFAULT_ENABLED /\ Default.IsPrintoutEnabled = 1
      /\ Default.Mode = 0 /\ Default.LogLevel = 6 /\ Default.ModuleMask = -1
      /\ Default.FlashSize = 256
  BY DEF Default, PUSH, LEVEL_MAX, NO_TASK, MAX_KB
<1>4. /\ Blank["IsEnabled"] = 255 /\ Blank["IsPrintoutEnabled"] = 255
      /\ Blank["Mode"] = 255 /\ Blank["LogLevel"] = 255
      /\ Blank["ModuleMask"] = -1 /\ Blank["FlashSize"] = 65535
  BY BlankIs, FieldsAre
<1> QED BY <1>1, <1>2, <1>3, <1>4, RamFieldsAre

\* What Logger_ValidateGenConfig makes of a configuration, field by field.
LEMMA ValidIs ==
  ASSUME NEW c, Fields \subseteq DOMAIN c
  PROVE  /\ DOMAIN Valid(c) = DOMAIN c
         /\ Valid(c).IsEnabled =
              IF c.IsEnabled \in {0, 1} THEN c.IsEnabled ELSE DEFAULT_ENABLED
         /\ Valid(c).LogLevel = IF c.LogLevel >= 7 THEN 6 ELSE c.LogLevel
         /\ Valid(c).Mode = IF c.Mode > 3 THEN 0 ELSE c.Mode
         /\ Valid(c).FlashSize = ValidSize(c.FlashSize)
         /\ \A f \in DOMAIN c \ {"IsEnabled", "LogLevel", "Mode", "FlashSize"} :
              Valid(c)[f] = c[f]
<1> DEFINE on    == IF c.IsEnabled \in {0, 1} THEN c.IsEnabled ELSE DEFAULT_ENABLED
           level == IF c.LogLevel >= 7 THEN 6 ELSE c.LogLevel
           mode  == IF c.Mode > 3 THEN 0 ELSE c.Mode
           size  == ValidSize(c.FlashSize)
<1>1. 7 - 1 = 6
  OBVIOUS
<1>2. Valid(c) = [c EXCEPT !.IsEnabled = on, !.LogLevel = level, !.Mode = mode,
                           !.FlashSize = size]
  BY <1>1 DEF Valid, LEVEL_MAX, MODE_MAX, PUSH
<1> HIDE DEF on, level, mode, size
<1>3. /\ DOMAIN Valid(c) = DOMAIN c
      /\ Valid(c).IsEnabled = on /\ Valid(c).LogLevel = level
      /\ Valid(c).Mode = mode /\ Valid(c).FlashSize = size
      /\ \A f \in DOMAIN c \ {"IsEnabled", "LogLevel", "Mode", "FlashSize"} :
           Valid(c)[f] = c[f]
  BY <1>2, FieldsAre
<1> QED BY <1>3 DEF on, level, mode, size

\* A validated configuration is a stored one, and has nothing wrong in it.
LEMMA ValidStored ==
  ASSUME NEW c, Fields \subseteq DOMAIN c, Stored(c)
  PROVE  /\ Fields \subseteq DOMAIN Valid(c) /\ Stored(Valid(c))
         /\ Valid(c).IsEnabled \in {0, 1} /\ Valid(c).Mode \in 0 .. 3
         /\ Valid(c).LogLevel \in 0 .. 6 /\ Valid(c).FlashSize \in Sizes
<1>1. /\ \A f \in Fields : c[f] \in Int
      /\ 0 <= c.IsEnabled /\ c.IsEnabled <= 255
      /\ 0 <= c.IsPrintoutEnabled /\ c.IsPrintoutEnabled <= 255
      /\ 0 <= c.Mode /\ c.Mode <= 255 /\ 0 <= c.LogLevel /\ c.LogLevel <= 255
      /\ c.FlashSize \in Int /\ c.Mode \in Int /\ c.LogLevel \in Int
  BY FieldsAre DEF Stored, BLANK
<1>2. Valid(c).FlashSize \in Sizes
  BY <1>1, ValidIs, ValidSizeIsSize
<1>3. Valid(c).IsEnabled \in {0, 1}
  BY ValidIs, ConfigAssumption
<1>4. Valid(c).Mode \in 0 .. 3
  BY <1>1, ValidIs
<1>5. Valid(c).LogLevel \in 0 .. 6
  BY <1>1, ValidIs
<1>6. /\ Valid(c).IsPrintoutEnabled = c.IsPrintoutEnabled
      /\ Valid(c).ModuleMask = c.ModuleMask
  BY ValidIs, FieldsAre
<1>7. \A f \in Fields : Valid(c)[f] \in Int
  BY <1>1, <1>2, <1>3, <1>4, <1>5, <1>6, FieldsAre, SizesAre
<1>8. Stored(Valid(c))
  BY <1>1, <1>2, <1>3, <1>4, <1>5, <1>6, <1>7, FieldsAre, SizesAre
     DEF Stored, BLANK, BLANK_SIZE
<1> QED BY <1>2, <1>3, <1>4, <1>5, <1>8, ValidIs

\* The destination of a mode is one of three.
LEMMA DestOfIs ==
  ASSUME NEW m
  PROVE  DestOf(m) \in {NONE, FLASH, SOCKET}
BY DEF DestOf

\* A sound configuration passes the validation as it is.
LEMMA SoundIsValid ==
  ASSUME NEW r, Sound(r)
  PROVE  Valid(r) = r
<1>1. /\ r \in [RamFields -> Int] /\ r.IsEnabled \in {0, 1}
      /\ r.Mode \in Int /\ r.Mode <= 3 /\ r.LogLevel \in Int /\ r.LogLevel < 7
      /\ r.FlashSize \in Sizes /\ r.FlashSize \in Int
  BY SizesAre, RamFieldsAre DEF Sound, MODE_MAX, LEVEL_MAX
<1>2. Fields \subseteq DOMAIN r
  BY <1>1, FieldsAre, RamFieldsAre
<1>3. /\ Valid(r).IsEnabled = r.IsEnabled /\ Valid(r).LogLevel = r.LogLevel
      /\ Valid(r).Mode = r.Mode /\ Valid(r).FlashSize = r.FlashSize
  BY <1>1, <1>2, ValidIs, ValidSizeIsSize
<1>4. \A f \in RamFields : Valid(r)[f] = r[f]
  BY <1>1, <1>2, <1>3, ValidIs
<1>5. Valid(r) = [f \in RamFields |-> Valid(r)[f]]
  BY <1>1 DEF Valid
<1> QED BY <1>1, <1>4, <1>5

\* Installing a stored configuration gives every field in RAM a number, and
\* none that reads as blank.
LEMMA InstallTyped ==
  ASSUME NEW c, Stored(c)
  PROVE  /\ Install(c) \in [RamFields -> Int]
         /\ 0 <= Install(c).IsPrintoutEnabled
         /\ Install(c).IsPrintoutEnabled < 255
         /\ 0 <= Install(c).Mode /\ 0 <= Install(c).LogLevel
         /\ Install(c).DestType \in {NONE, FLASH, SOCKET}
<1>1. /\ c.IsEnabled \in Int
      /\ c.IsPrintoutEnabled \in Int
      /\ 0 <= c.IsPrintoutEnabled /\ c.IsPrintoutEnabled <= 255
      /\ c.Mode \in Int /\ 0 <= c.Mode
      /\ c.LogLevel \in Int /\ 0 <= c.LogLevel
      /\ c.ModuleMask \in Int /\ c.FlashSize \in Int
  BY FieldsAre DEF Stored, BLANK
<1>2. /\ Install(c).IsEnabled \in Int /\ Install(c).IsPrintoutEnabled \in Int
      /\ Install(c).Mode \in Int /\ Install(c).LogLevel \in Int
      /\ Install(c).ModuleMask \in Int /\ Install(c).FlashSize \in Int
  BY <1>1, InstallIs, ConfigAssumption
<1>3. Install(c).DestType \in {NONE, FLASH, SOCKET}
  BY InstallIs, DestOfIs
<1>4. Install(c).DestType \in Int
  BY <1>3 DEF NONE, FLASH, SOCKET
<1>5. \A f \in RamFields : Install(c)[f] \in Int
  BY <1>2, <1>4, RamFieldsAre
<1>6. Install(c) \in [RamFields -> Int]
  BY <1>5 DEF Install, RamFields
<1>7. /\ 0 <= Install(c).IsPrintoutEnabled
      /\ Install(c).IsPrintoutEnabled < 255
      /\ 0 <= Install(c).Mode /\ 0 <= Install(c).LogLevel
  BY <1>1, InstallIs
<1> QED BY <1>3, <1>6, <1>7

\* What Logger_Init makes of any stored configuration is sound.
LEMMA LoadSound ==
  ASSUME NEW c, Stored(c)
  PROVE  Sound(Load(c))
<1> DEFINE r == Install(c)
<1>1. /\ r \in [RamFields -> Int]
      /\ 0 <= r.IsPrintoutEnabled /\ r.IsPrintoutEnabled < 255
      /\ 0 <= r.Mode /\ 0 <= r.LogLevel /\ r.DestType \in {NONE, FLASH, SOCKET}
  BY InstallTyped
<1>2. Load(c) = Valid(r)
  BY DEF Load
<1> HIDE DEF r
<1>3. /\ Fields \subseteq DOMAIN r /\ r.Mode \in Int /\ r.LogLevel \in Int
      /\ r.FlashSize \in Int
  BY <1>1, FieldsAre, RamFieldsAre
<1>4. /\ Valid(r).IsEnabled \in {0, 1} /\ Valid(r).Mode \in 0 .. 3
      /\ Valid(r).LogLevel \in 0 .. 6
  BY <1>1, <1>3, ValidIs, ConfigAssumption
<1>5. Valid(r).FlashSize \in Sizes
  BY <1>3, ValidIs, ValidSizeIsSize
<1>6. /\ Valid(r).IsPrintoutEnabled = r.IsPrintoutEnabled
      /\ Valid(r).ModuleMask = r.ModuleMask /\ Valid(r).DestType = r.DestType
  BY <1>1, <1>3, ValidIs, RamFieldsAre
<1>7. \A f \in RamFields : Valid(r)[f] \in Int
  BY <1>1, <1>4, <1>5, <1>6, RamFieldsAre, SizesAre
<1>8. Valid(r) \in [RamFields -> Int]
  BY <1>1, <1>7 DEF Valid
<1>9. 7 - 1 = 6
  OBVIOUS
<1> QED BY <1>1, <1>2, <1>4, <1>5, <1>6, <1>8, <1>9
        DEF Sound, MODE_MAX, LEVEL_MAX, BLANK

\* A configuration without an error is installed as a sound one.
LEMMA InstallSound ==
  ASSUME NEW c, Stored(c), c.IsEnabled \in {0, 1}, c.Mode \in 0 .. 3,
         c.LogLevel \in 0 .. 6, c.FlashSize \in Sizes
  PROVE  Sound(Install(c))
<1>1. /\ c.Mode # 255 /\ c.LogLevel # 255 /\ c.FlashSize # 65535
      /\ c.IsEnabled # 255
  BY SizesAre
<1>2. /\ Install(c).IsEnabled = c.IsEnabled /\ Install(c).Mode = c.Mode
      /\ Install(c).LogLevel = c.LogLevel /\ Install(c).FlashSize = c.FlashSize
  BY <1>1, InstallIs
<1>3. 7 - 1 = 6
  OBVIOUS
<1> QED BY <1>2, <1>3, InstallTyped DEF Sound, MODE_MAX, LEVEL_MAX, BLANK

\* Installing looks at nothing but the fields.
LEMMA InstallSame ==
  ASSUME NEW c, NEW e, \A f \in Fields : e[f] = c[f]
  PROVE  Install(e) = Install(c)
<1>1. e.Mode = c.Mode
  BY FieldsAre
<1>2. \A f \in DOMAIN Default : f # "DestType" => f \in Fields
  BY FieldsAre, RamFieldsAre DEF RamFields
<1> QED BY <1>1, <1>2 DEF Install

\* The fields of a sound configuration survive being stored and loaded.
LEMMA SoundReloads ==
  ASSUME NEW r, Sound(r), Stored(r), NEW e, \A f \in Fields : e[f] = r[f]
  PROVE  \A f \in Fields : Load(e)[f] = r[f]
<1>1. /\ r \in [RamFields -> Int] /\ r.IsEnabled \in {0, 1}
      /\ r.Mode \in Int /\ r.Mode # 255 /\ r.LogLevel \in Int
      /\ r.LogLevel # 255 /\ r.IsPrintoutEnabled # 255 /\ r.FlashSize # 65535
      /\ r.IsEnabled # 255
  BY SizesAre, RamFieldsAre DEF Sound, MODE_MAX, LEVEL_MAX, BLANK
<1>2. /\ Install(r).IsEnabled = r.IsEnabled
      /\ Install(r).IsPrintoutEnabled = r.IsPrintoutEnabled
      /\ Install(r).Mode = r.Mode /\ Install(r).LogLevel = r.LogLevel
      /\ Install(r).ModuleMask = r.ModuleMask
      /\ Install(r).FlashSize = r.FlashSize
  BY <1>1, InstallIs
<1>3. \A f \in Fields : Install(r)[f] = r[f]
  BY <1>2, FieldsAre
<1>4. r.Mode \in 0 .. 3 /\ r.LogLevel \in 0 .. 6 /\ r.FlashSize \in Sizes
  <2>1. 7 - 1 = 6
    OBVIOUS
  <2> QED BY <2>1 DEF Sound, MODE_MAX, LEVEL_MAX
<1>5. Sound(Install(r))
  BY <1>1, <1>4, InstallSound
<1>6. Install(e) = Install(r)
  BY InstallSame
<1> QED BY <1>3, <1>5, <1>6, SoundIsValid DEF Load

-----------------------------------------------------------------------------
(* What the invariant says, for the runs' properties and for its own use.  *)

\* A request is a stored configuration.
LEMMA RequestStored ==
  ASSUME NEW c \in Requests
  PROVE  Fields \subseteq DOMAIN c /\ Stored(c)
BY ConfigAssumption

\* So is a sound one.
LEMMA SoundStored ==
  ASSUME NEW r, Sound(r)
  PROVE  Fields \subseteq DOMAIN r /\ Stored(r)
<1>1. /\ r \in [RamFields -> Int]
      /\ r.IsEnabled \in Int /\ 0 <= r.IsEnabled /\ r.IsEnabled <= 255
      /\ r.Mode \in Int /\ 0 <= r.Mode /\ r.Mode <= 255
      /\ r.LogLevel \in Int /\ 0 <= r.LogLevel /\ r.LogLevel <= 255
      /\ r.IsPrintoutEnabled \in Int
      /\ 0 <= r.IsPrintoutEnabled /\ r.IsPrintoutEnabled <= 255
      /\ r.FlashSize \in Int /\ 0 <= r.FlashSize /\ r.FlashSize <= 65535
  BY SizesAre, RamFieldsAre DEF Sound, MODE_MAX, LEVEL_MAX, BLANK
<1> QED BY <1>1, FieldsAre, RamFieldsAre DEF Stored, BLANK, BLANK_SIZE

\* The pointers that a start or a server finds are brought into the segment.
LEMMA InitFlashFits ==
  ASSUME NEW kb \in Nat, NEW erase \in BOOLEAN, NEW w \in Nat
  PROVE  InitFlash(kb, erase, w) \in Nat /\ InitFlash(kb, erase, w) <= kb
BY DEF InitFlash

\* The invariant implies the type invariant of the runs.
LEMMA TypeImplied == TypeInv => TypeOK
<1> SUFFICES ASSUME TypeInv PROVE TypeOK
  OBVIOUS
<1>1. at \in 0 .. Len(Order) + 1
  BY AtRange DEF TypeInv
<1>2. /\ DOMAIN ram = DOMAIN Default /\ DOMAIN eeprom = Fields
      /\ ram.IsEnabled \in {0, 1} /\ ram.Mode \in 0 .. MODE_MAX
      /\ ram.LogLevel \in 0 .. LEVEL_MAX - 1
      /\ ram.DestType \in {NONE, FLASH, SOCKET}
  BY DEF TypeInv, Sound, RamFields
<1>3. /\ by \in {"switch", "server"} /\ Fields \subseteq DOMAIN new
      /\ where \in Nat
      /\ up \in BOOLEAN /\ saved \in BOOLEAN /\ shrunk \in BOOLEAN
  BY DEF TypeInv
<1> QED BY <1>1, <1>2, <1>3 DEF TypeOK

\* ... and the limits of the size.
LEMMA SizeImplied == TypeInv => SizeInLimits
BY DEF TypeInv, SizeInLimits, Sound, Sizes

\* The segment of a sound configuration is a positive number of KB.
LEMMA SizePositive ==
  ASSUME NEW r, Sound(r)
  PROVE  r.FlashSize \in Nat /\ r.FlashSize > 0
BY SizesAre DEF Sound

-----------------------------------------------------------------------------
(* The invariant holds at first and every action keeps it.                 *)

\* The initial states.
LEMMA InitInv == Init => IInv
<1> SUFFICES ASSUME Init PROVE IInv
  OBVIOUS
<1>1. eeprom \in [Fields -> Int] /\ Stored(eeprom)
  BY ConfigAssumption DEF Init
<1>2. TypeInv
  <2>1. Fields \subseteq DOMAIN new /\ Stored(new)
    BY <1>1 DEF Init, Stored
  <2>2. Sound(ram)
    BY DefaultSound DEF Init, Sound
  <2>3. /\ up = FALSE /\ saved = FALSE /\ shrunk = FALSE
        /\ at = 0 /\ by = "switch" /\ where = 0
    BY DEF Init
  <2>4. at \in 0 .. 7 /\ by \in {"switch", "server"} /\ where \in Nat
    BY <2>3
  <2>5. up \in BOOLEAN /\ saved \in BOOLEAN /\ shrunk \in BOOLEAN
    BY <2>3
  <2> QED BY <1>1, <2>1, <2>2, <2>4, <2>5 DEF TypeInv
<1>3. WriteInv
  BY DEF Init, WriteInv
<1>4. RestartRestores /\ WriteInSegment
  BY DEF Init, RestartRestores, WriteInSegment, idle
<1> QED BY <1>2, <1>3, <1>4 DEF IInv

\* A start: whatever is read, what comes up is sound.
LEMMA StartInv == IInv /\ Start => IInv'
<1> SUFFICES ASSUME IInv, Start PROVE IInv'
  OBVIOUS
<1> USE DEF Start
<1>1. TypeInv /\ WriteInv
  BY DEF IInv
<1>2. at = 0
  BY <1>1 DEF TypeInv, WriteInv
<1>3. PICK read \in BOOLEAN :
        /\ ram' = IF read THEN Load(eeprom) ELSE Valid(Default)
        /\ saved' = read
  OBVIOUS
<1>4. Sound(ram')
  BY <1>1, <1>3, LoadSound, DefaultSound, SoundIsValid DEF TypeInv
<1>5. where' \in Nat /\ where' <= ram'.FlashSize
  BY <1>1, <1>4, SizePositive, InitFlashFits DEF TypeInv
<1>6. TypeInv'
  BY <1>1, <1>3, <1>4, <1>5 DEF TypeInv
<1>7. WriteInv'
  BY <1>1, <1>2 DEF TypeInv, WriteInv
<1>8. RestartRestores'
  BY <1>3 DEF RestartRestores, idle
<1>9. WriteInSegment'
  BY <1>5 DEF WriteInSegment
<1> QED BY <1>6, <1>7, <1>8, <1>9 DEF IInv

\* A start with a configuration.
LEMMA StartWithInv ==
  ASSUME NEW c \in Requests
  PROVE  IInv /\ StartWith(c) => IInv'
<1> SUFFICES ASSUME IInv, StartWith(c) PROVE IInv'
  OBVIOUS
<1> USE DEF StartWith
<1>1. TypeInv /\ WriteInv
  BY DEF IInv
<1>2. at = 0
  BY <1>1 DEF TypeInv, WriteInv
<1>3. Sound(ram')
  BY RequestStored, LoadSound DEF Load
<1>4. where' \in Nat /\ where' <= ram'.FlashSize
  <2>1. c.erase \in BOOLEAN
    BY ConfigAssumption
  <2> QED BY <1>1, <1>3, <2>1, SizePositive, InitFlashFits DEF TypeInv
<1>5. TypeInv'
  BY <1>1, <1>3, <1>4 DEF TypeInv
<1>6. WriteInv'
  BY <1>1, <1>2 DEF TypeInv, WriteInv
<1>7. RestartRestores'
  BY DEF RestartRestores, idle
<1>8. WriteInSegment'
  BY <1>4 DEF WriteInSegment
<1> QED BY <1>5, <1>6, <1>7, <1>8 DEF IInv

\* The power goes, and leaves an EEPROM that may hold anything.
LEMMA DownInv ==
  ASSUME IInv, Down, eeprom' \in [Fields -> Int], Stored(eeprom)'
  PROVE  IInv'
<1>1. TypeInv
  BY DEF IInv
<1>2. TypeInv'
  <2>1. Fields \subseteq DOMAIN new' /\ Stored(new)'
    BY DEF Down, Stored
  <2>2. Sound(ram)'
    BY DefaultSound DEF Down, Sound
  <2>3. /\ up' = FALSE /\ saved' = FALSE /\ shrunk' = FALSE
        /\ at' = 0 /\ by' = "switch" /\ where' = where
    BY DEF Down
  <2>4. Sound(ram)' /\ eeprom' \in [Fields -> Int] /\ Stored(eeprom)'
    BY <2>2
  <2>5. at' \in 0 .. 7 /\ by' \in {"switch", "server"} /\ where' \in Nat
    BY <1>1, <2>3 DEF TypeInv
  <2>6. up' \in BOOLEAN /\ saved' \in BOOLEAN /\ shrunk' \in BOOLEAN
    BY <2>3
  <2> QED BY <2>1, <2>4, <2>5, <2>6 DEF TypeInv
<1>3. WriteInv'
  BY DEF Down, WriteInv
<1>4. RestartRestores' /\ WriteInSegment'
  BY DEF Down, RestartRestores, WriteInSegment, idle
<1> QED BY <1>2, <1>3, <1>4 DEF IInv

\* ... between two fields,
LEMMA PowerLossInv == IInv /\ PowerLoss => IInv'
<1> SUFFICES ASSUME IInv, PowerLoss PROVE IInv'
  OBVIOUS
<1>1. eeprom' \in [Fields -> Int] /\ Stored(eeprom)'
  BY DEF IInv, TypeInv, PowerLoss
<1> QED BY <1>1, DownInv DEF PowerLoss

\* ... or between the two bytes of the size.
LEMMA PowerLossInSizeInv == IInv /\ PowerLossInSize => IInv'
<1> SUFFICES ASSUME IInv, PowerLossInSize PROVE IInv'
  OBVIOUS
<1>1. /\ eeprom \in [Fields -> Int] /\ Stored(eeprom) /\ Stored(new)
  BY DEF IInv, TypeInv
<1>2. /\ eeprom.FlashSize \in Int /\ 0 <= eeprom.FlashSize
      /\ eeprom.FlashSize <= BLANK_SIZE
      /\ new.FlashSize \in Int /\ 0 <= new.FlashSize
      /\ new.FlashSize <= BLANK_SIZE
  BY <1>1, FieldsAre DEF Stored
<1>3. PICK half \in {Halves(eeprom.FlashSize, new.FlashSize),
                     Halves(new.FlashSize, eeprom.FlashSize)} :
        eeprom' = [eeprom EXCEPT !.FlashSize = half]
  BY DEF PowerLossInSize
<1>4. half \in Int /\ 0 <= half /\ half <= BLANK_SIZE
  BY <1>2, HalvesFit
<1>5. eeprom' \in [Fields -> Int]
  BY <1>1, <1>3, <1>4
<1>6. /\ eeprom'.FlashSize = half
      /\ \A f \in Fields \ {"FlashSize"} : eeprom'[f] = eeprom[f]
  BY <1>1, <1>3, FieldsAre
<1>7. Stored(eeprom)'
  BY <1>1, <1>4, <1>5, <1>6 DEF Stored
<1> QED BY <1>5, <1>7, DownInv DEF PowerLossInSize

\* The interrupt writes the log and wraps within the segment.
LEMMA LogInv == IInv /\ Log => IInv'
<1> SUFFICES ASSUME IInv, Log PROVE IInv'
  OBVIOUS
<1> USE DEF Log
<1>1. TypeInv /\ WriteInv /\ RestartRestores
  BY DEF IInv
<1>2. ram.FlashSize \in Nat /\ ram.FlashSize > 0
  BY <1>1, SizePositive DEF TypeInv
<1>3. where' \in Nat /\ where' <= ram.FlashSize
  <2>1. PICK kb \in Nat : kb = ram.FlashSize
    BY <1>2
  <2>2. PICK w \in Nat : w = where + 64
    BY <1>1 DEF TypeInv
  <2>3. kb > 0 /\ w % kb \in Nat /\ w % kb < kb
    BY <1>2, <2>1
  <2>4. where' = w % kb
    BY <2>1, <2>2 DEF SECTOR_KB
  <2> QED BY <2>1, <2>3, <2>4
<1>4. TypeInv'
  BY <1>1, <1>3 DEF TypeInv
<1>5. WriteInv'
  BY <1>1 DEF WriteInv
<1>6. RestartRestores'
  BY <1>1 DEF RestartRestores, idle
<1>7. WriteInSegment'
  BY <1>3 DEF WriteInSegment
<1> QED BY <1>4, <1>5, <1>6, <1>7 DEF IInv

\* A setter writes one field in RAM, of which nothing is saved.
LEMMA SetInv ==
  ASSUME NEW f \in DOMAIN Inputs
  PROVE  IInv /\ Set(f) => IInv'
<1> SUFFICES ASSUME IInv, Set(f) PROVE IInv'
  OBVIOUS
<1>1. TypeInv /\ WriteInv /\ WriteInSegment
  BY DEF IInv
<1>2. PICK v \in Inputs[f] : ram' = [ram EXCEPT ![f] = v]
  BY DEF Set
<1>3. /\ up /\ at = 0 /\ saved' = FALSE /\ eeprom' = eeprom /\ at' = at
      /\ new' = new /\ by' = by /\ up' = up /\ where' = where
      /\ shrunk' = shrunk
  BY DEF Set, idle
<1>4. f \in {"IsPrintoutEnabled", "Mode", "LogLevel", "ModuleMask", "DestType"}
  BY ConfigAssumption
<1>5. /\ f = "IsPrintoutEnabled" => v \in {0, 1}
      /\ f = "Mode" => v \in 0 .. 3
      /\ f = "LogLevel" => v \in 0 .. 6
      /\ f = "ModuleMask" => v \in Int
      /\ f = "DestType" => v \in {NONE, FLASH, SOCKET}
  <2>1. (CASE f = "IsPrintoutEnabled" -> v \in {0, 1}
          [] f = "Mode" -> v \in 0 .. MODE_MAX
          [] f = "LogLevel" -> v \in 0 .. LEVEL_MAX - 1
          [] f = "ModuleMask" -> v \in Int
          [] f = "DestType" -> v \in {NONE, FLASH, SOCKET})
    BY ConfigAssumption
  <2>2. LEVEL_MAX - 1 = 6 /\ MODE_MAX = 3
    BY DEF LEVEL_MAX, MODE_MAX
  <2> QED BY <2>1, <2>2
<1>6. v \in Int
  BY <1>4, <1>5 DEF NONE, FLASH, SOCKET
<1>7. ram' \in [RamFields -> Int]
  BY <1>1, <1>2, <1>6 DEF TypeInv, Sound
<1>8. \A g \in RamFields : ram'[g] = IF g = f THEN v ELSE ram[g]
  BY <1>1, <1>2 DEF TypeInv, Sound
<1>9. Sound(ram')
  <2>1. 7 - 1 = 6
    OBVIOUS
  <2>2. /\ ram'.IsEnabled \in {0, 1} /\ ram'.Mode \in 0 .. 3
        /\ ram'.LogLevel \in 0 .. 6 /\ ram'.DestType \in {NONE, FLASH, SOCKET}
        /\ ram'.FlashSize \in Sizes
    BY <1>1, <1>4, <1>5, <1>8, <2>1, RamFieldsAre
       DEF TypeInv, Sound, MODE_MAX, LEVEL_MAX
  <2>3. 0 <= ram'.IsPrintoutEnabled /\ ram'.IsPrintoutEnabled < BLANK
    BY <1>1, <1>5, <1>8, RamFieldsAre DEF TypeInv, Sound, BLANK
  <2> QED BY <1>7, <2>1, <2>2, <2>3 DEF Sound, MODE_MAX, LEVEL_MAX
<1>10. TypeInv'
  <2>1. /\ eeprom' \in [Fields -> Int] /\ Stored(eeprom)'
        /\ Fields \subseteq DOMAIN new' /\ Stored(new)'
    BY <1>1, <1>3 DEF TypeInv, Stored
  <2>2. /\ at' \in 0 .. 7 /\ by' \in {"switch", "server"} /\ where' \in Nat
        /\ up' \in BOOLEAN /\ shrunk' \in BOOLEAN
    BY <1>1, <1>3 DEF TypeInv
  <2>3. saved' \in BOOLEAN
    BY <1>3
  <2> QED BY <1>9, <2>1, <2>2, <2>3 DEF TypeInv
<1>11. WriteInv'
  BY <1>1, <1>3 DEF WriteInv
<1>12. RestartRestores'
  BY <1>3 DEF RestartRestores
<1>13. WriteInSegment'
  <2>1. ram'.FlashSize = ram.FlashSize
    BY <1>4, <1>8, RamFieldsAre
  <2> QED BY <1>1, <1>3, <2>1 DEF WriteInSegment
<1> QED BY <1>10, <1>11, <1>12, <1>13 DEF IInv

\* The switch begins to write what is in RAM.
LEMMA SwitchInv ==
  ASSUME NEW on \in {0, 1}
  PROVE  IInv /\ Switch(on) => IInv'
<1> SUFFICES ASSUME IInv, Switch(on) PROVE IInv'
  OBVIOUS
<1>1. TypeInv /\ WriteInv /\ WriteInSegment
  BY DEF IInv
<1>2. /\ up /\ at = 0 /\ saved' = FALSE /\ eeprom' = eeprom /\ at' = 1
      /\ by' = "switch" /\ up' = up /\ where' = where /\ shrunk' = shrunk
      /\ ram' = [ram EXCEPT !.IsEnabled = on]
      /\ new' = [f \in Fields |-> ram'[f]]
  BY DEF Switch, idle
<1>3. /\ ram' \in [RamFields -> Int] /\ ram'.IsEnabled = on
      /\ \A f \in RamFields \ {"IsEnabled"} : ram'[f] = ram[f]
  BY <1>1, <1>2, RamFieldsAre DEF TypeInv, Sound
<1>4. Sound(ram')
  BY <1>1, <1>3, RamFieldsAre DEF TypeInv, Sound
<1>5. Fields \subseteq DOMAIN new' /\ \A f \in Fields : new'[f] = ram'[f]
  BY <1>2
<1>6. TypeInv'
  <2>1. Stored(ram')
    BY <1>4, SoundStored
  <2>2. Stored(new)'
    BY <1>5, <2>1, FieldsAre DEF Stored
  <2>3. eeprom' \in [Fields -> Int] /\ Stored(eeprom)'
    BY <1>1, <1>2 DEF TypeInv, Stored
  <2>4. /\ at' \in 0 .. 7 /\ by' \in {"switch", "server"} /\ where' \in Nat
        /\ up' \in BOOLEAN /\ shrunk' \in BOOLEAN
    BY <1>1, <1>2 DEF TypeInv
  <2>5. saved' \in BOOLEAN
    BY <1>2
  <2> QED BY <1>4, <1>5, <2>2, <2>3, <2>4, <2>5 DEF TypeInv
<1>7. WriteInv'
  BY <1>2, <1>5 DEF WriteInv
<1>8. RestartRestores'
  BY <1>2 DEF RestartRestores
<1>9. WriteInSegment'
  <2>1. ram'.FlashSize = ram.FlashSize
    BY <1>3, RamFieldsAre
  <2> QED BY <1>1, <1>2, <2>1 DEF WriteInSegment
<1> QED BY <1>6, <1>7, <1>8, <1>9 DEF IInv

\* The server switches the logger off and begins to write what it asks for.
LEMMA ServerInv ==
  ASSUME NEW c \in Requests
  PROVE  IInv /\ Server(c) => IInv'
<1> SUFFICES ASSUME IInv, Server(c) PROVE IInv'
  OBVIOUS
<1>1. TypeInv /\ WriteInv /\ WriteInSegment
  BY DEF IInv
<1>2. /\ up /\ at = 0 /\ saved' = FALSE /\ eeprom' = eeprom /\ at' = 1
      /\ by' = "server" /\ up' = up /\ where' = where /\ shrunk' = shrunk
      /\ ram' = [ram EXCEPT !.IsEnabled = 0] /\ new' = Valid(c)
  BY DEF Server, idle
<1>3. /\ ram' \in [RamFields -> Int] /\ ram'.IsEnabled = 0
      /\ \A f \in RamFields \ {"IsEnabled"} : ram'[f] = ram[f]
  BY <1>1, <1>2, RamFieldsAre DEF TypeInv, Sound
<1>4. Sound(ram')
  BY <1>1, <1>3, RamFieldsAre DEF TypeInv, Sound
<1>5. Fields \subseteq DOMAIN new' /\ Stored(new)'
  <2>1. Fields \subseteq DOMAIN Valid(c) /\ Stored(Valid(c))
    BY RequestStored, ValidStored
  <2> QED BY <1>2, <2>1 DEF Stored
<1>6. TypeInv'
  <2>1. eeprom' \in [Fields -> Int] /\ Stored(eeprom)'
    BY <1>1, <1>2 DEF TypeInv, Stored
  <2>2. /\ at' \in 0 .. 7 /\ by' \in {"switch", "server"} /\ where' \in Nat
        /\ up' \in BOOLEAN /\ shrunk' \in BOOLEAN
    BY <1>1, <1>2 DEF TypeInv
  <2>3. saved' \in BOOLEAN
    BY <1>2
  <2> QED BY <1>4, <1>5, <2>1, <2>2, <2>3 DEF TypeInv
<1>7. WriteInv'
  BY <1>2 DEF WriteInv
<1>8. RestartRestores'
  BY <1>2 DEF RestartRestores
<1>9. WriteInSegment'
  <2>1. ram'.FlashSize = ram.FlashSize
    BY <1>3, RamFieldsAre
  <2> QED BY <1>1, <1>2, <2>1 DEF WriteInSegment
<1> QED BY <1>6, <1>7, <1>8, <1>9 DEF IInv

\* One more field is written.
LEMMA WriteFieldInv == IInv /\ WriteField => IInv'
<1> SUFFICES ASSUME IInv, WriteField PROVE IInv'
  OBVIOUS
<1>1. TypeInv /\ WriteInv /\ WriteInSegment
  BY DEF IInv
<1>2. /\ up /\ at \in 1 .. 6
      /\ eeprom' = [eeprom EXCEPT ![Order[at]] = new[Order[at]]]
      /\ at' = at + 1 /\ ram' = ram /\ new' = new /\ by' = by /\ up' = up
      /\ where' = where /\ saved' = saved /\ shrunk' = shrunk
  BY AtRange DEF WriteField
<1>3. Order[at] \in Fields
  BY <1>2, AtRange DEF Fields
<1>4. new[Order[at]] \in Int
  BY <1>1, <1>3 DEF TypeInv, Stored
<1>5. /\ eeprom' \in [Fields -> Int]
      /\ \A f \in Fields :
           eeprom'[f] = IF f = Order[at] THEN new[f] ELSE eeprom[f]
  BY <1>1, <1>2, <1>3, <1>4 DEF TypeInv
<1>6. Stored(eeprom)'
  BY <1>1, <1>5, FieldsAre DEF TypeInv, Stored
<1>7. TypeInv'
  <2>1. /\ Sound(ram)' /\ Fields \subseteq DOMAIN new' /\ Stored(new)'
    BY <1>1, <1>2 DEF TypeInv, Stored, Sound
  <2>2. /\ at' \in 0 .. 7 /\ by' \in {"switch", "server"} /\ where' \in Nat
        /\ up' \in BOOLEAN /\ shrunk' \in BOOLEAN /\ saved' \in BOOLEAN
    BY <1>1, <1>2 DEF TypeInv
  <2> QED BY <1>5, <1>6, <2>1, <2>2 DEF TypeInv
<1>8. WriteInv'
  <2>1. \A i \in 1 .. 6 : i < at' => eeprom'[Order[i]] = new'[Order[i]]
    <3> SUFFICES ASSUME NEW i \in 1 .. 6, i < at'
                 PROVE  eeprom'[Order[i]] = new'[Order[i]]
      OBVIOUS
    <3>1. Order[i] \in Fields
      BY AtRange DEF Fields
    <3>2. i < at \/ i = at
      BY <1>2
    <3> QED BY <1>1, <1>2, <1>5, <3>1, <3>2 DEF WriteInv
  <2>2. at > 0 /\ at' > 0
    BY <1>2
  <2> QED BY <1>1, <1>2, <2>1, <2>2 DEF WriteInv
<1>9. RestartRestores'
  BY <1>2 DEF RestartRestores, idle
<1>10. WriteInSegment'
  BY <1>1, <1>2 DEF WriteInSegment
<1> QED BY <1>7, <1>8, <1>9, <1>10 DEF IInv

\* What follows the write: if all of it was written, what is in RAM from then
\* on is what the next start will load.
LEMMA FinishInv ==
  ASSUME IInv, up, at > 0, NEW all \in BOOLEAN, Finish(all), all => at = 7
  PROVE  IInv'
<1>1. TypeInv /\ WriteInv /\ WriteInSegment
  BY DEF IInv
<1>2. /\ at' = 0 /\ new' = eeprom /\ by' = "switch" /\ eeprom' = eeprom
      /\ up' = up
  BY DEF Finish
<1>3. all => \A f \in Fields : eeprom[f] = new[f]
  <2> SUFFICES ASSUME all, NEW f \in Fields PROVE eeprom[f] = new[f]
    OBVIOUS
  <2>1. PICK i \in 1 .. 6 : f = Order[i]
    BY AtRange DEF Fields
  <2> QED BY <1>1, <2>1 DEF WriteInv
<1>4. /\ eeprom' \in [Fields -> Int] /\ Stored(eeprom)'
      /\ Fields \subseteq DOMAIN new' /\ Stored(new)'
  <2>1. eeprom \in [Fields -> Int] /\ Stored(eeprom)
    BY <1>1 DEF TypeInv
  <2> QED BY <1>2, <2>1 DEF Stored
<1>5. WriteInv'
  BY <1>2 DEF WriteInv
<1>6. CASE by = "switch"
  <2>1. /\ saved' = all
        /\ ram' = ram /\ where' = where /\ shrunk' = shrunk
    BY <1>6 DEF Finish
  <2>2. Sound(ram)'
    BY <1>1, <2>1 DEF TypeInv, Sound
  <2>3. /\ at' \in 0 .. 7 /\ by' \in {"switch", "server"} /\ where' \in Nat
        /\ up' \in BOOLEAN /\ shrunk' \in BOOLEAN
    BY <1>1, <1>2, <2>1 DEF TypeInv
  <2>4. saved' \in BOOLEAN
    BY <2>1
  <2>5. TypeInv'
    BY <1>4, <2>2, <2>3, <2>4 DEF TypeInv
  <2>6. saved' => \A f \in Fields : Load(eeprom)[f] = ram[f]
    <3> SUFFICES ASSUME saved' PROVE \A f \in Fields : Load(eeprom)[f] = ram[f]
      OBVIOUS
    <3>1. Sound(ram) /\ \A f \in Fields : new[f] = ram[f]
      BY <1>1, <1>6 DEF TypeInv, WriteInv
    <3>2. \A f \in Fields : eeprom[f] = ram[f]
      BY <1>3, <2>1, <3>1
    <3> QED BY <3>1, <3>2, SoundReloads, SoundStored
  <2>7. RestartRestores'
    BY <1>2, <2>1, <2>6 DEF RestartRestores
  <2>8. WriteInSegment'
    BY <1>1, <1>2, <2>1 DEF WriteInSegment
  <2> QED BY <1>5, <2>5, <2>7, <2>8 DEF IInv
<1>7. CASE by = "server"
  <2>1. /\ where' = InitFlash(ram.FlashSize, new.erase, where)
        /\ ram' = Install(new) /\ saved' = all
        /\ shrunk' = (shrunk \/ ram'.FlashSize < ram.FlashSize)
    BY <1>7 DEF Finish
  <2>2. PICK c \in Requests : new = Valid(c)
    BY <1>1, <1>7 DEF WriteInv
  <2>3. /\ Stored(new) /\ new.IsEnabled \in {0, 1} /\ new.Mode \in 0 .. 3
        /\ new.LogLevel \in 0 .. 6 /\ new.FlashSize \in Sizes
    BY <2>2, RequestStored, ValidStored DEF Stored
  <2>4. Sound(Install(new))
    BY <2>3, InstallSound
  <2>5. new.erase \in BOOLEAN
    <3>1. "erase" \in DOMAIN c /\ c.erase \in BOOLEAN
      BY ConfigAssumption
    <3>2. Valid(c).erase = c.erase
      BY <3>1, RequestStored, ValidIs
    <3> QED BY <2>2, <3>1, <3>2
  <2>6. ram.FlashSize \in Nat /\ ram.FlashSize > 0
    BY <1>1, SizePositive DEF TypeInv
  <2>7. where' \in Nat /\ where' <= ram.FlashSize
    BY <1>1, <2>1, <2>5, <2>6, InitFlashFits DEF TypeInv
  <2>8. ram'.FlashSize \in Nat
    BY <2>1, <2>4, SizePositive
  <2>9. TypeInv'
    <3>1. Sound(ram)'
      BY <2>1, <2>4 DEF Sound
    <3>2. saved' \in BOOLEAN /\ shrunk' \in BOOLEAN
      BY <1>1, <2>1 DEF TypeInv
    <3>3. up' \in BOOLEAN /\ at' \in 0 .. 7 /\ by' \in {"switch", "server"}
      BY <1>1, <1>2 DEF TypeInv
    <3> QED BY <1>4, <2>7, <3>1, <3>2, <3>3 DEF TypeInv
  <2>10. saved' => \A f \in Fields : Load(eeprom)[f] = ram'[f]
    <3>1. all => Install(eeprom) = Install(new)
      BY <1>3, InstallSame
    <3> QED BY <2>1, <2>4, <3>1, SoundIsValid DEF Load
  <2>11. RestartRestores'
    BY <1>2, <2>10 DEF RestartRestores
  <2>12. WriteInSegment'
    <3> SUFFICES ASSUME ~shrunk' PROVE where' <= ram'.FlashSize
      BY DEF WriteInSegment
    <3>1. ~(ram'.FlashSize < ram.FlashSize)
      BY <2>1
    <3> QED BY <2>6, <2>7, <2>8, <3>1
  <2> QED BY <1>5, <2>9, <2>11, <2>12 DEF IInv
<1> QED BY <1>1, <1>6, <1>7 DEF TypeInv

\* Every field was written, ...
LEMMA WrittenInv == IInv /\ Written => IInv'
<1> SUFFICES ASSUME IInv, Written PROVE IInv'
  OBVIOUS
<1>0. Len(Order) = 6
  BY OrderIs
<1>1. at = Len(Order) + 1
  BY DEF Written
<1>2. at = 7 /\ at > 0
  BY <1>0, <1>1
<1>3. up /\ Finish(TRUE)
  BY DEF Written
<1> QED BY <1>2, <1>3, FinishInv

\* ... or one of them could not be.
LEMMA WriteFailsInv == IInv /\ WriteFails => IInv'
<1> SUFFICES ASSUME IInv, WriteFails PROVE IInv'
  OBVIOUS
<1>1. up /\ at \in 1 .. 6 /\ Finish(FALSE)
  BY AtRange DEF WriteFails
<1>2. at > 0
  BY <1>1
<1> QED BY <1>1, <1>2, FinishInv

\* Nothing happens.
LEMMA StutterInv == IInv /\ UNCHANGED vars => IInv'
<1> SUFFICES ASSUME IInv, UNCHANGED vars PROVE IInv'
  OBVIOUS
<1>1. /\ ram' = ram /\ eeprom' = eeprom /\ at' = at /\ new' = new /\ by' = by
      /\ up' = up /\ where' = where /\ saved' = saved /\ shrunk' = shrunk
  BY DEF vars
<1>2. Sound(ram)' /\ Stored(eeprom)' /\ Stored(new)'
  BY <1>1 DEF IInv, TypeInv, Sound, Stored
<1>3. TypeInv'
  BY <1>1, <1>2 DEF IInv, TypeInv
<1>4. WriteInv'
  BY <1>1 DEF IInv, WriteInv
<1>5. RestartRestores' /\ WriteInSegment'
  BY <1>1 DEF IInv, RestartRestores, WriteInSegment, idle
<1> QED BY <1>3, <1>4, <1>5 DEF IInv

\* Every step keeps the invariant.
LEMMA NextInv == IInv /\ [Next]_vars => IInv'
<1> SUFFICES ASSUME IInv, [Next]_vars PROVE IInv'
  OBVIOUS
<1>1. CASE Start
  BY <1>1, StartInv
<1>2. CASE PowerLoss
  BY <1>2, PowerLossInv
<1>3. CASE PowerLossInSize
  BY <1>3, PowerLossInSizeInv
<1>4. CASE Log
  BY <1>4, LogInv
<1>5. CASE WriteField
  BY <1>5, WriteFieldInv
<1>6. CASE Written
  BY <1>6, WrittenInv
<1>7. CASE WriteFails
  BY <1>7, WriteFailsInv
<1>8. CASE \E c \in Requests : StartWith(c) \/ Server(c)
  BY <1>8, StartWithInv, ServerInv
<1>9. CASE \E f \in DOMAIN Inputs : Set(f)
  BY <1>9, SetInv
<1>10. CASE \E on \in {0, 1} : Switch(on)
  BY <1>10, SwitchInv
<1>11. CASE UNCHANGED vars
  BY <1>11, StutterInv
<1> QED BY <1>1, <1>2, <1>3, <1>4, <1>5, <1>6, <1>7, <1>8, <1>9, <1>10, <1>11
        DEF Next

-----------------------------------------------------------------------------
(* The theorems.                                                           *)

\* The invariant holds in every behaviour.
THEOREM ConfigHolds == Spec => []IInv
BY InitInv, NextInv, PTL DEF Spec

\* What runs is a configuration the code knows, whatever the EEPROM held and
\* whatever the server asked for (Logger_ValidateGenConfig).
THEOREM TypeCorrect == Spec => []TypeOK
<1>1. IInv => TypeOK
  BY TypeImplied DEF IInv
<1> QED BY <1>1, ConfigHolds, PTL

\* The segment is a whole number of sectors within its limits: half a size left
\* by a power loss and a request that is nonsense come out as one too.
THEOREM SizesInLimits == Spec => []SizeInLimits
<1>1. IInv => SizeInLimits
  BY SizeImplied DEF IInv
<1> QED BY <1>1, ConfigHolds, PTL

\* The fields of a configuration that was read, or written to the last of them,
\* are those the next start loads (LoggerWriteGeneralConfig,
\* LoggerReadGeneralConfig, Logger_SetRAMGeneralConfig).  IsEnabled is one of
\* them, whatever the comment in LoggerReadGeneralConfig says; the destination
\* is not, and does drift.
THEOREM RestartsRestore == Spec => []RestartRestores
<1>1. IInv => RestartRestores
  BY DEF IInv
<1> QED BY <1>1, ConfigHolds, PTL

\* The log is written within its segment unless the server has made it smaller
\* (Logger_InitFlash and Logger_HandleServerCmd, lines 909-911).
THEOREM WritesInSegment == Spec => []WriteInSegment
<1>1. IInv => WriteInSegment
  BY DEF IInv
<1> QED BY <1>1, ConfigHolds, PTL

=============================================================================
