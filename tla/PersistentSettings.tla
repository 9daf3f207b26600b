------------------------- MODULE PersistentSettings -------------------------
(* persistence-eeprom.ino: the UI's "save" and "clear" callbacks copy the      *)
(* writable tracked variables to the EEPROM and erase it, one byte at a time;  *)
(* setup reads them back.  The power may fail between any two bytes.           *)
EXTENDS SequencesExt

CONSTANTS
    Tracked,        \* tracked_data: the type, the read-only flag and the initial bytes
    StoredValues,   \* the bytes the UI writes into a variable, per number of bytes
    EepromLength    \* EEPROM.length()

EEPROM_MAGIC_WORD == 66

\* a byte of an EEPROM that was never written
Blank == 255

\* what a cell, and a byte of a variable, may be
Cell == 0 .. 255

ASSUME TrackedAssumption ==
    /\ Tracked \in Seq([read_only : BOOLEAN, initial : Seq(Cell)])
    /\ StoredValues \subseteq Seq(Cell)

\* only writable variables are saved; a function is registered read-only
Persistent(k) == ~Tracked[k].read_only

\* the bytes of the persistent variables, one variable after the other
Flat(variables) ==
    FlattenSeq([k \in DOMAIN Tracked |-> IF Persistent(k) THEN variables[k] ELSE << >>])

Initial == [k \in DOMAIN Tracked |-> Tracked[k].initial]

SettingsLength == Len(Flat(Initial))

\* the layout fits, the base address included
ASSUME LayoutAssumption == EepromLength \in Nat /\ SettingsLength < EepromLength

VARIABLES
    variables,      \* the tracked variables in RAM
    eeprom,         \* its cells
    operation,      \* the callback that is running, if any, and the next address it writes
    settled         \* history: the cells when last no callback was running

settings_vars == <<variables, eeprom, operation, settled>>

Addresses == 0 .. EepromLength - 1

NoOperation == [name |-> "none", address |-> 0]

SettingsInit ==
    /\ variables = Initial
    /\ eeprom = [i \in Addresses |-> Blank]
    /\ operation = NoOperation
    /\ settled = eeprom

\* the UI writes a variable; no byte is polled while a callback runs
UiStores(k, bytes) ==
    /\ operation = NoOperation
    /\ ~Tracked[k].read_only /\ Len(bytes) = Len(variables[k])
    /\ variables' = [variables EXCEPT ![k] = bytes]
    /\ UNCHANGED <<eeprom, operation, settled>>

\* the UI calls "save" or "clear"
UiCalls(name) ==
    /\ operation = NoOperation
    /\ operation' = [name |-> name, address |-> 0]
    /\ UNCHANGED <<variables, eeprom, settled>>

\* the callback has written an address: it goes on or, past the last, returns
Advance(last) ==
    IF operation.address = last
    THEN operation' = NoOperation /\ settled' = eeprom'
    ELSE operation' = [operation EXCEPT !.address = @ + 1] /\ UNCHANGED settled

\* save_settings, one EEPROM.write
SaveSettings ==
    /\ operation.name = "save"
    /\ eeprom' = [eeprom EXCEPT ![operation.address] =
                     IF operation.address = 0 THEN EEPROM_MAGIC_WORD
                     ELSE Flat(variables)[operation.address]]
    /\ Advance(SettingsLength)
    /\ UNCHANGED variables

\* a slip in the next definition: only the settings are erased, not the magic word
EraseSettingsOnly ==
    /\ operation.name = "clear"
    /\ eeprom' = [eeprom EXCEPT ![operation.address] = IF operation.address = 0 THEN @ ELSE 0]
    /\ Advance(EepromLength - 1)
    /\ UNCHANGED variables

\* erase_settings, one EEPROM.write
EraseSettings ==
    /\ operation.name = "clear"
    /\ eeprom' = [eeprom EXCEPT ![operation.address] = 0]
    /\ Advance(EepromLength - 1)
    /\ UNCHANGED variables

\* a slip in the next definition: read-only variables take room as well
AddressPastConstants(k, j) == j + Len(FlattenSeq(SubSeq(Initial, 1, k - 1)))

\* the address of the j-th byte of the k-th variable: those saved before it are passed
AddressOf(k, j) ==
    j + Len(FlattenSeq([i \in 1 .. k - 1 |-> IF Persistent(i) THEN Initial[i] ELSE << >>]))

\* retrieve_settings: the variables that were saved, when the magic word is there
RetrieveSettings(cells) ==
    [k \in DOMAIN Tracked |->
        [j \in DOMAIN Initial[k] |->
            IF cells[0] = EEPROM_MAGIC_WORD /\ Persistent(k)
            THEN cells[AddressOf(k, j)] ELSE Initial[k][j]]]

\* the power fails and comes back: setup runs on initial variables
PowerCut ==
    /\ variables' = RetrieveSettings(eeprom)
    /\ operation' = NoOperation
    /\ settled' = eeprom
    /\ UNCHANGED eeprom

SettingsNext ==
    \/ \E k \in DOMAIN Tracked : \E bytes \in StoredValues : UiStores(k, bytes)
    \/ \E name \in {"save", "clear"} : UiCalls(name)
    \/ SaveSettings \/ EraseSettings \/ PowerCut

SettingsSpec == SettingsInit /\ [][SettingsNext]_settings_vars

-----------------------------------------------------------------------------
(* Properties *)

\* the settings in the cells
StoredIn(cells) ==
    [valid |-> cells[0] = EEPROM_MAGIC_WORD, bytes |-> [n \in 1..SettingsLength |-> cells[n]]]

\* what a callback has written so far counts once it returns, or if the power fails
Store == INSTANCE SettingsStore
         WITH Length <- SettingsLength, Bytes <- Cell, Defaults <- Flat(Initial),
              live <- Flat(variables), stored <- StoredIn(settled)

\* A restart finds the settings of the last save that was completed, and the defaults
\* after an erase; where the power cuts short a save over other settings, it finds a
\* prefix of the new ones in front of the old ones, with every byte in its own variable.
\* The exception is a first save: over a blank or an erased EEPROM.
KeepsSettings == Store!StoreSpecButFirst

\* "a magic word at the base address which indicates data is written": whatever a restart
\* takes for settings was saved, also when the first save is cut short.
MagicWordMeansSaved == Store!StoreSpec
=============================================================================
