---------------------------- MODULE SettingsStore ----------------------------
(* What persistence-eeprom.ino promises of the settings it keeps over a        *)
(* restart, with saving and erasing as one step each.  A power cut during a    *)
(* save leaves a prefix of the new bytes in front of the old ones; during an   *)
(* erase it leaves no settings.  The first save over a store without settings  *)
(* keeps no such promise: cut short it leaves bytes that were never saved.     *)
EXTENDS Naturals

CONSTANTS
    Length,         \* bytes of the settings
    Bytes,          \* what a byte may be
    Defaults        \* the settings of a device that has none stored

VARIABLES
    live,           \* the settings in use
    stored          \* valid: a restart finds settings; bytes: the ones it finds

store_vars == <<live, stored>>

Settings == [1..Length -> Bytes]

\* the first n bytes of one and the rest of the other
Spliced(n, new, old) == [k \in 1..Length |-> IF k <= n THEN new[k] ELSE old[k]]

Zeros == [k \in 1..Length |-> 0]

Found(store) == IF store.valid THEN store.bytes ELSE Defaults

StoreInit ==
    /\ live = Defaults
    /\ stored.valid = FALSE /\ stored.bytes \in Settings /\ DOMAIN stored = {"valid", "bytes"}

Change == live' \in Settings /\ UNCHANGED stored

Save == stored' = [valid |-> TRUE, bytes |-> live] /\ UNCHANGED live

Erase == stored' = [valid |-> FALSE, bytes |-> Zeros] /\ UNCHANGED live

Restart == live' = Found(stored) /\ UNCHANGED stored

\* the settings of two saves, each byte written by one of them
TornSave(n) ==
    /\ stored.valid
    /\ stored' = [valid |-> TRUE, bytes |-> Spliced(n, live, stored.bytes)]
    /\ live' = Found(stored')

TornErase(n) ==
    /\ stored' = [valid |-> FALSE, bytes |-> Spliced(n, Zeros, stored.bytes)]
    /\ live' = Found(stored')

StoreNext ==
    \/ Change \/ Save \/ Erase \/ Restart
    \/ \E n \in 0..Length : TornSave(n) \/ TornErase(n)

\* what is promised
StoreSpec == StoreInit /\ [][StoreNext]_store_vars

\* what is not: a store without settings takes what a save did not write for settings
TornFirstSave(n) ==
    /\ ~stored.valid
    /\ stored' = [valid |-> TRUE, bytes |-> Spliced(n, live, stored.bytes)]
    /\ live' = Found(stored')

\* what is kept but for a first save that is cut short
StoreSpecButFirst ==
    StoreInit /\ [][StoreNext \/ \E n \in 0..Length : TornFirstSave(n)]_store_vars
=============================================================================
