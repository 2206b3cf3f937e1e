----------------------------- MODULE StorageKeys -----------------------------
(***************************************************************************)
(* The storage keys watched on a contract's page                           *)
(* (components/contract-storage.tsx).  A fetch, an addition and a removal  *)
(* each write the whole list as they knew it: the fetch the one of the     *)
(* render in which it was asked for, an await earlier.                     *)
(***************************************************************************)
CONSTANTS
  StorageKey, \* ids of entries
  StorageNetwork

VARIABLES
  entries,   \* what is shown of each entry: where its value was read
  fetching,  \* the list a fetch began with
  askedOf,   \* the network it asks
  keyNetwork,
  wanted,    \* history: the keys added and not removed
  edited     \* history: the keys added or removed during a fetch

storageVars == <<entries, fetching, askedOf, keyNetwork, wanted, edited>>

Unread == {"gone", "new", "notFound"}

ASSUME StorageAssumption == StorageNetwork \cap Unread = {}

NoEntries == [k \in StorageKey |-> "gone"]
ListedKeys(e) == {k \in StorageKey : e[k] # "gone"}
Loading == ListedKeys(fetching) # {}

StorageInit ==
  /\ entries = NoEntries /\ fetching = NoEntries
  /\ keyNetwork \in StorageNetwork /\ askedOf = keyNetwork
  /\ wanted = {} /\ edited = {}

Edited(k) == edited' = IF Loading THEN edited \cup {k} ELSE edited

(* handleAddKey; every entry has an id of its own. *)
AddKey(k) ==
  /\ k \notin ListedKeys(entries) \cup ListedKeys(fetching) \cup wanted
  /\ entries' = [entries EXCEPT ![k] = "new"] /\ wanted' = wanted \cup {k} /\ Edited(k)
  /\ UNCHANGED <<fetching, askedOf, keyNetwork>>

(* handleRemove. *)
RemoveKey(k) ==
  /\ k \in ListedKeys(entries)
  /\ entries' = [entries EXCEPT ![k] = "gone"] /\ wanted' = wanted \ {k} /\ Edited(k)
  /\ UNCHANGED <<fetching, askedOf, keyNetwork>>

(* fetchData; its button is disabled while it runs. *)
FetchData ==
  /\ ~ Loading /\ ListedKeys(entries) # {}
  /\ fetching' = entries /\ askedOf' = keyNetwork
  /\ UNCHANGED <<entries, keyNetwork, wanted, edited>>

(* Mutants: an entry that is not found keeps its value; only the entries   *)
(* found are kept.                                                         *)
UpdatedIfFound(found) ==
  [k \in StorageKey |-> IF k \in found THEN askedOf ELSE fetching[k]]
FoundOnly(found) == [k \in StorageKey |-> IF k \in found THEN askedOf ELSE "gone"]

Updated(found) ==
  [k \in StorageKey |-> CASE k \in found -> askedOf
                          [] k \in ListedKeys(fetching) \ found -> "notFound"
                          [] OTHER -> "gone"]

FetchAnswered(found) ==
  /\ Loading /\ found \subseteq ListedKeys(fetching)
  /\ entries' = Updated(found) /\ fetching' = NoEntries
  /\ UNCHANGED <<askedOf, keyNetwork, wanted, edited>>

FetchFails ==
  /\ Loading /\ fetching' = NoEntries
  /\ UNCHANGED <<entries, askedOf, keyNetwork, wanted, edited>>

SwitchKeyNetwork(n) ==
  /\ n # keyNetwork /\ keyNetwork' = n
  /\ UNCHANGED <<entries, fetching, askedOf, wanted, edited>>

(* Mutant: the answer of the fetch comes into the next list. *)
LeaveStorageFetching ==
  /\ entries' = NoEntries /\ wanted' = {} /\ edited' = {}
  /\ UNCHANGED <<fetching, askedOf, keyNetwork>>

(* The tab is left: the list lives in the component, and goes with it.     *)
LeaveStorage ==
  /\ entries' = NoEntries /\ fetching' = NoEntries /\ wanted' = {} /\ edited' = {}
  /\ UNCHANGED <<askedOf, keyNetwork>>

StorageNext ==
  \/ \E k \in StorageKey : AddKey(k) \/ RemoveKey(k)
  \/ FetchData \/ FetchFails \/ LeaveStorage
  \/ \E found \in SUBSET StorageKey : FetchAnswered(found)
  \/ \E n \in StorageNetwork : SwitchKeyNetwork(n)

StorageSpec == StorageInit /\ [][StorageNext]_storageVars

-----------------------------------------------------------------------------
(* The list has its type; a key of a fetch under way that has left the     *)
(* list since did so by a removal.                                         *)
StorageTypeOK ==
  /\ entries \in [StorageKey -> Unread \cup StorageNetwork]
  /\ fetching \in [StorageKey -> Unread \cup StorageNetwork]
  /\ askedOf \in StorageNetwork /\ keyNetwork \in StorageNetwork
  /\ wanted \subseteq StorageKey /\ edited \subseteq StorageKey
  /\ Loading => \A k \in ListedKeys(fetching) \ ListedKeys(entries) : k \in edited

(* The list holds the keys the user has added and not removed, except that *)
(* a key added during a fetch may be lost and one removed may come back.   *)
KeysKeptUnlessRaced ==
  \A k \in StorageKey : (k \in ListedKeys(entries)) # (k \in wanted) => k \in edited

(* The values in the list were all read from one network.                  *)
ValuesOfOneNetwork ==
  \A k, l \in StorageKey : {entries[k], entries[l]} \subseteq StorageNetwork =>
    entries[k] = entries[l]

(* Together: no key is lost and no two networks are mixed in one list, but *)
(* for the race named.                                                     *)
StorageInv ==
  /\ StorageTypeOK /\ KeysKeptUnlessRaced /\ ValuesOfOneNetwork
=============================================================================
