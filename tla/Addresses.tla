------------------------------- MODULE Addresses -------------------------------
(***************************************************************************)
(* One user's delivery addresses, of which at most one is the default.     *)
(*                                                                         *)
(* Nothing in the database holds the invariant.  Address.save() clears the *)
(* flag of the other addresses in one statement and saves its own row in   *)
(* the next; a statement sees what was committed when it began, and what   *)
(* it changes is seen by others after COMMIT.  No lock is taken before.    *)
(*                                                                         *)
(* Abstractions.  The text of an address is left out: an edit either       *)
(* changes the flag or saves it as it was loaded.                          *)
(***************************************************************************)
EXTENDS Integers, FiniteSets

CONSTANTS
  Clients,      \* requests and admin pages that may be open at the same time
  MaxAddresses, \* MAX_ADDRESSES_PER_USER
  MaxKey        \* bound: addresses ever added

VARIABLES
  addresses, \* Address rows: primary key and is_default
  lastKey,   \* the last primary key given out
  client,    \* what the requests are at
  met        \* history: the last save of a default address met another one

addressVars == <<addresses, lastKey, client, met>>

Idle == [step |-> "idle"]
Row(key, default) == [key |-> key, default |-> default]
Others(row) == {a \in addresses : a.key # row.key}
Defaults(rows) == {a \in rows : a.default}

\* A request has the row it is going to save; `fresh' rows are inserted, a
\* `flag' is saved alone.
Hold(c, kind, row) ==
  /\ client[c] = Idle
  /\ client' = [client EXCEPT ![c] = [step |-> "saving", kind |-> kind, row |-> row,
                                      seen |-> {}, alone |-> TRUE]]
  /\ UNCHANGED <<addresses, met>>

-----------------------------------------------------------------------------
\* create_address, after its count.
CreateAddress(c, default) ==
  /\ Cardinality(addresses) < MaxAddresses
  /\ lastKey < MaxKey /\ lastKey' = lastKey + 1
  /\ Hold(c, "fresh", Row(lastKey', default))

\* update_address, and the admin form: the row is loaded, and saved whole.
LoadAddress(c, address, default) ==
  /\ Hold(c, "whole", Row(address.key, default))
  /\ UNCHANGED lastKey

SetDefault(c, address) ==
  /\ Hold(c, "flag", Row(address.key, TRUE))
  /\ UNCHANGED lastKey

\* Address.save(), its first statement: another request may be between this
\* statement and its COMMIT.
ClearOthers(c) ==
  LET between == {d \in Clients \ {c} : client[d].step = "cleared"}
  IN /\ client[c].step = "saving" /\ client[c].row.default
     /\ client' = [d \in Clients |->
          IF d = c THEN [client[c] EXCEPT !.step = "cleared", !.alone = (between = {}),
                                          !.seen = Defaults(Others(client[c].row))]
          ELSE IF d \in between THEN [client[d] EXCEPT !.alone = FALSE]
          ELSE client[d]]
     /\ UNCHANGED <<addresses, lastKey, met>>

\* A deleted row is inserted again by a whole save; a save of the flag alone
\* fails.
Exists(row) == \E a \in addresses : a.key = row.key

\* Mutant: the others are left as they are.
SaveOnly(c, cleared) ==
  addresses' = Others(client[c].row) \cup {client[c].row}

\* The UPDATE or INSERT, and what was cleared before, are committed.
SaveRow(c, cleared) ==
  addresses' = {IF a.key \in {s.key : s \in cleared} THEN [a EXCEPT !.default = FALSE] ELSE a :
                  a \in Others(client[c].row)}
                 \cup {client[c].row}

\* Address.save() of an address that is not the default.
SaveOther(c) ==
  /\ client[c].step = "saving" /\ ~client[c].row.default
  /\ SaveRow(c, {})
  /\ client' = [client EXCEPT ![c] = Idle]
  /\ UNCHANGED <<lastKey, met>>

SaveDefault(c) ==
  /\ client[c].step = "cleared"
  /\ client[c].kind = "flag" => Exists(client[c].row)
  /\ SaveRow(c, client[c].seen)
  /\ met' = ~client[c].alone
  /\ client' = [client EXCEPT ![c] = Idle]
  /\ UNCHANGED lastKey

DeleteAddress(address) ==
  /\ addresses' = addresses \ {address}
  /\ UNCHANGED <<lastKey, client, met>>

\* A refusal or a failure: ROLLBACK.
Refuse(c) ==
  /\ client[c] # Idle
  /\ client' = [client EXCEPT ![c] = Idle]
  /\ UNCHANGED <<addresses, lastKey, met>>

Init ==
  /\ addresses = {} /\ lastKey = 0 /\ client = [c \in Clients |-> Idle] /\ met = FALSE

Next ==
  \/ \E c \in Clients :
       \/ \E default \in BOOLEAN : CreateAddress(c, default)
       \/ \E address \in addresses :
            \/ \E default \in BOOLEAN : LoadAddress(c, address, default)
            \/ SetDefault(c, address)
       \/ ClearOthers(c) \/ SaveOther(c) \/ SaveDefault(c) \/ Refuse(c)
  \/ \E address \in addresses : DeleteAddress(address)

Spec == Init /\ [][Next]_addressVars

-----------------------------------------------------------------------------
\* A user has at most one default address, whatever is edited, deleted, saved
\* from an old copy or inserted again, unless the last two requests that made
\* one the default met between clearing the others and COMMIT; the next one
\* by itself sets it right (Address.save).
OneDefault == Cardinality(Defaults(addresses)) <= 1 \/ met
=============================================================================
