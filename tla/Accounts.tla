------------------------------- MODULE Accounts -------------------------------
(***************************************************************************)
(* The row of one user, and the requests that load it and save it back.    *)
(*                                                                         *)
(* Authentication loads the row with the request; nothing locks it.  Most  *)
(* requests save the columns they change (update_fields); changing the     *)
(* password saves the whole row, as the admin site does, whose form also   *)
(* carries what its page has shown.                                        *)
(*                                                                         *)
(* Abstractions.  Password hashes and names are numbered in the order in   *)
(* which they are chosen.  A reset link is known by the hash it was made   *)
(* from; that it expires is left out.                                      *)
(***************************************************************************)
EXTENDS Integers, FiniteSets

CONSTANTS
  Clients,  \* requests and admin pages that may be open at the same time
  MaxValue  \* bound: passwords, and names, chosen

VARIABLES
  row,        \* the User row: password, name, active
  links,      \* reset links sent, by the hash they are for
  client,     \* what the requests are at, with the copy they have loaded
  chosen,     \* history: passwords and names chosen so far
  latest,     \* history: what each column was last set to on purpose
  putBack     \* history: columns overwritten with an older value

accountVars == <<row, links, client, chosen, latest, putBack>>

Columns == {"password", "name", "active"}
Idle == [step |-> "idle"]

At(c, step) == client[c].step = step
Copy(c) == client[c].copy

-----------------------------------------------------------------------------
\* Authentication (CHECK_USER_IS_ACTIVE) loads the row of an active user.
Load(c, step) ==
  /\ client[c] = Idle /\ row.active
  /\ client' = [client EXCEPT ![c] = [step |-> step, copy |-> row]]
  /\ UNCHANGED <<row, links, chosen, latest, putBack>>

\* A value nobody has chosen before.
Choose(column) ==
  /\ chosen[column] < MaxValue
  /\ chosen' = [chosen EXCEPT ![column] = @ + 1]

\* The columns `meant' are set on purpose; of the others that are written some
\* may get an older value.
Written(c, new, meant) ==
  /\ row' = new
  /\ latest' = [col \in Columns |-> IF col \in meant THEN new[col] ELSE latest[col]]
  /\ client' = [client EXCEPT ![c] = Idle]

\* Mutant: the whole row is saved for one column.
SaveCopy(c, column, value) ==
  /\ Written(c, [Copy(c) EXCEPT ![column] = value], {column})
  /\ putBack' = putBack \ {column}

\* save(update_fields=[column])
SaveColumn(c, column, value) ==
  /\ Written(c, [row EXCEPT ![column] = value], {column})
  /\ putBack' = putBack \ {column}

\* save()
SaveWhole(c, new, meant) ==
  /\ Written(c, new, meant)
  /\ putBack' = {col \in Columns \ meant : new[col] # latest[col]}

\* ChangePasswordView: the old password is checked against the copy.
ChangePassword(c, old) ==
  /\ At(c, "password") /\ old = Copy(c).password
  /\ Choose("password")
  /\ SaveWhole(c, [Copy(c) EXCEPT !.password = chosen'.password], {"password"})
  /\ UNCHANGED links

\* UserService.update_profile
UpdateProfile(c) ==
  /\ At(c, "profile")
  /\ Choose("name")
  /\ SaveColumn(c, "name", chosen'.name)
  /\ UNCHANGED links

\* UserService.deactivate
Deactivate(c) ==
  /\ At(c, "leaving")
  /\ SaveColumn(c, "active", FALSE)
  /\ UNCHANGED <<links, chosen>>

-----------------------------------------------------------------------------
\* PasswordResetRequestView
RequestReset ==
  /\ row.active
  /\ links' = links \cup {row.password}
  /\ UNCHANGED <<row, client, chosen, latest, putBack>>

\* PasswordResetConfirmView loads the row and checks the link against it ...
CheckLink(c, link) == link = row.password /\ Load(c, "link")

\* ... and saves the new password, and nothing else.
ConfirmReset(c) ==
  /\ At(c, "link")
  /\ Choose("password")
  /\ SaveColumn(c, "password", chosen'.password)
  /\ UNCHANGED links

-----------------------------------------------------------------------------
\* The admin site: a page is shown, also of an inactive user ...
OpenForm(c) ==
  /\ client[c] = Idle
  /\ client' = [client EXCEPT ![c] = [step |-> "form", copy |-> row]]
  /\ UNCHANGED <<row, links, chosen, latest, putBack>>

\* ... the form is posted with the name and the flag of the page; the row is
\* loaded again for the columns that are not in the form ...
PostForm(c) ==
  /\ At(c, "form")
  /\ client' = [client EXCEPT ![c] = [step |-> "posted",
                                      copy |-> [Copy(c) EXCEPT !.password = row.password]]]
  /\ UNCHANGED <<row, links, chosen, latest, putBack>>

\* ... and saved whole.  Staff have changed the flag, or something else.
SaveForm(c, flip) ==
  /\ At(c, "posted")
  /\ IF flip THEN SaveWhole(c, [Copy(c) EXCEPT !.active = ~@], {"active"})
     ELSE SaveWhole(c, Copy(c), {})
  /\ UNCHANGED <<links, chosen>>

\* A refusal (a wrong password, a limit) or a failure.
Refuse(c) ==
  /\ client[c] # Idle
  /\ client' = [client EXCEPT ![c] = Idle]
  /\ UNCHANGED <<row, links, chosen, latest, putBack>>

Init ==
  /\ row = [password |-> 0, name |-> 0, active |-> TRUE]
  /\ latest = row /\ putBack = {} /\ links = {}
  /\ chosen = [password |-> 0, name |-> 0]
  /\ client = [c \in Clients |-> Idle]

Next ==
  \/ \E c \in Clients :
       \/ \E step \in {"password", "profile", "leaving"} : Load(c, step)
       \/ \E old \in 0..MaxValue : ChangePassword(c, old)
       \/ UpdateProfile(c) \/ Deactivate(c)
       \/ \E link \in links : CheckLink(c, link)
       \/ ConfirmReset(c) \/ OpenForm(c) \/ PostForm(c)
       \/ \E flip \in BOOLEAN : SaveForm(c, flip)
       \/ Refuse(c)
  \/ RequestReset

Spec == Init /\ [][Next]_accountVars

-----------------------------------------------------------------------------
\* What was last set on purpose stays: the new password, the new name, the
\* account that was closed or opened; only a change of the password and the
\* admin form, which save the whole row, put older values back (UserService,
\* ChangePasswordView, UserAdmin).  So a reset link for a password that was
\* changed since is good for nothing, unless that password was put back.
ChangesKept == \A col \in Columns : row[col] = latest[col] \/ col \in putBack
=============================================================================
