----------------------------- MODULE CategoryTree -----------------------------
(***************************************************************************)
(* The tree of categories and what each keeps of its ancestors: the path   *)
(* of slugs in its URL and its full name.                                  *)
(*                                                                         *)
(* The admin's form saves a category, which rebuilds its own path and name *)
(* from its parent's and, if it was renamed, those of its descendants; and *)
(* then moves it, which does both again in the new place.  The refresh     *)
(* goes down the tree, parents first, and keeps what it has computed.      *)
(*                                                                         *)
(* Abstractions.  One member of the staff edits the tree at a time.  The   *)
(* positions of treebeard's materialised path are the parent relation; a   *)
(* slug is the name it was made from and a number.                         *)
(***************************************************************************)
EXTENDS Integers, Sequences, FiniteSets, FiniteSetsExt, SequencesExt

CONSTANTS
  Categories, \* rows that may exist
  Names

VARIABLES
  parent,  \* the parent of a category, Top, or Absent
  name,    \* Category.name
  slug,    \* Category.slug
  cache    \* Category.url_path and full_name_cached

treeVars == <<parent, name, slug, cache>>

Top == "top"
Absent == "absent"
NoName == "none"
NoSlug == <<NoName, 0>>
Empty == [path |-> <<>>, full |-> <<>>]

Present(tree) == {n \in Categories : tree[n] # Absent}

\* The rows from the root down to each category.
Branches(tree) ==
  LET down[n \in Present(tree)] ==
        IF tree[n] = Top THEN <<n>> ELSE Append(down[tree[n]], n)
  IN down

Descendants(tree, n) ==
  {m \in Present(tree) \ {n} : n \in ToSet(Branches(tree)[m])}

-----------------------------------------------------------------------------
\* generate_unique_slug: the first number that is free.
UniqueSlug(base) ==
  LET taken == {slug[n][2] : n \in {m \in Categories : slug[m][1] = base}}
  IN <<base, Min((1..Cardinality(taken) + 1) \ taken)>>

\* _build_url_path, _build_full_name: from what the parent has.
Built(caches, tree, names, slugs, n) ==
  LET above == IF tree[n] = Top THEN Empty ELSE caches[tree[n]]
  IN [path |-> Append(above.path, slugs[n]), full |-> Append(above.full, names[n])]

\* Mutant: every descendant is built from the parent as it is stored.
RefreshFromStored(caches, tree, names, slugs, n) ==
  LET below == Descendants(tree, n)
  IN [m \in Categories |->
        IF m \in below THEN Built(caches, tree, names, slugs, m) ELSE caches[m]]

\* _refresh_descendants: parents come before their children, which are built
\* from the parent as it has just been computed.
RefreshDescendants(caches, tree, names, slugs, n) ==
  LET below == Descendants(tree, n)
      fresh[m \in Present(tree)] ==
        IF m \in below THEN Built(fresh, tree, names, slugs, m) ELSE caches[m]
  IN [m \in Categories |-> IF m \in below THEN fresh[m] ELSE caches[m]]

\* save of a category in the tree.
Saved(caches, names, n) ==
  LET own == [caches EXCEPT ![n] = Built(caches, parent, names, slug, n)]
  IN IF names[n] # name[n] THEN RefreshDescendants(own, parent, names, slug, n) ELSE own

\* move: rebuilt in the new place.
Moved(caches, tree, names, n) ==
  RefreshDescendants([caches EXCEPT ![n] = Built(caches, tree, names, slug, n)],
                     tree, names, slug, n)

-----------------------------------------------------------------------------
Add(n, above, called) ==
  /\ parent[n] = Absent /\ above # n
  /\ above = Top \/ above \in Present(parent)
  /\ parent' = [parent EXCEPT ![n] = above]
  /\ name' = [name EXCEPT ![n] = called]
  /\ slug' = [slug EXCEPT ![n] = UniqueSlug(called)]
  /\ cache' = [cache EXCEPT ![n] = Built(cache, parent', name', slug', n)]

\* The admin's form of a category: save, and a move to where the form says.
Edit(n, above, called) ==
  /\ parent[n] # Absent
  /\ above = Top \/ above \in Present(parent) \ (Descendants(parent, n) \cup {n})
  /\ name' = [name EXCEPT ![n] = called]
  /\ parent' = [parent EXCEPT ![n] = above]
  /\ cache' = Moved(Saved(cache, name', n), parent', name', n)
  /\ UNCHANGED slug

\* A save without a move: the seed commands, and code that renames.
Rename(n, called) ==
  /\ parent[n] # Absent /\ called # name[n]
  /\ name' = [name EXCEPT ![n] = called]
  /\ cache' = Saved(cache, name', n)
  /\ UNCHANGED <<parent, slug>>

\* treebeard deletes the descendants with a category.
Delete(n) ==
  /\ parent[n] # Absent
  /\ LET gone == {n} \cup Descendants(parent, n)
         Without(f, none) == [m \in Categories |-> IF m \in gone THEN none ELSE f[m]]
     IN /\ parent' = Without(parent, Absent)
        /\ name' = Without(name, NoName)
        /\ slug' = Without(slug, NoSlug)
        /\ cache' = Without(cache, Empty)

-----------------------------------------------------------------------------
Init ==
  /\ parent = [n \in Categories |-> Absent]
  /\ name = [n \in Categories |-> NoName]
  /\ slug = [n \in Categories |-> NoSlug]
  /\ cache = [n \in Categories |-> Empty]

Next ==
  \E n \in Categories :
    \/ \E above \in Categories \cup {Top}, called \in Names :
          Add(n, above, called) \/ Edit(n, above, called)
    \/ \E called \in Names : Rename(n, called)
    \/ Delete(n)

Spec == Init /\ [][Next]_treeVars

-----------------------------------------------------------------------------
\* What every category keeps of its ancestors is what they are, however deep
\* it lies below a category that is renamed or moved, and no two categories
\* have the same path (Category.save, Category.move; url_path,
\* full_name_cached).
PathsMatchTree ==
  LET present == Present(parent) IN
  /\ \A n \in present :
       LET branch == Branches(parent)[n] IN
         /\ cache[n].path = [i \in DOMAIN branch |-> slug[branch[i]]]
         /\ cache[n].full = [i \in DOMAIN branch |-> name[branch[i]]]
  /\ \A m, n \in present : m # n => cache[m].path # cache[n].path
=============================================================================
