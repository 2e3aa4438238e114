------------------------------ MODULE Keymaps -------------------------------
(***************************************************************************)
(* Names and key maps: what a name is bound to (struct BoundName), the     *)
(* maps from keys to names that form the trees behind prefix keys          *)
(* (keyboard.h, keyboard.c), the commands of options.c that change them,   *)
(* and the definition of named macros (macros.c).                          *)
(*                                                                         *)
(* The tables are fields of a record k that the other modules extend:      *)
(*   maps      map -> key -> name bound to it, None when there is none     *)
(*   names     name -> what it is: kind, and body or map                   *)
(*   global    CurrentGlobalMap                                            *)
(*   locals    buffer -> the md_keys of its mode                           *)
(*   buf       the current buffer, "text" or "minibuf"                     *)
(*   undefined something that was freed is still in use, or there are no   *)
(*             more maps: what follows is not defined by the code, and     *)
(*             nothing is modelled after it                                *)
(* A prefix key made by binding a longer sequence has a name of its own,   *)
(* "BOGUS!" in the code; here it is named like its map.                    *)
(***************************************************************************)
EXTENDS Integers, Sequences, FiniteSets, SequencesExt, FiniteSetsExt, Functions

CONSTANTS
  Keys,         \* the characters that are typed
  Esc, CtlX,    \* the two prefix keys a local map always has
  Spell,        \* key -> the name it spells when it is typed as an answer
  MapIds        \* bound: the maps that may be made

None == "none"
Null == "null"                       \* the empty map of ProcessKeys

ASSUME MapIdsAssumption == None \notin MapIds /\ Null \notin MapIds

NoKeys == [c \in Keys |-> None]

(* The commands that are procedures: those whose effect on the keyboard is *)
(* modelled, and some that have none.                                      *)
Plain   == {"self", "down", "up", "top", "here", "there", "where"}
Wired   == Plain \union
           {"start", "stop", "exec", "edit", "exit", "abort", "illegal", "argument", "quote",
            "pushBack", "unbind", "localUnbind", "localClear", "x", "bind", "localBind",
            "useGlobal", "useLocal", "defKeymap", "defKeyboard", "defString", "autoload"}

Name(kind, body, map) == [kind |-> kind, body |-> body, map |-> map]
Named(k, n) == n \in Wired \union DOMAIN k.names
Kind(k, n)  == IF n \in Wired THEN "proc"
               ELSE IF n \in DOMAIN k.names \ {None} THEN k.names[n].kind ELSE None
IsPrefixKey(k, n) == Kind(k, n) = "key"
LocalMap(k) == k.locals[k.buf]

FreeMaps(k) == MapIds \ DOMAIN k.maps

(* What a key is bound to in a map: nothing where there is no map, and     *)
(* nothing in the empty one.                                               *)
BoundTo(k, map, c) == IF map \in {None, Null} THEN None ELSE k.maps[map][c]

(* The map behind a key, and behind the keys s.                            *)
Down(k, map, c) ==
  LET n == BoundTo(k, map, c) IN IF IsPrefixKey(k, n) THEN k.names[n].map ELSE None
Along(k, map, s) ==
  LET at[i \in 0..Len(s)] == IF i = 0 THEN map ELSE Down(k, at[i - 1], s[i])
  IN  at[Len(s)]

(* What the last of the keys s is bound to. *)
LookupKeys(k, map, s) == BoundTo(k, Along(k, map, Front(s)), Last(s))

(* describe-key: the local map first. *)
DescribeKey(k, s) ==
  LET l == LookupKeys(k, LocalMap(k), s)
  IN  IF l # None THEN l ELSE LookupKeys(k, k.global, s)

(***************************************************************************)
(* Binding a sequence of keys.  Maps on the way that are missing are made. *)
(***************************************************************************)
NewMap(k) ==
  IF FreeMaps(k) = {} THEN [id |-> None, k |-> [k EXCEPT !.undefined = TRUE]]
  ELSE LET m == CHOOSE m \in FreeMaps(k) : TRUE
       IN  [id |-> m, k |-> [k EXCEPT !.maps = @ @@ (m :> NoKeys)]]

Deepen(w, c) ==
  LET n == w.k.maps[w.at][c]
      f == NewMap(w.k)
  IN  IF IsPrefixKey(w.k, n) THEN [w EXCEPT !.at = w.k.names[n].map]
      ELSE [at |-> f.id,
            k  |-> [f.k EXCEPT !.maps[w.at][c] = f.id,
                               !.names = (f.id :> Name("key", << >>, f.id)) @@ @]]

(* A slip: a prefix key that is there already is made anew. *)
PerformBind_afresh(k, map, s, n) ==
  LET f == NewMap(k)
  IN  IF Len(s) = 1 THEN [k EXCEPT !.maps[map][s[1]] = n]
      ELSE [f.k EXCEPT !.maps[map][s[1]] = f.id,
                       !.maps[f.id][Last(s)] = n,
                       !.names = (f.id :> Name("key", << >>, f.id)) @@ @]

PerformBind(k, map, s, n) ==
  LET w[i \in 0..Len(s) - 1] ==
        IF i = 0 THEN [k |-> k, at |-> map] ELSE Deepen(w[i - 1], s[i])
      e == w[Len(s) - 1]
  IN  [k EXCEPT !.maps = [e.k.maps EXCEPT ![e.at][Last(s)] = n],
                !.names = e.k.names, !.undefined = e.k.undefined]

WithLocalMap(k) ==
  IF LocalMap(k) # None THEN k
  ELSE LET f == NewMap(k) IN [f.k EXCEPT !.locals[k.buf] = f.id]

(* Makes sure that the local map exists and has maps behind its two        *)
(* prefix keys: binds the key after them that is never typed to nothing.   *)
EmptyPrefix(k, c) == IF k.maps[LocalMap(k)][c] = None
                     THEN Deepen([k |-> k, at |-> LocalMap(k)], c).k ELSE k
InitializeLocalMap(k) == EmptyPrefix(EmptyPrefix(WithLocalMap(k), Esc), CtlX)

BindToKey(k, n, s)      == PerformBind(k, k.global, s, n)
LocalBindToKey(k, n, s) == PerformBind(k, LocalMap(k), s, n)

Unbind(k, map, s) ==
  LET at == Along(k, map, Front(s))
  IN  IF at = None THEN k ELSE [k EXCEPT !.maps[at][Last(s)] = None]
RemoveBinding(k, s)      == Unbind(k, k.global, s)
RemoveLocalBinding(k, s) == Unbind(k, LocalMap(k), s)
RemoveAllLocalBindings(k) ==
  IF LocalMap(k) = None THEN k ELSE [k EXCEPT !.maps[LocalMap(k)] = NoKeys]

(***************************************************************************)
(* Definitions.  DefMac frees what the name was bound to: a body that is   *)
(* being read, or a map that is the current one, is used after it has gone *)
(* (the two statements that should have put another map in its place are   *)
(* comparisons).                                                           *)
(***************************************************************************)
Readers(k)  == { k.mem.own } \union { k.stack[i].mem.own : i \in DOMAIN k.stack }
                             \union { k.stack[i].own : i \in DOMAIN k.stack }
FreesUsed(k, n) ==
  \/ Kind(k, n) \in {"macro", "autoload"} /\ n \in Readers(k)
  \/ IsPrefixKey(k, n) /\ k.names[n].map \in {k.global, LocalMap(k)}

Unmapped(k, n) ==
  IF ~IsPrefixKey(k, n) THEN k
  ELSE [k EXCEPT !.locals = [b \in DOMAIN @ |-> IF @[b] = k.names[n].map THEN None ELSE @[b]],
                 !.l = None, !.g = None]

DefMac(k, n, as) ==
  [Unmapped(k, n) EXCEPT !.names = (n :> as) @@ @,
                         !.undefined = @ \/ FreesUsed(k, n)]

Macro(body)      == Name("macro", body, None)
AutoloadOf(file) == Name("autoload", file, None)

DefineKeymap(k, n) ==
  LET f == NewMap(k) IN DefMac(f.k, n, Name("key", << >>, f.id))

(* A wired procedure cannot be redefined. *)
Define(k, n, what, body) ==
  CASE n \in Wired        -> [k EXCEPT !.err = TRUE, !.l = None, !.g = None]
    [] what = "keymap"   -> DefineKeymap(k, n)
    [] what = "macro"    -> DefMac(k, n, Macro(body))
    [] OTHER             -> DefMac(k, n, AutoloadOf(body))
=============================================================================
