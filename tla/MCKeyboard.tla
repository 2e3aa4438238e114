----------------------------- MODULE MCKeyboard -----------------------------
(* Tables for model checking Keyboard. *)
EXTENDS Keyboard

KeysVal == {"a", "b", "n", "E", "X", "R", "(", ")", "e", "u", "^G"}

Prefix(m) == Name("key", << >>, m)

SpellVal == [c \in KeysVal |-> CASE c = "n" -> "name" [] c = "b" -> "down"
                                 [] c = ")" -> "stop" [] OTHER -> "other"]
FilesVal == [name |-> [name |-> << "b" >>]]

Bound(f) == f @@ NoKeys
MinibufKeys == [R |-> "exit"] @@ ("^G" :> "abort")
Scene(keys, max, global, local, maps, names) ==
  [keys |-> keys, max |-> max, global |-> "global",
   locals |-> [text |-> IF local = << >> THEN None ELSE "local", minibuf |-> None],
   maps |-> maps @@ ("global" :> Bound(global))
                 @@ ("minibuf map" :> Bound(MinibufKeys))
                 @@ (IF local = << >> THEN << >> ELSE "local" :> Bound(local)),
   names |-> names]

(* Letters that are commands in the text are typed into answers. *)
Writing == "minibuf map" :> Bound([c \in {"a", "b", "n"} |-> "self"] @@ MinibufKeys)

(* Prefixes in both maps, one of them over a global command. *)
TwoMaps == Scene({"a", "b", "X"}, 7,
  [a |-> "self", b |-> "down", X |-> "gx"], [X |-> "lx", b |-> "lb"],
  ("gx" :> Bound([a |-> "up", b |-> "gxb", X |-> "top"])) @@ ("gxb" :> Bound([a |-> "top", b |-> "self"]))
    @@ ("lx" :> Bound([b |-> "here", a |-> "lxa", X |-> "there"])) @@ ("lb" :> Bound([a |-> "there"]))
    @@ ("lxa" :> Bound([b |-> "where"])),
  [m \in {"gx", "gxb", "lx", "lb", "lxa"} |-> Prefix(m)])

MacroKeys == [a |-> "self", u |-> "argument", X |-> "cx", e |-> "exec"]
             @@ ("(" :> "start") @@ ("^G" :> "illegal")
CtlXKeys == ("cx" :> Bound([a |-> "up"] @@ (")" :> "stop")))

(* The keyboard macro, its end behind a prefix key. *)
KeyboardMacro == Scene({"a", "u", "X", "e", "(", ")", "^G"}, 7, MacroKeys, << >>,
  CtlXKeys, [cx |-> Prefix("cx")])

(* The same with questions in it. *)
QuestionMacro == Scene({"b", "X", "e", "n", "R", "(", ")"}, 8,
  [b |-> "x", e |-> "exec", n |-> "quote", X |-> "cx"] @@ ("(" :> "start"), << >>,
  CtlXKeys, [cx |-> Prefix("cx")])

(* A key of the macro is bound while it is remembered, and after. *)
Rebinding == Scene({"a", "b", "e", "R", "(", ")"}, 8,
  [a |-> "bind", b |-> "top", e |-> "exec"] @@ ("(" :> "start") @@ (")" :> "stop"), << >>,
  Writing, << >>)

(* Named macros and autoloaded names. *)
NamedMacro == Scene({"a", "b", "n", "e", "R", "^G"}, 8,
  [a |-> "x", b |-> "down", e |-> "defString"] @@ ("^G" :> "illegal"), << >>, Writing, << >>)
Autoloaded == Scene({"a", "b", "n", "e", "R"}, 8,
  [a |-> "x", b |-> "down", e |-> "autoload"], << >>, Writing, << >>)
NameMacro == Scene({"a", "b", "n", "e", "R", "(", ")"}, 7,
  [a |-> "name", b |-> "down", e |-> "defKeyboard"] @@ ("(" :> "start") @@ (")" :> "stop"), << >>, Writing,
  [name |-> Macro(<< "b" >>)])

(* Binding and removing keys, with and without a local map. *)
Binding == Scene({"a", "b", "X", "e", "R"}, 8,
  [a |-> "bind", e |-> "unbind", b |-> "top", X |-> "gx"], << >>,
  Writing @@ ("gx" :> Bound([a |-> "up", b |-> "self"])), [gx |-> Prefix("gx")])
LocalBinding == Scene({"a", "b", "X", "e", "R", "u"}, 7,
  [a |-> "localBind", e |-> "localUnbind", u |-> "localClear", b |-> "top"], << >>, Writing, << >>)

(* Key maps that are defined, put in place, called by name, behind two keys. *)
Maps == Scene({"a", "b", "n", "e", "R", "u"}, 7,
  [a |-> "defKeymap", e |-> "useLocal", u |-> "useGlobal", b |-> "top"], << >>,
  Writing @@ ("nm" :> Bound([b |-> "up"])), [name |-> Prefix("nm")])
Called == Scene({"a", "b", "n", "e", "R"}, 7,
  [a |-> "x", b |-> "bind", e |-> "nm2"], << >>,
  Writing @@ ("nm" :> Bound([b |-> "up", a |-> "nm2"])) @@ ("nm2" :> Bound([b |-> "here"])),
  [name |-> Prefix("nm"), nm2 |-> Prefix("nm2")])

(* A macro that ends in a prefix key; commands that remove the prefixes    *)
(* they are bound under.                                                   *)
HalfMacro == Scene({"a", "b", "e"}, 6,
  [a |-> "self", b |-> "gb", e |-> "name"], [b |-> "lb"],
  ("gb" :> Bound([a |-> "up"])) @@ ("lb" :> Bound([a |-> "here"])),
  [gb |-> Prefix("gb"), lb |-> Prefix("lb"), name |-> Macro(<< "b" >>)])
Under == Scene({"a", "b", "e"}, 6,
  [a |-> "localClear", e |-> "localUnbind"], [a |-> "la", e |-> "le"],
  ("la" :> Bound([b |-> "up"])) @@ ("le" :> Bound([a |-> "here", b |-> "la"])),
  [la |-> Prefix("la"), le |-> Prefix("le")])

(* Characters pushed back, meta characters, recursive edits. *)
Pushed == Scene({"a", "b", "e", "E", "^G"}, 6,
  [a |-> "self", b |-> "pushBack", E |-> "esc", e |-> "quote"] @@ ("^G" :> "illegal"), << >>,
  ("esc" :> Bound([a |-> "up", b |-> "down"])), [esc |-> Prefix("esc")])

Recursive == Scene({"a", "b", "n", "X", "e", "^G"}, 6,
  [a |-> "self", b |-> "edit", n |-> "exit", X |-> "cx", e |-> "name"] @@ ("^G" :> "illegal"), << >>,
  ("cx" :> Bound([a |-> "up", n |-> "exit"])),
  [cx |-> Prefix("cx"), name |-> Macro(<< "a", "X", "n", "a" >>)])

ScenesVal == {TwoMaps, KeyboardMacro, QuestionMacro, NamedMacro, Autoloaded, NameMacro,
              Binding, LocalBinding, Maps, Called, HalfMacro, Under, Rebinding, Pushed, Recursive}
=============================================================================
