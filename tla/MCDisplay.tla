------------------------------ MODULE MCDisplay ------------------------------
(* Small terminals and texts for Redisplay. *)
EXTENDS Redisplay

a == 97  b == 98

Able == [ L |-> 4, W |-> 4, ILov |-> 1, ILmf |-> 0, ICov |-> 1, ICmf |-> 0,
          DCov |-> 1, DCmf |-> 0, needspaces |-> FALSE, window |-> FALSE ]
Windowed == [ Able EXCEPT !.window = TRUE, !.ILmf = 1, !.ICmf = 1 ]
Plainer  == [ Able EXCEPT !.ICov = MissingFeature, !.DCov = MissingFeature,
                          !.needspaces = TRUE ]
Dumb     == [ Plainer EXCEPT !.ILov = MissingFeature ]

NoWindow == << [ buf |-> 1, height |-> 2 ] >>

Scene(kind, term, lines, win, text, chars, keys, room) ==
  [ kind |-> kind, tt |-> term, lines |-> lines, win |-> win, text |-> text, chars |-> chars, keys |-> keys, room |-> room,
    wrap |-> FALSE, step |-> 0, quick |-> FALSE, modes |-> TRUE, procs |-> {},
    quiets |-> {9}, say |-> << a >> ]

Text(k) == UNION { [ 1..n -> {Space, a, b} ] : n \in 0..k }
Line(s, h) == [ body |-> s, hl |-> h ]

OneRowScenes ==
  { Scene("rows", [ t EXCEPT !.L = 1 ], { Line(s, h) : s \in Text(4), h \in BOOLEAN },
          NoWindow, << << >> >>, {}, {}, 0) : t \in {Able, Windowed, Plainer} }
RowsScenes ==
  { [ Scene("rows", t, { Line(s, FALSE) : s \in {<< >>, << a >>, << b, a >>} },
            NoWindow, << << >> >>, {}, {}, 0)
      EXCEPT !.quiets = IF t = Able THEN {9} ELSE {2, 9} ] : t \in {Able, Windowed} }

Edit == {"insert", "delete", "rubout", "move", "scroll", "say", "write"}
OneWindow == << [ buf |-> 1, height |-> 3 ] >>
TwoWindows(k) == << [ buf |-> 1, height |-> 2 ], [ buf |-> k, height |-> 2 ] >>
Two(t) == [ t EXCEPT !.L = 5 ]

EditScenes ==
  { [ Scene("text", Able, {}, OneWindow, << << a, Newline >> >>, {a, Newline},
            Edit, 4) EXCEPT !.wrap = TRUE ],
    [ Scene("text", Dumb, {}, OneWindow, << << a, Newline >> >>, {a, Newline, Tab},
            Edit \ {"write"}, 3) EXCEPT !.step = 1 ] }
PairScenes ==
  { [ Scene("text", Two(Windowed), {}, TwoWindows(1), << << a, Newline >> >>, {a},
            {"insert", "delete", "window", "move"}, 3) EXCEPT !.procs = {1} ],
    [ Scene("text", Two(Windowed), {}, TwoWindows(2), << << a, Newline >>, << b >> >>,
            {a, Newline}, {"insert", "window", "move"}, 2)
      EXCEPT !.procs = {2}, !.quiets = {2, 9} ] }

(* Keys typed ahead, or the steps of one MLisp function. *)
AheadScenes ==
  { Scene("text", Dumb, {}, OneWindow, << << a, Newline >> >>, {a}, {"insert", "move"}, 4) }
AllScenes == OneRowScenes \cup RowsScenes \cup EditScenes \cup PairScenes
==============================================================================
