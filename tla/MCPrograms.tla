----------------------------- MODULE MCPrograms ------------------------------
(* Small databases for Database and a mail box for Mail.  The two have     *)
(* nothing in common; a behaviour is of one of them.                       *)
EXTENDS Database, Mail

VARIABLE program        \* which one

TheHashes == << 2, 6, 1, 10, 0 >>
TheSizes  == << 1, 1, 1, 1, 3 >>
TheShipped ==
  [ f \in Files |->
      IF f \in ReadOnly
      THEN [ pages |-> (0 :> { Item(1, 0, 1) }), size |-> 0, bits |-> {},
             data |-> << << 1, 0 >> >> ]
      ELSE [ pages |-> [ n \in {} |-> {} ], size |-> 0, bits |-> {}, data |-> << >> ] ]
Plan(offered, keys, lengths, n, ends) ==
  [ offered |-> offered, keys |-> keys, lengths |-> lengths, puts |-> n, crashes |-> ends ]
ThePlans ==
  { Plan(<< {2}, {} >>, {1, 2, 3, 4}, {1}, 6, 1),        \* pages split, over and over
    Plan(<< {2}, {} >>, {1, 3, 5}, {1, 2}, 5, 2),        \* texts in each other's place
    Plan(<< {1, 2}, {3} >>, {1, 2, 3}, {1}, 5, 0) }      \* three databases in turn

TheStyles ==
  { << "From ", "to", "subject", "", "text", "" >>,
    << "From ", "date", "from", "", "text", "", "text", "" >>,
    << "date", "from", "", "text", "" >>,
    << "^C", "from", "to", "", "From ", "" >>,
    << "^C", "date", "", "text" >> }

Init == /\ program \in {"database", "collectmail"} /\ DatabaseInit /\ MailInit
        /\ program = "database" \/ plan = (CHOOSE p \in Plans : TRUE)
Next == \/ program = "database" /\ DatabaseNext /\ UNCHANGED << program, mailvars >>
        \/ program = "collectmail" /\ MailNext /\ UNCHANGED << program, dbvars >>
Spec == Init /\ [][Next]_<< program, dbvars, mailvars >>
===============================================================================
