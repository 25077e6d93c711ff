------------------------------ MODULE MCConf ------------------------------
(***************************************************************************)
(* The instance of Conf that TLC checks: three records that include one    *)
(* another, in every order, nested too deep, in circles, with labels that  *)
(* are not there or there twice; and langmaps that overlap.                *)
(***************************************************************************)
EXTENDS Conf

MCTc(label) == [kind |-> "tc", name |-> label]
MCInc(label) == [kind |-> "include", name |-> label]
MCFlag(name) == [kind |-> "flag", name |-> name]
MCLangs(i) ==
  CASE i = 1 -> << <<"c">>, ":", ".c", ".h" >>
    [] i = 2 -> << <<"cpp">>, ":", ".h", ".C", ",", <<"java">>, ":", ".java" >>
    [] i = 3 -> << <<"yacc">>, ":", ".y", "," >>
MCMap(i) == Value("langmap", MCLangs(i))
MCOf(S, n) == UNION {[1 .. k -> S] : k \in 0 .. n}

MCLinks == {MCInc("a"), MCTc("a"), MCTc("b")}
MCDefaults == MCOf(MCLinks \cup {MCMap(1), Value("skip", <<"s">>)}, 2) \cup MCOf(MCLinks \cup {MCMap(1)}, 3)
MCAs == MCOf({MCInc("b"), MCTc("default"), MCMap(2), MCFlag("icase_path")}, 2)
MCBs == {<<>>, <<MCMap(1)>>, <<MCMap(3)>>, <<MCTc("c"), MCMap(2)>>}
MCRecord3(l, f) == [labels |-> l, fields |-> f]
MCConfFiles ==
  {<<MCRecord3(<<"default">>, x), MCRecord3(<<"a", "alias">>, y), MCRecord3(<<"b">>, z)>> :
     x \in MCDefaults, y \in MCAs, z \in MCBs}
  \cup {<<MCRecord3(<<"x", "b">>, z), MCRecord3(<<"default">>, x), MCRecord3(<<"b">>, <<MCTc("c")>>),
          MCRecord3(<<"c">>, <<MCMap(1), MCTc("b")>>)>> : x \in MCDefaults, z \in MCBs}
MCConfFields == {MCInc(l) : l \in {"a", "b"}} \cup {MCTc(l) : l \in {"a", "b", "c", "default"}}
                \cup {MCMap(i) : i \in 1 .. 3} \cup {Value("skip", <<"s">>), MCFlag("icase_path")}
MCGivenConfs == {<<>>, <<MCMap(2), MCMap(1)>>}
MCDefaultMap == << <<"c">>, ":", ".c", ".h", ",", <<"yacc">>, ":", ".y" >>
=============================================================================
