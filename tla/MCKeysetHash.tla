---------------------------- MODULE MCKeysetHash ----------------------------
(***************************************************************************)
(* KeysetHash with a primary key of two columns and three kinds of values. *)
(***************************************************************************)
EXTENDS KeysetHash

MCValues == 0 .. 1
MCKeys == {<<0, 1>>, <<1, 0>>, <<1, 1>>}
MCVersions == {1, 2}
MCBatchSizes == {0, 2}

\* Numbers: written and spelled as they are.
Numbers == [written |-> [v \in MCValues |-> v],
            spelled |-> [v \in MCValues |-> IF v = 0 THEN <<"0">> ELSE <<"1">>]]

\* Two times in the same second: literal() leaves the fraction out.
Times == [Numbers EXCEPT !.written = [v \in MCValues |-> 0]]

\* The texts x and x|x: two keys may be spelled alike.
Texts == [Numbers EXCEPT !.spelled = [v \in MCValues |->
              IF v = 0 THEN <<"x">> ELSE <<"x", "|", "x">>]]

MCKinds == {Numbers, Times, Texts}
=============================================================================
