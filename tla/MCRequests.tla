----------------------------- MODULE MCRequests ------------------------------
(* An Ear (3) and a model whose case is called "stereo", for TLC.          *)
EXTENDS Requests

MCEarbuds == {"e3", "h1"}
MCModelOf == [d \in MCEarbuds |-> IF d = "e3" THEN "EarThree" ELSE "Elekid"]

Worn == [InEar |-> TRUE, InCase |-> FALSE, Connected |-> TRUE]
Owner == [MAC |-> <<1, 1, 1, 1, 1, 1>>, Name |-> <<65, 32, 66>>, Connected |-> TRUE, Owner |-> TRUE]
Other == [MAC |-> <<2, 2, 2, 2, 2, 2>>, Name |-> <<>>, Connected |-> FALSE, Owner |-> FALSE]

MCSettings == [d \in MCEarbuds |->
  [set |-> [f \in {x \in Features : ModelSupportsFeature(Codename(MCModelOf[d]), x)} |->
     CASE f = "anc" -> <<"off", "high">>
       [] f = "eq" -> <<"balanced">>
       [] f = "spatial" -> <<"off", "off">>
       [] OTHER -> <<OnOff(f = "lag" \/ (f = "dual" /\ d = "h1"))>>],
   battery |-> IF d = "e3" THEN ("left" :> <<60, "idle">> @@ "case" :> <<90, "charging">>)
                           ELSE ("left" :> <<50, "idle">> @@ "stereo" :> <<80, "idle">>),
   wear |-> ("left" :> Worn @@ "case" :> Worn),
   peers |-> IF d = "h1" THEN <<Owner, Other>> ELSE <<>>]]

\* What counts once may meet with another connection, or with news.
AskFor(what, words, cmds, counts) == [what |-> what, words |-> words, cmds |-> cmds, counts |-> counts]

MCAsks == {
  AskFor("feature", <<"anc", "off">>, <<>>, 2), AskFor("feature", <<"walkie-talkie", "off">>, <<>>, 1),
  AskFor("feature", <<"walkie-talkie", "on">>, <<>>, 2), AskFor("refresh", <<>>, <<>>, 2),
  AskFor("peers", <<>>, <<>>, 2), AskFor("peer", <<>>, <<>>, 2),
  AskFor("scan", <<>>, <<\hC01F, \hC01F>>, 2), AskFor("scan", <<>>, <<\hCFFF, \hD000>>, 2),
  AskFor("command", <<>>, <<\hF03D>>, 2), AskFor("command", <<>>, <<\hF00E>>, 2)}

New(what, value, counts) == [what |-> what, value |-> value, counts |-> counts]
MCNews == {
  New("anc", <<"transparency", "high">>, 2), New("lag", <<"off">>, 2), New("super-mic", <<"on">>, 2), New("left", <<55, "charging">>, 2),
  New("peers", <<Owner>>, 2), New("bytes", <<7>>, 2), New("bytes", <<85, 0, 1, 0, 0, 0, 80, 0>>, 2),
  New("packet", Packet(\hE014, <<2, 1>>), 2)}
=============================================================================
