------------------------------ MODULE MCRestore ------------------------------
(***************************************************************************)
(* Restore over one app and the user data under one stamp, beside snapshots *)
(* that the adapter did not take.                                          *)
(***************************************************************************)
EXTENDS Restore

Shape(source, stamp, pass, has) ==
    [source |-> source, stamp |-> stamp, pass |-> pass, has |-> has]

\* Both passes of a backup of one app, the same stamp for another source, and what
\* something else left in the repository.
MCShapes ==
    { Shape("web", "s1", "1", {"docs", "conf"}),
      Shape("web", "s1", "2", {"docs", "conf"}),
      Shape("web", "s1", "2", {"docs"}),
      Shape("_userdata", "s1", "2", {"docs", "conf"}),
      Shape("not a name", "s1", "2", {"docs"}),
      Shape("", "", "", {"docs"}) }

MCFlags == {<<>>, <<"docs">>, <<"docs", "conf">>, <<"docs", "nowhere">>}
=============================================================================
