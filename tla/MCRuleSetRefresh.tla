-------------------------- MODULE MCRuleSetRefresh --------------------------
(* The four lists and the real deadlines, in units of 15 s; a list has rows or  *)
(* not.  It is due again after four days instead of seven: after fewer days     *)
(* than there are lists, two lists that are slow to store could be due again    *)
(* in turn and eat every pass.                                                  *)
EXTENDS RuleSetRefresh

MCByName == <<"adguard_dns_filter", "hagezi_multi_normal", "hagezi_tif", "oisd_big">>
=============================================================================
