-------------------------- MODULE MC_ComposeEditor --------------------------
(* Instances of ComposeEditor for TLC: pods of two files, each with up to  *)
(* two services, which may be the same ones; web may ask for ports in      *)
(* every form, db for one.                                                 *)
EXTENDS ComposeEditor

Entry(mode, ports, hosts) == [mode |-> mode, ports |-> ports, hosts |-> hosts]
Webs == {Entry("default", <<>>, {"h1"}),
         Entry("default", <<<<"70">>, <<"8080", "80">>>>, {}),
         Entry("default", <<<<"127.0.0.1", "8443", "443">>, <<"8080", "80">>>>, {"h2"}),
         Entry("host", <<<<"8080", "80">>>>, {"h1"}),
         Entry("none", <<<<"8080", "80">>>>, {})}
Dbs == {Entry("default", <<<<"9090", "80">>>>, {"h2"}), Entry("host", <<>>, {})}

Contents ==
  {[s \in {} |-> 0]} \cup [{"web"} -> Webs] \cup [{"db"} -> Dbs]
    \cup {[s \in {"web", "db"} |-> IF s = "web" THEN w ELSE d] : w \in Webs, d \in Dbs}

MCPods == {p \in [1..2 -> Contents] : \E i \in 1..2 : DOMAIN p[i] # {}}
MCOffers == {<<>>, <<"31000", "31001">>, <<"31000", "31001", "31002", "31003", "31004", "31005">>}
=============================================================================
