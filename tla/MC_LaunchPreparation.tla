----------------------- MODULE MC_LaunchPreparation -----------------------
(* LaunchPreparation for TLC: files in the task's own folder and beside    *)
(* it, two names that begin with the same word, one name in two folders, a *)
(* file named like the infra container's, and a blank name.                *)
EXTENDS LaunchPreparation

MCWords == {"web.yml", "db.yml", "db", "1.yml", "2.yml"}

File(folders, name) == [dirs |-> folders, words |-> name, generated |-> FALSE]
Web == File(<<OtherFolder>>, <<"web.yml">>)
Db == File(<<>>, <<"db.yml">>)
OtherDb == File(<<OtherFolder>>, <<"db.yml">>)
Db1 == File(<<>>, <<"db", "1.yml">>)
Db2 == File(<<>>, <<"db", "2.yml">>)
OtherDb2 == File(<<OtherFolder>>, <<"db", "2.yml">>)
Blank == File(<<>>, <<>>)

MCListings == {<<>>, <<Web, Db>>, <<Db, Web>>, <<Db1, Db2>>, <<Web, Db1>>, <<Db, OtherDb>>, <<Db1, OtherDb2>>,
               <<InfraPath, Db>>, <<Db, Blank>>}

Fetched(has, without) == [f \in has \cup without |-> [of |-> f, services |-> f \in has]]
MCPresent == {Fetched({Web, Db, OtherDb, Db1, Db2, OtherDb2, InfraPath}, {}), Fetched({Web, Db1}, {Db2}),
              Fetched({Db, Db2, OtherDb}, {})}
=============================================================================
