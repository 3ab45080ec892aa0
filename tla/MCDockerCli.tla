---------------------------- MODULE MCDockerCli ----------------------------
(***************************************************************************)
(* Values for the constants of DockerCli that TLC's runs use.              *)
(***************************************************************************)
EXTENDS DockerCli

\* From 1.8 on; 1.15 is newer than the server.
MCVersions == {<<1, 8>>, <<1, 14, 0>>, <<1, 15>>}
\* "b" is a repository without a user and "a" a port that is published.
MCNames == {<<"a", "b">>, <<"b", "a">>}
MCRooted == {"b"}
MCPublished == {"a"}
MCErrors == {{"No such"}, {"No such", "container"}, {"Conflict"}, {"already"}, {"no such file or directory"}, {"other"}}
MCCommands == DOMAIN Options
=============================================================================
