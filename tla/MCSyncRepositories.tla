-------------------------- MODULE MCSyncRepositories --------------------------
(* Three repositories: two that are synced from one host, and one that has *)
(* no sync_host.                                                           *)
EXTENDS SyncRepositories

ThreeHosts == <<"git", "", "git">>
MCHostOrder == <<"", "git">>
===============================================================================
