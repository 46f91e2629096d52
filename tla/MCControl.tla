------------------------------- MODULE MCControl -------------------------------
(***************************************************************************)
(* Control for TLC: captures of the same name, or without one, and one     *)
(* that asks for the file of another.                                      *)
(***************************************************************************)
EXTENDS Control

Bodies ==
  { [name |-> "a", pcap |-> Default, snapshot |-> Default],
    [name |-> None, pcap |-> <<<<"a", 0>>, "pcap">>, snapshot |-> Default],
    [name |-> "../up", pcap |-> Default, snapshot |-> Default] }

Stops == {"a", None}
================================================================================
