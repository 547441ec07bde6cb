---------------------------- MODULE MCAdvertisers ----------------------------
(* Instances of Advertisers for TLC.                                       *)
EXTENDS Advertisers
MCTypes == <<"_airplay._tcp", "_raop._tcp", "_airshow._tcp">>
MCKeyed == {"_airplay._tcp", "_raop._tcp"}
MCPrefixed == "_raop._tcp"
=============================================================================
