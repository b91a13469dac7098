--------------------------- MODULE MCHttpHlsParser ---------------------------
(***************************************************************************)
(* Model-checking instance of HttpHlsParser: requests for a segment or the *)
(* playlist of a known and an unknown application, for a segment that      *)
(* exists and one that does not.                                           *)
(***************************************************************************)
EXTENDS HttpHlsParser

MC_Requests == [app : {"a", "b"}, stream : {"s"}, ts : {"1", "2"}, type : {"ts", "m3u8"}]
MC_Registry == {<< <<"a">>, <<"s">> >>}
MC_TsAvail == {1}
MC_M3u8Avail == TRUE
=============================================================================
