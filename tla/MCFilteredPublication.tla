------------------------ MODULE MCFilteredPublication ------------------------
(* A Game Boy and a Genesis library of a few records, and their catalogues. *)
EXTENDS FilteredPublication

\* Contents: 1 Tetris (World), 2 Tetris (Japan), 3 a hack of Tetris nobody
\* lists, 4 Sonic as .bin, 5 the same as .smd, 6 a bad dump of Sonic.
MCAdapterOrder == <<"nintendo.gb", "sega.bin", "sega.smd">>
MCPlatformOf ==
  [a \in {"nintendo.gb", "sega.bin", "sega.smd"} |->
     IF a = "nintendo.gb" THEN "gb" ELSE "genesis"]
ClaimOf(gb, bin, smd) == [a \in {"nintendo.gb", "sega.bin", "sega.smd"} |->
  CASE a = "nintendo.gb" -> gb [] a = "sega.bin" -> bin [] OTHER -> smd]
MCClaims == <<ClaimOf(2, 0, 0), ClaimOf(2, 0, 0), ClaimOf(2, 0, 0),
              ClaimOf(0, 2, 0), ClaimOf(0, 1, 2), ClaimOf(0, 1, 0)>>
Full(n) == [size |-> n, crc32 |-> n, md5 |-> n, sha1 |-> n, sha256 |-> n]
MCCanonicals ==
  [rom \in 1..6 |-> [a \in {"nintendo.gb", "sega.bin", "sega.smd"} |->
     IF MCClaims[rom][a] = 0 THEN NoDigest
     ELSE IF rom = 5 THEN Full(4) ELSE Full(rom)]]

MCRegionOrder == <<"World", "Japan">>
MCExcludedFlags == {"Beta"}
MCArticles == {"the"}

Bare(rom) == [kind |-> "bare", rom |-> rom, members |-> <<>>]
Member(rom, safe) == [rom |-> rom, safe |-> safe, fits |-> TRUE, honest |-> TRUE]
Zip(members) == [kind |-> "zip", rom |-> 0, members |-> members]
Record(id, slug, file, title) == [id |-> id, slug |-> slug, file |-> file, title |-> title]

World   == Record(1, "gb", Bare(1), <<"tetris">>)
Zipped  == Record(2, "gb", Zip(<<Member(9, FALSE), Member(1, TRUE)>>), <<>>)
Japan   == Record(3, "gb", Bare(2), <<"tetris", "dx">>)
Hack    == Record(4, "gb", Bare(3), <<"tetris">>)
Sonic   == Record(5, "genesis", Bare(4), <<"the", "sonic">>)
SonicSmd == Record(6, "genesis", Bare(5), <<>>)
BadSonic == Record(7, "genesis", Bare(6), <<"sonic">>)
Foreign == Record(8, "psx", Bare(4), <<>>)
Misnamed == Record(9, "gb", Bare(1), <<"dr", "mario">>)

MCPlatforms == <<"gb", "genesis">>
MCRecords == {Japan, Zipped, SonicSmd}
MCListings == {<<World, Sonic, Foreign>>, <<Foreign, Misnamed, Hack, Japan>>,
               <<Sonic, SonicSmd, BadSonic>>}

Game(rom, key, region, hash, bad) ==
  [rom |-> rom, key |-> key, regions |-> {region}, rank |-> 0, flags |-> {},
   bios |-> FALSE, badDump |-> bad,
   digest |-> [size |-> hash, crc32 |-> hash, md5 |-> 0, sha1 |-> hash, sha256 |-> 0]]
MCCatalogues ==
  {[set |-> [platform |-> "gb", version |-> 1],
    games |-> <<Game(1, <<"tetris">>, "World", 1, FALSE),
                Game(2, <<"tetris">>, "Japan", 2, FALSE)>>],
   [set |-> [platform |-> "gb", version |-> 2],
    games |-> <<Game(2, <<"tetris">>, "Japan", 2, FALSE)>>],
   [set |-> [platform |-> "genesis", version |-> 1],
    games |-> <<Game(4, <<"sonic">>, "World", 4, FALSE),
                Game(6, <<"sonic", "two">>, "World", 6, TRUE)>>]}

Sharing(all, platforms, without) ==
  [shareAll |-> all, platforms |-> platforms, excludedFiles |-> {},
   excludedPlatforms |-> without, maxBytes |-> 0]
MCPolicies == {Sharing(TRUE, {}, {}), Sharing(TRUE, {}, {"gb"}), Sharing(FALSE, {}, {})}
=============================================================================
