-------------------------- MODULE MCRommConnection --------------------------
(* Two RomM addresses, and three servers that may be at either.              *)
EXTENDS RommConnection

CONSTANT OldPassword

Server(documents, operations, accepts, forbidden, failing, fields) ==
  [documents |-> documents, operations |-> operations, accepts |-> accepts,
   allows |-> operations \ forbidden, failing |-> failing, fields |-> fields,
   platforms |-> <<[id |-> 0, slug |-> "gb"], [id |-> 11, slug |-> "gb"],
                   [id |-> 12, slug |-> "gb"]>>]

Common == {<<"GET", "/api/heartbeat">>, <<"GET", "/api/platforms">>,
           <<"GET", "/api/roms">>, <<"GET", "/api/roms/*">>, <<"GET", "/api/users/me">>}
NewOperations == Common \cup {<<"GET", "/api/roms/*/content/*">>,
                              <<"POST", "/api/roms/upload/start">>}
OldOperations == Common \cup {<<"GET", "/api/roms/*/download">>, <<"POST", "/api/roms">>}

\* A token that may read but not upload.
New == Server(<<"ok", "absent", "absent">>, NewOperations, {"bearer"},
              {<<"POST", "/api/roms/upload/start">>}, {}, {"name", "sha1_hash"})
OldAndEmpty == Server(<<"absent", "ok", "ok">>, OldOperations, {"x-api-key"}, {}, {}, {})
\* One whose identity endpoint is down cannot confirm a credential.
Failing == Server(<<"ok", "absent", "absent">>, NewOperations, {"bearer"}, {},
                  {<<"GET", "/api/users/me">>}, {"name", "sha1_hash"})
MCServers == {New, OldAndEmpty, Failing}

\* A first run, or the configuration of one that was set up.
MCLeft == {None, [target |-> EnvTarget, prefs |-> EnvPrefs,
                  password |-> OldPassword]}
=============================================================================
