---------------------------- MODULE MCShellSession ----------------------------
(***************************************************************************)
(* Sessions small enough for TLC: agents that request a shell or a port,   *)
(* with and without encryption, in either order, and agents whose requests *)
(* are not known to the plugin.                                            *)
(***************************************************************************)
EXTENDS ShellSession

SomeRequests ==
    {<<"ShellType">>, <<"KMSEncryption", "PortType">>, <<"ShellType", "KMSEncryption">>,
     <<"UnknownAction", "UnknownType">>}

SomeCommandLines ==
    LET ssmcli  == Word("ssmcli")
        start    == <<ssmcli, Word("start-session")>>
        instance == <<Flag("instance-id"), Word("i-1")>>
    IN  {<<ssmcli>>, start, start \o <<Word("help")>>,
         <<ssmcli, Word("other")>> \o instance,
         start \o instance,
         start \o instance \o instance,
         start \o instance \o <<Flag("other")>>,
         start \o instance \o <<Flag("help")>>,
         start \o instance \o <<Flag("")>>,
         start \o instance \o <<Flag("document-name")>>,
         start \o instance \o <<Flag("document-name"), Word("d")>>,
         start \o instance \o <<Flag("region")>>,
         start \o <<Flag("region"), Word("r")>>,
         start \o <<Flag("instance-id"), Flag("region"), Word("r")>>,
         <<ssmcli, Flag("region"), Word("start-session")>> \o instance}

AnyKms == {"key", "noService", "noKey"}
=============================================================================
