----------------------------- MODULE MediaAddress -----------------------------
(* Which addresses name one public video (analysis/url.rs).  A path is the   *)
(* sequence of its segments, where "" is what a doubled or a last slash      *)
(* leaves; a query is a sequence of keys and values.                         *)
EXTENDS Naturals, Sequences, Checks

CONSTANTS
    VideoIds  \* the texts that are eleven characters of the kind an identity has

LongHosts  == {"youtube.com", "www.youtube.com", "m.youtube.com", "music.youtube.com"}
ShortHosts == {"youtu.be", "www.youtu.be"}

Address(host, path, query) ==
    [length |-> "within", syntax |-> "url", scheme |-> "https", credentials |-> FALSE,
     port |-> FALSE, host |-> host, path |-> path, query |-> query]

(* A video of its own: where every accepted address leads.                   *)
Canonical(id) == Address("www.youtube.com", <<"watch">>, << <<"v", id>> >>)

Values(query, key) == SelectSeq(query, LAMBDA pair : pair[1] = key)

(* Credentials, cookies and options never come with an address.              *)
AsksToAuthenticate(query) ==
    \E i \in DOMAIN query :
        query[i][1] \in {"--option", "cookie", "cookies", "cookies-from-browser",
                         "username", "password", "user", "login", "auth"}

(* Slashes at the end do not count, and for a short address none around it.  *)
TrimPath(path) ==
    LET named == {i \in DOMAIN path : path[i] # ""}
    IN  IF named = {} THEN <<>> ELSE SubSeq(path, 1, CHOOSE i \in named : \A j \in named : j <= i)
TrimBoth(path) ==
    LET named == {i \in DOMAIN path : path[i] # ""}
        first == CHOOSE i \in named : \A j \in named : i <= j
    IN  IF named = {} THEN <<>> ELSE SubSeq(TrimPath(path), first, Len(TrimPath(path)))

Video(id) == IF id \in VideoIds THEN [fault |-> "none", id |-> id] ELSE [fault |-> "invalid id"]
Fault(fault) == [fault |-> fault]

WatchedVideo(query) ==
    LET videos == Values(query, "v")
    IN  CASE Len(videos) = 1 -> Video(videos[1][2])
          [] Len(videos) > 1 -> Fault("ambiguous")
          [] Values(query, "list") # <<>> -> Fault("playlist")
          [] OTHER -> Fault("missing id")

IdFromLong(address) ==
    LET path == TrimPath(address.path)
    IN  CASE path = <<"watch">>                -> WatchedVideo(address.query)
          [] path = <<"playlist">>             -> Fault("playlist")
          [] path # <<>> /\ path[1] = "live"   -> Fault("live")
          [] path # <<>> /\ path[1] = "shorts" ->
                IF Len(path) = 2 THEN Video(path[2]) ELSE Fault("missing id")
          [] OTHER                             -> Fault("path")

IdFromShort(address) ==
    LET path == TrimBoth(address.path)
    IN  CASE path = <<>>     -> Fault("missing id")
          [] Len(path) > 1   -> Fault("path")
          [] OTHER           -> Video(path[1])

AddressFault(address) == FirstFault(<<
    Check(address.length # "within",  "too long"),
    Check(address.syntax # "url",     "malformed"),
    Check(address.scheme \notin {"http", "https"}, "scheme"),
    Check(address.credentials,        "credentials"),
    Check(address.port,               "port"),
    Check(AsksToAuthenticate(address.query), "authentication"),
    Check(address.host \notin LongHosts \union ShortHosts, "host")>>)

ParseAddress(address) ==
    CASE AddressFault(address) # "none"   -> Fault(AddressFault(address))
      [] address.host \in LongHosts       -> IdFromLong(address)
      [] OTHER                            -> IdFromShort(address)

(* A well-formed address of something that is not one finished video.        *)
IsUnsupportedContent(fault) == fault \in {"playlist", "live"}
=============================================================================
