----------------------------- MODULE RegistryAuth -----------------------------
(***************************************************************************)
(* The credentials of an image repository (pkg/common/auth.go).  A name is *)
(* the sequence of its parts between the slashes; an auth file maps names  *)
(* of registries, namespaces and repositories to tokens.                   *)
(***************************************************************************)
LOCAL INSTANCE Naturals
LOCAL INSTANCE Sequences

registryDockerIO      == "docker.io"
registryIndexDockerIO == <<"https:", "", "index.docker.io", "v1", "">>

NoToken == "no token"    \* the empty string
NoAuth  == [registry |-> "none", token |-> NoToken]

(* An image reference is a name with a tag, a digest, both or neither. *)
GetImageName(imageRef) == imageRef.name

(* A mutant of findAuth: an entry without a token is passed over. *)
FindFilledAuth(auths, imageRepo) ==
    LET upTo[n \in 0 .. Len(imageRepo)] ==
          LET key == SubSeq(imageRepo, 1, n)
          IN  IF n = 0 THEN NoToken
              ELSE IF key \in DOMAIN auths /\ auths[key] # NoToken THEN auths[key] ELSE upTo[n - 1]
    IN  upTo[Len(imageRepo)]

(* The entry of the repository, or else of what is left of its name when   *)
(* the last part is cut off, again and again; docker.io may be known by    *)
(* the address that logging in stores.                                     *)
findAuth(auths, imageRepo) ==
    LET key(n) == SubSeq(imageRepo, 1, n)
        upTo[n \in 0 .. Len(imageRepo)] ==
          IF n = 0 THEN IF imageRepo[1] = registryDockerIO /\ registryIndexDockerIO \in DOMAIN auths
                        THEN auths[registryIndexDockerIO] ELSE NoToken
          ELSE IF key(n) \in DOMAIN auths THEN auths[key(n)] ELSE upTo[n - 1]
    IN  upTo[Len(imageRepo)]

(* The token, for the whole registry; NoAuth stands for the error. *)
SelectRegistryAuth(imageRef, auths) ==
    LET imageRepo == GetImageName(imageRef)
        token == findAuth(auths, imageRepo)
    IN  IF token = NoToken THEN NoAuth ELSE [registry |-> imageRepo[1], token |-> token]
================================================================================
