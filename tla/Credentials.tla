---------------------------- MODULE Credentials ----------------------------
(***************************************************************************)
(* Credentials, with values of their own or with a reference into a        *)
(* credential store, and the credential stores, layer by layer.            *)
(***************************************************************************)
EXTENDS Fields

LOCAL Texts == {"login", "password", "privateKey", "certificate", "community", "privacyPassword"}
LOCAL Algorithms == {"authAlgorithm", "privacyAlgorithm"}
LOCAL StoreFields == {"credentialStoreId", "vaultId", "hostIdentifier"}

----------------------------------------------------------------------------
(* Credentials. *)

\* validate() of a type without and with the prefix "cs_".  Of the two texts of
\* the reference only the empty one is refused.
CreateCredentialRequest ==
    [local |-> Dto([comment |-> Free] @@ Each({"name", "type"}, Filled)
                   @@ Each(Texts \cup Algorithms, Free) @@ Each(StoreFields, Never)),
     store |-> Dto([comment |-> Free, credentialStoreId |-> Checked]
                   @@ Each({"name", "type", "vaultId", "hostIdentifier"}, Filled)
                   @@ Each(Texts \cup Algorithms, Never))]

ModifyCredentialRequest ==
    Dto([credentialStoreId |-> Checked]
        @@ Each({"name", "comment", "vaultId", "hostIdentifier"} \cup Texts \cup Algorithms, Free))

CredentialResponse == {"name", "comment", "type", "login", "inUse", "writable"}

list_credentials_handler == "list_resource"

CredentialHandlers ==
    [list |-> list_credentials_handler]
    @@ Only(CrudHandlers, {"create", "get", "modify", "delete"})

CredentialUseCases == CrudUseCases

Credential == {"name", "comment", "type", "login", "inUse", "writable"}

CredentialInputs ==
    LET fields == {"name", "comment"} \cup Texts \cup Algorithms \cup StoreFields
    IN  [create |-> fields \cup {"type"}, modify |-> fields]

list_credentials == <<"filter", "list">>

\* ensure_no_local_secret_fields: a reference is refused beside a local value.
ensure_no_local_secret_fields == Texts \cup Algorithms

\* parse_credential_store_type: an unknown one is not a type of a store.
parse_credential_store_type == Parsed

create_credential ==
    [local |-> Each({"name", "comment"} \cup Texts, Kept) @@ Each({"type"} \cup Algorithms, Parsed),
     store |-> [type |-> parse_credential_store_type, credentialStoreId |-> Parsed]
               @@ Each({"name", "comment", "vaultId", "hostIdentifier"}, Kept)]

modify_credential ==
    [credentialStoreId |-> Apart(Parsed, ensure_no_local_secret_fields)]
    @@ Each({"vaultId", "hostIdentifier"}, Apart(Kept, ensure_no_local_secret_fields))
    @@ Each({"name", "comment"} \cup Texts, Kept) @@ Each(Algorithms, Parsed)

get_credential == <<"get">>

delete_credential == <<"delete">>

CredentialCommands ==
    [list |-> list_credentials, create |-> <<"create">>, get |-> get_credential,
     modify |-> <<"modify">> \o get_credential, delete |-> delete_credential]

credential_from_gmp == {"name", "comment", "type", "login", "inUse", "writable"}

CredentialKind ==
    Kind(CredentialHandlers, CredentialUseCases, CredentialCommands,
         Layers(CreateCredentialRequest.local, CredentialInputs.create, create_credential.local),
         Layers(ModifyCredentialRequest, CredentialInputs.modify, modify_credential),
         credential_from_gmp \cap Credential \cap CredentialResponse)

\* A credential of a store differs in the body of its creation only.
StoreCredentialKind ==
    Kind(Only(CredentialHandlers, {"create"}), CredentialUseCases, CredentialCommands,
         Layers(CreateCredentialRequest.store, CredentialInputs.create, create_credential.store),
         NoBody, credential_from_gmp \cap Credential \cap CredentialResponse)

----------------------------------------------------------------------------
(* Credential stores.  A gvmd that has none makes every operation fail.    *)

ModifyCredentialStoreRequest ==
    Dto(Each({"active", "port"}, Checked) @@ Each({"host", "path", "comment"}, Free)
        @@ [preferences |-> CheckedList])

CredentialStoreResponse == {"name", "provider", "default", "writable"}

verify_credential_store_handler == "act_on_resource"

CredentialStoreHandlers ==
    [verify |-> verify_credential_store_handler] @@ Only(CrudHandlers, {"list", "get", "modify"})

CredentialStoreUseCases ==
    [verify |-> "verify"] @@ Only(CrudUseCases, {"list", "get", "modify"})

CredentialStore == {"name", "provider", "default", "writable"}

ModifyCredentialStoreInput == {"active", "host", "path", "port", "comment", "preferences"}

list_credential_stores == <<"listWhole">>

get_credential_store == <<"get">>

\* An empty list of preferences is no element of the command.
modify_credential_store ==
    [preferences |-> Collapsed] @@ Each({"active", "host", "path", "port", "comment"}, Kept)

verify_credential_store == <<"act">>

CredentialStoreCommands ==
    [list |-> list_credential_stores, get |-> get_credential_store,
     modify |-> <<"modify">> \o get_credential_store, verify |-> verify_credential_store]

credential_store_from_gmp == {"name", "provider"}

CredentialStoreKind ==
    Kind(CredentialStoreHandlers, CredentialStoreUseCases, CredentialStoreCommands, NoBody,
         Layers(ModifyCredentialStoreRequest, ModifyCredentialStoreInput, modify_credential_store),
         credential_store_from_gmp \cap CredentialStore \cap CredentialStoreResponse)

============================================================================
