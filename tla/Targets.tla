------------------------------ MODULE Targets ------------------------------
(***************************************************************************)
(* Targets, OCI image targets and web application targets, layer by layer. *)
(* A reference is called by the name of the request field that sets it, in *)
(* the answer too (portListId for portList).                               *)
(***************************************************************************)
EXTENDS Fields

LOCAL Refs == {"portListId", "sshCredentialId", "smbCredentialId",
               "esxiCredentialId", "snmpCredentialId"}
LOCAL Flags == {"reverseLookupOnly", "reverseLookupUnify"}

----------------------------------------------------------------------------
(* Targets. *)

CreateTargetRequest ==
    Dto(Each({"name", "hosts"}, Filled) @@ Each({"comment", "excludeHosts", "aliveTest"}, Free)
        @@ Each(Refs \cup Flags, Checked))

ModifyTargetRequest ==
    Dto(Each({"name", "comment", "hosts", "excludeHosts", "aliveTest"}, Free)
        @@ Each(Refs \cup Flags, Checked))

TargetResponse ==
    {"name", "comment", "hosts", "excludeHosts", "aliveTest"} \cup Refs \cup Flags

TargetHandlers == CrudHandlers @@ CloneHandler

TargetUseCases == CrudUseCases @@ CloneUseCase

TargetDomain ==
    LET fields == {"name", "comment", "hosts", "excludeHosts", "aliveTest"} \cup Refs \cup Flags
    IN  [create |-> fields, modify |-> fields, view |-> fields]

list_targets == <<"filter", "listOrAll">>

\* TargetHosts::new of the gvm_gmp crate wants at least one host it can parse.
TargetHosts == Parsed

create_target ==
    [hosts |-> TargetHosts, excludeHosts |-> ParsedList]
    @@ Each({"name", "comment"} \cup Flags, Kept) @@ Each({"aliveTest"} \cup Refs, Parsed)

modify_target ==
    [hosts |-> TargetHosts, excludeHosts |-> With("hosts")]
    @@ Each({"name", "comment"} \cup Flags, Kept) @@ Each({"aliveTest"} \cup Refs, Parsed)

TargetCommands == [list |-> list_targets] @@ CrudCommands @@ CloneCommand

target_from_gmp ==
    {"name", "comment", "hosts", "excludeHosts", "aliveTest"} \cup Refs \cup Flags

TargetKind ==
    Kind(TargetHandlers, TargetUseCases,
         TargetCommands,
         Layers(CreateTargetRequest, TargetDomain.create, create_target),
         Layers(ModifyTargetRequest, TargetDomain.modify, modify_target),
         target_from_gmp \cap TargetDomain.view \cap TargetResponse)

----------------------------------------------------------------------------
(* OCI image targets. *)

CreateOciImageTargetRequest ==
    Dto([name |-> Filled, comment |-> Free, imageReferences |-> Filled, credentialId |-> Checked])

ModifyOciImageTargetRequest ==
    Dto([name |-> Free, comment |-> Free, imageReferences |-> NonBlank, credentialId |-> Checked])

OciImageTargetResponse == {"name", "comment", "imageReferences", "credentialId", "tasks"}

OciImageTargetHandlers == CrudHandlers @@ CloneHandler

OciImageTargetUseCases == CrudUseCases @@ CloneUseCase

OciImageTargetDomain ==
    LET fields == {"name", "comment", "imageReferences", "credentialId"}
    IN  [create |-> fields, modify |-> fields, view |-> fields \cup {"tasks"}]

\* The page is taken from the whole list also when the first page is empty.
list_oci_image_targets == <<"filter", "listOrAllIfEmpty">>

create_oci_image_target ==
    Each({"name", "comment", "imageReferences"}, Kept) @@ [credentialId |-> Parsed]

modify_oci_image_target ==
    Each({"name", "comment"}, Kept) @@ [imageReferences |-> Collapsed, credentialId |-> Parsed]

OciImageTargetCommands == [list |-> list_oci_image_targets] @@ CrudCommands @@ CloneCommand

oci_image_target_from_gmp == {"name", "comment", "imageReferences", "credentialId", "tasks"}

OciImageTargetKind ==
    Kind(OciImageTargetHandlers, OciImageTargetUseCases,
         OciImageTargetCommands,
         Layers(CreateOciImageTargetRequest, OciImageTargetDomain.create,
                create_oci_image_target),
         Layers(ModifyOciImageTargetRequest, OciImageTargetDomain.modify,
                modify_oci_image_target),
         oci_image_target_from_gmp \cap OciImageTargetDomain.view
           \cap OciImageTargetResponse)

----------------------------------------------------------------------------
(* Web application targets. *)

CreateWebApplicationTargetRequest ==
    Dto([name |-> Filled, comment |-> Free, urls |-> Filled, excludeUrls |-> Free,
         credentialId |-> Checked])

ModifyWebApplicationTargetRequest ==
    Dto([name |-> Free, comment |-> Free, urls |-> NonBlank, excludeUrls |-> Free,
         credentialId |-> Checked])

WebApplicationTargetResponse ==
    {"name", "comment", "urls", "excludeUrls", "credentialId", "tasks"}

WebApplicationTargetHandlers == CrudHandlers @@ CloneHandler

WebApplicationTargetUseCases == CrudUseCases @@ CloneUseCase

WebApplicationTargetDomain ==
    LET fields == {"name", "comment", "urls", "excludeUrls", "credentialId"}
    IN  [create |-> fields, modify |-> fields, view |-> fields \cup {"tasks"}]

list_web_application_targets == <<"filter", "listOrAllIfEmpty">>

create_web_application_target ==
    Each({"name", "comment", "urls", "excludeUrls"}, Kept) @@ [credentialId |-> Parsed]

modify_web_application_target ==
    Each({"name", "comment"}, Kept) @@ Each({"urls", "excludeUrls"}, Collapsed)
    @@ [credentialId |-> Parsed]

WebApplicationTargetCommands == [list |-> list_web_application_targets] @@ CrudCommands @@ CloneCommand

web_application_target_from_gmp ==
    {"name", "comment", "urls", "excludeUrls", "credentialId", "tasks"}

WebApplicationTargetKind ==
    Kind(WebApplicationTargetHandlers, WebApplicationTargetUseCases,
         WebApplicationTargetCommands,
         Layers(CreateWebApplicationTargetRequest, WebApplicationTargetDomain.create,
                create_web_application_target),
         Layers(ModifyWebApplicationTargetRequest, WebApplicationTargetDomain.modify,
                modify_web_application_target),
         web_application_target_from_gmp \cap WebApplicationTargetDomain.view
           \cap WebApplicationTargetResponse)

============================================================================
