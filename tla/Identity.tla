------------------------------ MODULE Identity ------------------------------
(***************************************************************************)
(* Users, groups, roles, permissions and user settings, layer by layer.    *)
(***************************************************************************)
EXTENDS Fields

LOCAL Meta == {"name", "comment", "owner", "creationTime", "modificationTime"}

\* identity_meta_from_gmp and IdentityMetaResponse: the attributes all share.
identity_meta_from_gmp == Meta

IdentityResourceMeta == Meta

IdentityMetaResponse == Meta

LOCAL MetaShown == identity_meta_from_gmp \cap IdentityResourceMeta \cap IdentityMetaResponse

----------------------------------------------------------------------------
(* Users.  "hosts" is the host access of a user: the list and whether it   *)
(* is a list of allowed or of denied hosts.                                *)

CreateUserRequest ==
    Dto(Each({"comment", "password", "hosts"}, Free)
        @@ [name |-> Filled, roles |-> CheckedList, authenticationType |-> Checked])

ModifyUserRequest ==
    Dto(Each({"name", "comment", "password", "hosts"}, Free)
        @@ [roles |-> CheckedList, authenticationType |-> Checked])

UserResponse == {"roles", "groups", "hosts", "authenticationType"}

UserHandlers == CrudHandlers

UserUseCases == CrudUseCases

UserDomain ==
    LET body == {"name", "comment", "password", "hosts", "roles", "authenticationType"}
    IN  [create |-> body, modify |-> body,
         view |-> {"roles", "groups", "hosts", "authenticationType"}]

list_users == <<"filter", "list">>

create_user ==
    Each({"name", "comment", "password", "hosts"}, Kept)
    @@ [roles |-> ParsedList, authenticationType |-> Parsed]

\* The command always carries the host access: when the body names no hosts,
\* get_gmp_user reads it first and the command repeats what it found.
modify_user ==
    Each({"name", "comment", "password"}, Kept)
    @@ [hosts |-> ReadBack, roles |-> ParsedList, authenticationType |-> Parsed]

UserCommands == [list |-> list_users] @@ CrudCommands

user_from_gmp == {"roles", "groups", "hosts", "authenticationType"}

UserKind ==
    Kind(UserHandlers, UserUseCases, UserCommands,
         Layers(CreateUserRequest, UserDomain.create, create_user),
         Layers(ModifyUserRequest, UserDomain.modify, modify_user),
         MetaShown \cup (user_from_gmp \cap UserDomain.view \cap UserResponse))

----------------------------------------------------------------------------
(* Groups and roles: lists of users under a name that cannot be changed.   *)

CreateGroupRequest == Dto([name |-> Filled, comment |-> Free, users |-> Free])

ModifyGroupRequest == Dto([comment |-> Free, users |-> Free])

GroupResponse == {"users"}

GroupHandlers == CrudHandlers

GroupUseCases == CrudUseCases

GroupDomain ==
    [create |-> {"name", "comment", "users"}, modify |-> {"comment", "users"}, view |-> {"users"}]

list_groups == <<"filter", "list">>

create_group == Each({"name", "comment", "users"}, Kept)

modify_group == [comment |-> Kept, users |-> Collapsed]

GroupCommands == [list |-> list_groups] @@ CrudCommands

group_from_gmp == {"users"}

GroupKind ==
    Kind(GroupHandlers, GroupUseCases, GroupCommands,
         Layers(CreateGroupRequest, GroupDomain.create, create_group),
         Layers(ModifyGroupRequest, GroupDomain.modify, modify_group),
         MetaShown \cup (group_from_gmp \cap GroupDomain.view \cap GroupResponse))

CreateRoleRequest == Dto([name |-> Filled, comment |-> Free, users |-> Free])

ModifyRoleRequest == Dto([comment |-> Free, users |-> Free])

RoleResponse == {"users"}

RoleHandlers == CrudHandlers

RoleUseCases == CrudUseCases

RoleDomain ==
    [create |-> {"name", "comment", "users"}, modify |-> {"comment", "users"}, view |-> {"users"}]

list_roles == <<"filter", "list">>

create_role == Each({"name", "comment", "users"}, Kept)

modify_role == [comment |-> Kept, users |-> Collapsed]

RoleCommands == [list |-> list_roles] @@ CrudCommands

role_from_gmp == {"users"}

RoleKind ==
    Kind(RoleHandlers, RoleUseCases, RoleCommands,
         Layers(CreateRoleRequest, RoleDomain.create, create_role),
         Layers(ModifyRoleRequest, RoleDomain.modify, modify_role),
         MetaShown \cup (role_from_gmp \cap RoleDomain.view \cap RoleResponse))

----------------------------------------------------------------------------
(* Permissions: of a subject, on a resource. *)

LOCAL Ends == {"subjectType", "subjectId", "resourceId"}

CreatePermissionRequest ==
    Dto(Each({"name", "comment", "resourceType"}, Free) @@ Each(Ends, Checked))

ModifyPermissionRequest ==
    Dto(Each({"name", "comment", "resourceType"}, Free) @@ Each(Ends, Checked))

PermissionResponse == {"resourceType"} \cup Ends

PermissionHandlers == CrudHandlers

PermissionUseCases == CrudUseCases

PermissionDomain ==
    LET body == {"name", "comment", "resourceType"} \cup Ends
    IN  [create |-> body, modify |-> body, view |-> {"resourceType"} \cup Ends]

list_permissions == <<"filter", "list">>

create_permission == Each({"name", "comment", "resourceType"}, Kept) @@ Each(Ends, Parsed)

modify_permission == Each({"name", "comment", "resourceType"}, Kept) @@ Each(Ends, Parsed)

PermissionCommands == [list |-> list_permissions] @@ CrudCommands

permission_from_gmp == {"resourceType"} \cup Ends

PermissionKind ==
    Kind(PermissionHandlers, PermissionUseCases, PermissionCommands,
         Layers(CreatePermissionRequest, PermissionDomain.create, create_permission),
         Layers(ModifyPermissionRequest, PermissionDomain.modify, modify_permission),
         MetaShown \cup (permission_from_gmp \cap PermissionDomain.view \cap PermissionResponse))

----------------------------------------------------------------------------
(* User settings: listed as a whole, and only their value can be changed.  *)

ModifyUserSettingRequest == Dto([value |-> Present])

UserSettingResponse == {"name", "value", "comment"}

UserSettingHandlers == Only(CrudHandlers, {"list", "get", "modify"})

UserSettingUseCases == Only(CrudUseCases, {"list", "get", "modify"})

UserSettingDomain == [modify |-> {"value"}, view |-> {"name", "value", "comment"}]

list_user_settings == <<"filter", "listWhole">>

modify_user_setting == [value |-> Kept]

UserSettingCommands ==
    [list |-> list_user_settings] @@ Only(CrudCommands, {"get", "modify"})

user_setting_from_gmp == {"name", "value", "comment"}

UserSettingKind ==
    Kind(UserSettingHandlers, UserSettingUseCases, UserSettingCommands, NoBody,
         Layers(ModifyUserSettingRequest, UserSettingDomain.modify, modify_user_setting),
         user_setting_from_gmp \cap UserSettingDomain.view \cap UserSettingResponse)

============================================================================
