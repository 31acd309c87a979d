------------------------------ MODULE Catalogue ------------------------------
(***************************************************************************)
(* CategoriesService, ServicesService and PortfolioService: categories     *)
(* proposed by providers and settled by administrators, the services       *)
(* listed under them, and a provider's portfolio.  The database holds      *)
(* names apart that differ in case only; the code looks them up without    *)
(* regard to case.                                                         *)
(***************************************************************************)
EXTENDS Naturals, Handlers

CONSTANTS
  Names,        \* names, without regard to case
  Spellings,    \* the ways each can be written
  Listings,     \* the services one provider can list
  MaxPortfolio  \* MAX_PORTFOLIO_ITEMS

Categories == Names \X Spellings

VARIABLES
  category,     \* the rows ServiceCategory: status, or NONE
  proposed,     \* those with a suggestedByProviderId
  linked,       \* the rows ProviderServiceCategory of the provider
  listing,      \* the rows Service: the category, or None
  portfolio     \* how many portfolio items there are

catalogueVars == <<category, proposed, linked, listing, portfolio>>

CatalogueInit ==
  /\ category = [c \in Categories |-> "NONE"]
  /\ proposed = {} /\ linked = {}
  /\ listing = [s \in Listings |-> None]
  /\ portfolio = 0

Known       == {c \in Categories : category[c] # "NONE"}

(* name: { equals: name, mode: 'insensitive' }                             *)
Alike_Exact_Mutant(c) == {d \in Known : d = c}

Alike(c)              == {d \in Known : d[1] = c[1]}

-----------------------------------------------------------------------------
(* Administrators create, approve and reject.                              *)
CreateCategory(r, c, status) ==
  /\ category[c] = "NONE" /\ Once(r)
  /\ category' = [category EXCEPT ![c] = status]
  /\ UNCHANGED <<proposed, linked, listing, portfolio>>

Settle(r, c, status) ==
  /\ c \in Known /\ Once(r)
  /\ category' = [category EXCEPT ![c] = status]
  /\ UNCHANGED <<proposed, linked, listing, portfolio>>

(* suggest: whatever is there under the name is the answer.                *)
Suggest(r, c) ==
  /\ Alike(c) = {}
  /\ Begin(r, "category.create", c, None, None)
  /\ UNCHANGED catalogueVars

(* resolveForProvider looks for an approved category first, then for any.  *)
(* `by' is the service and `saw' whether it is there and to be updated; a  *)
(* new one belongs to one request.                                         *)
Listable(s) == listing[s] = None => \A q \in Requests : req[q].by # s

ListUnder(r, c, s) ==
  /\ Listable(s)
  /\ IF Alike(c) = {}
       THEN Begin(r, "category.create", c, s, listing[s] # None)
       ELSE \E d \in Alike(c) :
              /\ (\E e \in Alike(c) : category[e] = "APPROVED") => category[d] = "APPROVED"
              /\ Begin(r, "category.link", d, s, listing[s] # None)
  /\ UNCHANGED catalogueVars

ListUnderId(r, c, s) ==
  /\ Listable(s) /\ c \in Known
  /\ Begin(r, "category.link", c, s, listing[s] # None)
  /\ UNCHANGED catalogueVars

Propose(r) ==
  /\ req[r].at = "category.create" /\ category[req[r].on] = "NONE"
  /\ category' = [category EXCEPT ![req[r].on] = "PENDING"]
  /\ proposed' = proposed \cup {req[r].on}
  /\ IF req[r].by = None THEN End(r) ELSE Goto(r, "category.link")
  /\ UNCHANGED <<linked, listing, portfolio>>

LinkCategory_Skipped_Mutant(r) ==
  /\ req[r].at = "category.link"
  /\ linked' = IF category[req[r].on] = "PENDING" THEN linked ELSE linked \cup {req[r].on}
  /\ Goto(r, "service.write")
  /\ UNCHANGED <<category, proposed, listing, portfolio>>

LinkCategory(r) ==
  /\ req[r].at = "category.link"
  /\ linked' = linked \cup {req[r].on}
  /\ Goto(r, "service.write")
  /\ UNCHANGED <<category, proposed, listing, portfolio>>

WriteService(r) ==
  /\ req[r].at = "service.write" /\ (req[r].saw => listing[req[r].by] # None)
  /\ listing' = [listing EXCEPT ![req[r].by] = req[r].on]
  /\ End(r)
  /\ UNCHANGED <<category, proposed, linked, portfolio>>

DeleteService(r, s) ==
  /\ listing[s] # None
  /\ Begin(r, "service.delete", s, None, None)
  /\ UNCHANGED catalogueVars

RemoveService(r) ==
  /\ req[r].at = "service.delete"
  /\ listing' = [listing EXCEPT ![req[r].on] = None]
  /\ End(r)
  /\ UNCHANGED <<category, proposed, linked, portfolio>>

(* ProvidersService.addCategory.                                           *)
AddCategory(r, c) ==
  /\ c \in Known \ linked /\ Once(r)
  /\ linked' = linked \cup {c}
  /\ UNCHANGED <<category, proposed, listing, portfolio>>

-----------------------------------------------------------------------------
(* The portfolio: the items are counted, then one is created.              *)
AddItem(r) ==
  /\ portfolio < MaxPortfolio
  /\ Begin(r, "item.create", None, None, None)
  /\ UNCHANGED catalogueVars

CreateItem(r) ==
  /\ req[r].at = "item.create"
  /\ portfolio' = portfolio + 1
  /\ End(r)
  /\ UNCHANGED <<category, proposed, linked, listing>>

RemoveItem(r) ==
  /\ portfolio > 0 /\ Once(r)
  /\ portfolio' = portfolio - 1
  /\ UNCHANGED <<category, proposed, linked, listing>>

-----------------------------------------------------------------------------
(* The database refuses a name that is there by now, and the update of a   *)
(* service that is gone.                                                   *)
CatalogueRefused(r) ==
  \/ req[r].at = "category.create" /\ category[req[r].on] # "NONE"
  \/ req[r].at = "service.write" /\ req[r].saw /\ listing[req[r].by] = None

StopCatalogue(r) ==
  /\ \/ CatalogueRefused(r) /\ End(r)
     \/ Die(r)
  /\ UNCHANGED catalogueVars

CatalogueNext ==
  \E r \in Requests :
    \/ \E c \in Categories :
         \/ \E status \in {"APPROVED", "HIDDEN"} : CreateCategory(r, c, status)
         \/ \E status \in {"APPROVED", "REJECTED"} : Settle(r, c, status)
         \/ Suggest(r, c) \/ AddCategory(r, c)
         \/ \E s \in Listings : ListUnder(r, c, s) \/ ListUnderId(r, c, s)
    \/ \E s \in Listings : DeleteService(r, s)
    \/ AddItem(r) \/ RemoveItem(r) \/ CreateItem(r)
    \/ Propose(r) \/ LinkCategory(r) \/ WriteService(r) \/ RemoveService(r)
    \/ StopCatalogue(r)

CatalogueSpec ==
  CatalogueInit /\ FlightInit /\ [][CatalogueNext]_<<catalogueVars, flight>>

-----------------------------------------------------------------------------
CatalogueTypeOK ==
  /\ category \in [Categories -> {"NONE", "PENDING", "APPROVED", "HIDDEN", "REJECTED"}]
  /\ proposed \subseteq Known /\ linked \subseteq Known
  /\ listing \in [Listings -> Categories \cup {None}]
  /\ portfolio \in Nat

(* One request at a time, providers never propose a name that is there,    *)
(* whatever its case and whatever became of it (suggest: "Already known -  *)
(* surface it rather than creating a duplicate").                          *)
OneProposalPerName ==
  OneByOne => \A c, d \in proposed : c[1] = d[1] => c = d

(* However listing, proposing, settling and crashes overlap, whoever lists *)
(* a service is found under its category, which is there (createForProvider*)
(* and updateForProvider link before they write).                          *)
ListedIsLinked ==
  \A s \in Listings : listing[s] # None => listing[s] \in linked \cap Known
=============================================================================
