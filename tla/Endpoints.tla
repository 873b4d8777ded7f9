----------------------------- MODULE Endpoints ------------------------------
(***************************************************************************)
(* What the gateway's endpoints do: the options each gives to NewHandler,  *)
(* in their order, and the steps of the operation it calls then.  Options  *)
(* that are given a constant of the code (WithCreateMethod, WithOrderType  *)
(* of a user's own order) always pass, as do WithOffset and WithLimit; they*)
(* are left out.                                                           *)
(***************************************************************************)
EXTENDS Sequences

\* A field of the request that is passed by its address is never nil; one that
\* is passed as it is may be, and must says whether the option minds.
Needed(opt) == [opt |-> opt, field |-> opt, must |-> TRUE, given |-> TRUE]
Must(opt) == [opt |-> opt, field |-> opt, must |-> TRUE, given |-> FALSE]
May(opt) == [opt |-> opt, field |-> opt, must |-> FALSE, given |-> FALSE]

\* A step: what it does, the fields it dereferences, the copy it takes them
\* from, and the fields it only looks at if they are set.
Do(do, copy, keys, ifSet) == [do |-> do, copy |-> copy, keys |-> keys, ifSet |-> ifSet]

Everywhere(field) == {"order", "good", "coupon"} \X {field}

-----------------------------------------------------------------------------
(* Handlers: their table and where their options store.  An option that is *)
(* not named stores into the field of its name.                            *)

\* h.AppGoodID is the field of AppGoodCheckHandler: the one in
\* OrderCheckHandler lies deeper and is never set.
PowerRentalHandler ==
    [table |-> "powerRental",
     stores |-> [AppID |-> Everywhere("AppID"), UserID |-> Everywhere("UserID"),
                 GoodID |-> {<<"order", "GoodID">>, <<"good", "GoodID">>},
                 AppGoodID |-> {<<"good", "AppGoodID">>}]]

\* h.GoodID is the one of AppGoodCheckHandler as well.
FeeHandler ==
    [table |-> "fee",
     stores |-> [AppID |-> Everywhere("AppID"), UserID |-> Everywhere("UserID"),
                 GoodID |-> {<<"good", "GoodID">>, <<"order", "GoodID">>},
                 AppGoodID |-> {<<"good", "AppGoodID">>, <<"order", "AppGoodIDs">>}]]

\* The others embed one check handler and have one copy.
CompensateHandler == [table |-> "compensate", stores |-> [AppID |-> {<<"order", "AppID">>}]]
OutOfGasHandler == [table |-> "outOfGas", stores |-> [AppID |-> {<<"order", "AppID">>}]]
PowerRentalCompensateHandler == CompensateHandler
PowerRentalOutOfGasHandler == OutOfGasHandler
AppConfigHandler == [table |-> "config", stores |-> [AppID |-> {<<"order", "AppID">>}]]
OrderHandler == [table |-> "order", stores |-> [AppID |-> {<<"order", "AppID">>}]]
OrderCouponHandler == [table |-> "orderCoupon", stores |-> [AppID |-> {<<"order", "AppID">>}]]

-----------------------------------------------------------------------------
(* Operations. *)

Identity == {"AppID", "UserID"}
Narrowing == {"AppID", "UserID", "GoodID", "AppGoodID"}

\* CheckOrder
OrderChecked == <<Do("checkOrder", "order", {"OrderID"}, Narrowing)>>

\* The row that all identifiers of the request name.
PowerRentalChecked ==
    <<Do("checkRow", "order", {"ID", "EntID", "OrderID", "AppID", "UserID"}, {})>>
FeeChecked ==
    <<Do("checkRow", "order", {"ID", "EntID", "OrderID", "AppID", "UserID"}, {})>>
CompensateChecked ==
    <<Do("checkRow", "order", {"ID", "EntID", "AppID", "UserID"}, {})>>
AppConfigChecked ==
    <<Do("checkRow", "order", {"ID", "EntID", "AppID"}, {})>>

PowerRentalRead == OrderChecked \o <<Do("get", "order", {"OrderID"}, {})>>
FeeRead == OrderChecked \o <<Do("get", "order", {"OrderID"}, {})>>
CompensateRead == <<Do("get", "order", {"EntID"}, {"OrderID"}), Do("joinOne", "order", {}, {})>>
OutOfGasRead == <<Do("get", "order", {"EntID"}, {"OrderID"}), Do("joinOne", "order", {}, {})>>
AppConfigRead == <<Do("get", "order", {"AppID"}, {"EntID"})>>

\* GoodID and AppGoodID are taken from the copy that is named.
PowerRentalsListed == <<Do("list", "good", {}, {})>>
FeesListed == <<Do("list", "good", {}, {})>>
CompensatesListed == <<Do("list", "order", {}, {}), Do("join", "order", {}, {})>>
OutOfGasesListed == <<Do("list", "order", {}, {}), Do("join", "order", {}, {})>>
OrdersListed == <<Do("list", "order", {}, {})>>
OrderCouponsListed == <<Do("list", "order", {}, {})>>
AppConfigsListed == <<Do("list", "order", {}, {})>>

\* Every part of a creation or update takes the application and the user from
\* the check handler it happens to have (OrderOpHandler: of goods or of coupons).
PowerRentalCreated ==
    <<Do("use", "good", {"AppID", "UserID", "AppGoodID"}, {}),
      Do("use", "coupon", Identity, {}), Do("use", "order", Identity, {})>>
FeeCreated ==
    <<Do("use", "order", {"AppID", "UserID", "ParentOrderID"}, {}),
      Do("use", "good", {"AppID", "UserID", "AppGoodID"}, {}), Do("use", "coupon", Identity, {})>>
FeesCreated ==
    <<Do("use", "order", {"AppID", "UserID", "ParentOrderID"}, {}),
      Do("use", "good", Identity, {}), Do("use", "coupon", Identity, {})>>
PowerRentalUpdated ==
    OrderChecked \o PowerRentalChecked
    \o <<Do("use", "good", {"AppID"}, {}), Do("use", "coupon", Identity, {}),
         Do("update", "order", {"OrderID"}, {})>>
    \o PowerRentalRead
FeeUpdated ==
    OrderChecked \o FeeChecked
    \o <<Do("use", "good", {"AppID"}, {}), Do("use", "coupon", Identity, {}),
         Do("update", "order", {"OrderID"}, {})>>
    \o FeeRead
AppConfigCreated == <<Do("insert", "order", {"AppID"}, {})>> \o AppConfigRead
AppConfigUpdated ==
    AppConfigChecked \o <<Do("update", "order", {"ID", "EntID", "AppID"}, {})>> \o AppConfigRead

PowerRentalDeleted ==
    PowerRentalChecked \o PowerRentalRead \o <<Do("delete", "order", {"ID", "EntID", "OrderID"}, {})>>
FeeDeleted == FeeChecked \o FeeRead \o <<Do("delete", "order", {"ID", "EntID", "OrderID"}, {})>>
AppConfigDeleted == AppConfigRead \o <<Do("delete", "order", {"ID", "EntID", "AppID"}, {})>>

\* The new handler they make has the record and the order only, and checks the
\* order without narrowing it.
OrderThere == <<Do("checkOrder", "order", {"OrderID"}, {})>>
CompensateDeleted ==
    CompensateChecked \o OrderThere \o CompensateRead \o <<Do("deleteRead", "order", {}, {})>>
OutOfGasDeleted == OrderThere \o OutOfGasRead \o <<Do("deleteRead", "order", {}, {})>>

CompensateCreated ==
    <<Do("getOrder", "order", {}, {}),
      Do("getMalfunction", "order", {"CompensateFromID", "CompensateType"}, {})>>

-----------------------------------------------------------------------------
(* Endpoints. *)

Call(handler, options, steps) == [handler |-> handler, options |-> options, steps |-> steps]

OfUser == <<Needed("AppID"), Needed("UserID")>>
OfOrder == OfUser \o <<Needed("OrderID")>>
OfRow == <<Needed("ID"), Needed("EntID")>> \o OfOrder
OfRecord == OfUser \o <<Needed("ID"), Needed("EntID"), Needed("OrderID")>>

\* ValidateAdminCreateOrderType looks at the type before any option does.
AdminType == <<[opt |-> "AdminOrderType", field |-> "OrderType", must |-> TRUE, given |-> TRUE]>>

\* Orders and the coupons they use.
AdminGetOrders == Call(OrderHandler, <<May("AppID")>>, OrdersListed)
GetOrders == Call(OrderHandler, <<Needed("AppID"), May("UserID")>>, OrdersListed)
GetMyOrders == Call(OrderHandler, OfUser, OrdersListed)
AdminGetOrderCoupons == Call(OrderCouponHandler, <<May("AppID")>>, OrderCouponsListed)
GetOrderCoupons == Call(OrderCouponHandler, <<Needed("AppID"), May("UserID")>>, OrderCouponsListed)
GetMyOrderCoupons == Call(OrderCouponHandler, OfUser, OrderCouponsListed)

\* Power rentals.
CreatePowerRentalOrder ==
    Call(PowerRentalHandler,
         OfUser \o <<Needed("AppGoodID"), May("DurationSeconds"), May("Units"), May("AppSpotUnits"),
                     Must("PaymentBalances"), May("PaymentTransferCoinTypeID"), Must("CouponIDs"),
                     Must("FeeAppGoodIDs"), May("FeeDurationSeconds"), May("FeeAutoDeduction"),
                     May("AppGoodStockID"), Needed("InvestmentType"), May("Simulate")>>,
         PowerRentalCreated)
CreateUserPowerRentalOrder ==
    Call(PowerRentalHandler,
         AdminType \o OfUser
         \o <<Needed("AppGoodID"), Needed("OrderType"), May("DurationSeconds"), Must("Units"),
              May("AppSpotUnits"), Needed("AppGoodStockID"), Needed("InvestmentType")>>,
         PowerRentalCreated)
AdminCreatePowerRentalOrder == CreateUserPowerRentalOrder
UpdatePowerRentalOrder ==
    Call(PowerRentalHandler,
         OfRow \o <<Must("PaymentBalances"), May("PaymentTransferCoinTypeID"), Must("UserSetPaid"),
                    Must("UserSetCanceled")>>,
         PowerRentalUpdated)
UpdateUserPowerRentalOrder == Call(PowerRentalHandler, OfRow \o <<May("AdminSetCanceled")>>, PowerRentalUpdated)
AdminUpdatePowerRentalOrder == UpdateUserPowerRentalOrder
AdminDeletePowerRentalOrder == Call(PowerRentalHandler, OfRow, PowerRentalDeleted)
GetPowerRentalOrder == Call(PowerRentalHandler, OfOrder, PowerRentalRead)
GetPowerRentalOrders ==
    Call(PowerRentalHandler, <<Needed("AppID"), May("UserID"), May("AppGoodID")>>, PowerRentalsListed)
GetMyPowerRentalOrders == Call(PowerRentalHandler, OfUser \o <<May("AppGoodID")>>, PowerRentalsListed)
AdminGetPowerRentalOrders == Call(PowerRentalHandler, <<May("AppID"), May("GoodID")>>, PowerRentalsListed)

\* Fees.
CreateFeeOrder ==
    Call(FeeHandler,
         OfUser \o <<Needed("AppGoodID"), Needed("ParentOrderID"), Needed("DurationSeconds"),
                     Must("PaymentBalances"), May("PaymentTransferCoinTypeID"), Must("CouponIDs")>>,
         FeeCreated)
CreateUserFeeOrder ==
    Call(FeeHandler,
         AdminType \o OfUser
         \o <<Needed("AppGoodID"), Needed("ParentOrderID"), Needed("OrderType"), Needed("DurationSeconds")>>,
         FeeCreated)
AdminCreateFeeOrder == CreateUserFeeOrder
CreateFeeOrders ==
    Call(FeeHandler,
         OfUser \o <<Must("AppGoodIDs"), Needed("ParentOrderID"), Needed("DurationSeconds"),
                     Must("PaymentBalances"), May("PaymentTransferCoinTypeID"), Must("CouponIDs")>>,
         FeesCreated)
UpdateFeeOrder ==
    Call(FeeHandler,
         OfRow \o <<May("PaymentBalances"), May("PaymentTransferCoinTypeID"), May("UserSetPaid"),
                    May("UserSetCanceled")>>,
         FeeUpdated)
UpdateUserFeeOrder == Call(FeeHandler, OfRow \o <<May("AdminSetCanceled")>>, FeeUpdated)
AdminUpdateFeeOrder == UpdateUserFeeOrder
AdminDeleteFeeOrder == Call(FeeHandler, OfRow, FeeDeleted)
GetFeeOrder == Call(FeeHandler, OfOrder, FeeRead)
GetFeeOrders == Call(FeeHandler, <<Needed("AppID"), May("UserID"), May("AppGoodID")>>, FeesListed)
GetMyFeeOrders == Call(FeeHandler, OfUser \o <<May("AppGoodID")>>, FeesListed)
AdminGetFeeOrders == Call(FeeHandler, <<May("AppID"), May("GoodID")>>, FeesListed)

\* Compensations and records of running out of gas.
AdminGetCompensates == Call(CompensateHandler, <<May("AppID"), May("GoodID")>>, CompensatesListed)
GetCompensates == Call(CompensateHandler, <<Needed("AppID"), May("UserID"), May("AppGoodID")>>, CompensatesListed)
GetMyCompensates == Call(CompensateHandler, OfUser \o <<May("OrderID")>>, CompensatesListed)
AdminCreateCompensate ==
    Call(PowerRentalCompensateHandler,
         <<May("GoodID"), May("OrderID"), Needed("CompensateFromID"), Needed("CompensateType")>>,
         CompensateCreated)
AdminDeleteCompensate == Call(PowerRentalCompensateHandler, OfRecord, CompensateDeleted)
AdminGetOutOfGases == Call(OutOfGasHandler, <<May("AppID"), May("GoodID")>>, OutOfGasesListed)
GetOutOfGases == Call(OutOfGasHandler, <<Needed("AppID"), May("UserID"), May("AppGoodID")>>, OutOfGasesListed)
\* The order of the request is given to the option for goods.
GetMyOutOfGases ==
    Call(OutOfGasHandler,
         OfUser \o <<[opt |-> "AppGoodID", field |-> "OrderID", must |-> FALSE, given |-> FALSE]>>,
         OutOfGasesListed)
AdminDeleteOutOfGas == Call(PowerRentalOutOfGasHandler, OfRecord, OutOfGasDeleted)

\* Application configurations.
ConfigValues ==
    <<May("EnableSimulateOrder"), May("SimulateOrderCouponMode"), May("SimulateOrderCouponProbability"),
      May("SimulateOrderCashableProfitProbability"), May("MaxUnpaidOrders"), May("MaxTypedCouponsPerOrder")>>
OfConfig == <<Needed("ID"), Needed("EntID"), Needed("AppID")>>
CreateAppConfig == Call(AppConfigHandler, <<Needed("AppID")>> \o ConfigValues, AppConfigCreated)
AdminCreateAppConfig == CreateAppConfig
UpdateAppConfig == Call(AppConfigHandler, OfConfig \o ConfigValues, AppConfigUpdated)
AdminUpdateAppConfig == UpdateAppConfig
AdminDeleteAppConfig == Call(AppConfigHandler, OfConfig, AppConfigDeleted)
GetAppConfig == Call(AppConfigHandler, <<Needed("AppID")>>, AppConfigRead)
AdminGetAppConfigs == Call(AppConfigHandler, <<May("AppID")>>, AppConfigsListed)

AllEndpoints ==
    {AdminGetCompensates, GetCompensates, GetMyCompensates, AdminCreateFeeOrder,
     AdminDeleteFeeOrder, AdminGetFeeOrders, AdminUpdateFeeOrder, CreateFeeOrder,
     CreateUserFeeOrder, CreateFeeOrders, GetFeeOrder, GetFeeOrders, GetMyFeeOrders,
     UpdateFeeOrder, UpdateUserFeeOrder, AdminGetOrders, GetOrders, GetMyOrders,
     AdminGetOutOfGases, GetOutOfGases, GetMyOutOfGases, AdminCreatePowerRentalOrder,
     AdminDeletePowerRentalOrder, AdminGetPowerRentalOrders,
     AdminUpdatePowerRentalOrder, CreatePowerRentalOrder, CreateUserPowerRentalOrder,
     GetPowerRentalOrder, GetPowerRentalOrders, GetMyPowerRentalOrders,
     UpdatePowerRentalOrder, UpdateUserPowerRentalOrder, AdminCreateAppConfig,
     AdminDeleteAppConfig, AdminGetAppConfigs, AdminUpdateAppConfig, CreateAppConfig,
     GetAppConfig, UpdateAppConfig, AdminGetOrderCoupons, GetOrderCoupons,
     GetMyOrderCoupons, AdminCreateCompensate, AdminDeleteCompensate,
     AdminDeleteOutOfGas}

=============================================================================
