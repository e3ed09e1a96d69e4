--------------------------- MODULE MCClientCache ---------------------------
(* A few of the pages' queries against the mutations that touch them. *)
EXTENDS ClientCache, TLC

\* The inventory page, and the movements page or the drawer of a product.
StockQueries == "inventory list" :> "inventory" @@ "movement list" :> "stock-movements"
StockMutations == {"receive or adjust", "transition order"}

\* The products page.
ProductQueries == "product list" :> "products" @@ "categories" :> "product-categories"
ProductMutations == {"save product", "deactivate product"}

============================================================================
